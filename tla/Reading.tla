------------------------------ MODULE Reading ------------------------------
(***************************************************************************)
(* The lists of products that visitors and crawlers read in pages: the     *)
(* filter of Service::list, the page Repository::list answers, and the     *)
(* sitemap of the storefront, an index and its pages read one by one       *)
(* while products are published and withdrawn.                             *)
(***************************************************************************)
EXTENDS Shelf, FiniteSets

CONSTANTS
    Limit,      \* of the sitemap: 48, the most a page may hold
    MaxPage     \* 10000

ASSUME ReadingAssumption ==
    /\ Limit \in Nat \ {0}
    /\ MaxPage \in Nat \ {0}
    /\ IsFiniteSet(Products) /\ Cardinality(Products) <= Limit * MaxPage    \* 480000
    /\ Absent \notin [page: 1..MaxPage, limit: 1..Limit]
    /\ \A pages \in SUBSET (1..MaxPage) : pages # Absent

VARIABLES
    left,       \* the pages of the index not yet read, or Absent: no index
    listed,     \* how many of the pages read listed a product
    stayed,     \* the products public since the index was read
    moved       \* those published or withdrawn since then

crawl == <<left, listed, stayed, moved>>

CrawlInit ==
    /\ left = Absent
    /\ listed = [p \in Products |-> 0]
    /\ stayed = {}
    /\ moved = {}
----------------------------------------------------------------------------
(* Service::list                                                           *)

\* integer(): a number that was left out has a default.
Integer(input, default, max) ==
    IF input = Absent THEN default
    ELSE IF input > max THEN Absent
    ELSE input

\* parseFilter's page and limit, or Absent for 400 INVALID_FILTER.
ParseFilter(page, limit) ==
    LET f == [page |-> Integer(page, 1, MaxPage), limit |-> Integer(limit, 12, Limit)] IN
    IF f.page \in {0, Absent} \/ f.limit \in {0, Absent} THEN Absent ELSE f

\* How many of them are newer than p.
Before(p, ps) == Cardinality({q \in ps : q > p})

ItemsFromPage(f, ps) ==
    {p \in ps : Before(p, ps) >= f.page * f.limit
             /\ Before(p, ps) < (f.page + 1) * f.limit}

ItemsOldestFirst(f, ps) ==
    LET offset == (f.page - 1) * f.limit IN
    {p \in ps : Cardinality({q \in ps : q < p}) \in offset..(offset + f.limit - 1)}

\* LIMIT and OFFSET: what page f.page lists of the products ps, newest first.
Items(f, ps) ==
    LET offset == (f.page - 1) * f.limit IN
    {p \in ps : Before(p, ps) \in offset..(offset + f.limit - 1)}

\* Math.max(1, Math.ceil(total / limit))
Pages(total, limit) == IF total = 0 THEN 1 ELSE (total + limit - 1) \div limit
----------------------------------------------------------------------------
(* sitemap.xml and sitemaps/[page].xml.  A 503 is asked again: no step.    *)

ReadIndex ==
    /\ left = Absent
    /\ left' = 1..Pages(Cardinality(Public), Limit)
    /\ stayed' = Public
    /\ UNCHANGED <<products, media, listed, moved>>

\* A page that is no longer there is answered 404, and so is one past MaxPage.
ReadPage(page) ==
    LET f == ParseFilter(page, Limit) IN
    /\ left # Absent /\ page \in left
    /\ left' = left \ {page}
    /\ IF f # Absent /\ page <= Pages(Cardinality(Public), Limit)
         THEN listed' = [p \in Products |->
                  listed[p] + IF p \in Items(f, Public) THEN 1 ELSE 0]
         ELSE UNCHANGED listed
    /\ UNCHANGED <<products, media, stayed, moved>>

\* A save is noted for the crawl under way.
NoteMoved ==
    /\ IF left = Absent THEN UNCHANGED <<stayed, moved>>
       ELSE /\ stayed' = stayed \cap Public'
            /\ moved' = moved \cup (Public \ Public') \cup (Public' \ Public)
    /\ UNCHANGED <<left, listed>>
=============================================================================
