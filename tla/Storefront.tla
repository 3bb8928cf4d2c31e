---------------------------- MODULE Storefront ----------------------------
(***************************************************************************)
(* Uploads, saves, requests for images and a crawl of the sitemap, all at  *)
(* once over one shelf.                                                    *)
(***************************************************************************)
EXTENDS Media, Reading

vars == <<products, media, mediaVars, crawl>>

Init == ShelfInit /\ MediaInit /\ CrawlInit

Save(p) == Publish(p) /\ NotePublished /\ NoteMoved
           /\ UNCHANGED <<objects, upload, told, log>>

Upload(m) ==
    /\ \/ Insert(m)
       \/ (Receive(m) \/ Put(m) \/ PutFails(m) \/ GiveUp(m) \/ Lose(m)) /\ UNCHANGED media
    /\ UNCHANGED <<products, crawl>>

View(v) ==
    /\ \/ \E m \in Images, s \in Sizes, signed \in BOOLEAN : Ask(v, m, s, signed)
       \/ AskPublished(v) \/ Require(v) \/ Get(v)
    /\ UNCHANGED <<products, media, crawl>>

Crawl ==
    /\ ReadIndex \/ \E page \in 1..Cardinality(Products) : ReadPage(page)
    /\ UNCHANGED mediaVars

Next ==
    \/ \E p \in Products : Save(p)
    \/ \E m \in Images : Upload(m)
    \/ \E v \in Viewers : View(v)
    \/ Crawl

Spec == Init /\ [][Next]_vars
----------------------------------------------------------------------------
(* Properties.                                                             *)

TypeOK ==
    /\ products \in [Products -> Row \cup {Absent}]
    /\ media \subseteq Images
    /\ objects \in [Images -> SUBSET Sizes]
    /\ upload \in [Images -> {"idle", "put", "row", "done"}]
    /\ told \in [Images -> {"none", "INVALID_IMAGE", "STORAGE_UNAVAILABLE",
                            "DATABASE_UNAVAILABLE", "CREATED"}]
    /\ log \in [Images -> Nat]
    /\ view \in [Viewers ->
         [at: {"idle", "published", "require", "get", "done"},
          image: Images \cup {Absent}, size: Sizes \cup {Absent}, signed: BOOLEAN,
          reply: {"none", "OK", "NOT_FOUND", "AUTH_REQUIRED", "STORAGE_UNAVAILABLE"},
          known: BOOLEAN, shown: BOOLEAN, gone: BOOLEAN]]
    /\ left \in (SUBSET Nat) \cup {Absent}
    /\ listed \in [Products -> Nat]
    /\ stayed \subseteq Products
    /\ moved \subseteq Products

\* Objects and row are stored one after another and each may fail, yet an image
\* that has a row has all its sizes, and one audit entry; so has every image a
\* product shows, which the storefront offers in all sizes (srcSet).
ImagesWhole ==
    /\ \A m \in media : objects[m] = Sizes /\ log[m] = 1
    /\ \A p \in Products : products[p] # Absent =>
          \A m \in products[p].images : objects[m] = Sizes

\* What the caller of an upload was told is so: 201 of an image that can be put
\* into a product, an error of one that never can, but for a 503 of the database.
UploadTrue ==
    \A m \in Images :
        /\ told[m] = "CREATED" => m \in media
        /\ told[m] \in {"INVALID_IMAGE", "STORAGE_UNAVAILABLE"} =>
              m \notin media /\ \A p \in Products :
                  products[p] # Absent => m \notin products[p].images

\* "Product images remain private until their product is published"
\* (catalog.md): without a session an image is answered only if, at some instant
\* since it was asked for, an active product showed it.
Private ==
    \A v \in Viewers :
        view[v].reply = "OK" => view[v].signed \/ view[v].shown

\* An image that a public document or the answer to an upload named is not
\* missing, and whoever a public document named it to is asked to sign in only
\* if the image was withdrawn since.
NothingBroken ==
    \A v \in Viewers :
        /\ view[v].known => view[v].reply # "NOT_FOUND"
        /\ view[v].reply = "AUTH_REQUIRED" => view[v].gone

\* A product that is public as long as a crawl of the sitemap lasts is listed by
\* exactly one of its pages, in whatever order they are read, unless a newer
\* product was published or withdrawn meanwhile: older ones disturb nothing.
MissedForCause ==
    left = {} => \A p \in stayed :
        listed[p] # 1 => \E q \in moved : q > p

\* For every limit the filter accepts, the pages up to the last the sitemap's
\* index would name list a public product once if page MaxPage reaches as far,
\* and never otherwise: none falls between two pages, none is on both.
PagesPartition ==
    \A limit \in 1..Limit :
        LET pages == {k \in 1..Pages(Cardinality(Public), limit) : ParseFilter(k, limit) # Absent}
            page(k) == Items(ParseFilter(k, limit), Public) IN
        \A p \in Public :
            Cardinality({k \in pages : p \in page(k)}) =
                IF Before(p, Public) < limit * MaxPage THEN 1 ELSE 0
=============================================================================
