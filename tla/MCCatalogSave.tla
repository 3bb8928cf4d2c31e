--------------------------- MODULE MCCatalogSave ---------------------------
(* Small catalogs for TLC: two products with a variant each, a few drafts. *)
EXTENDS CatalogSave, TLC

CONSTANTS p1, p2, p3, p4, v1, v2, v3, v4, s1, s2, s3, k1, k2, k3, k4,
          c1, c2

\* Two spellings of the identity of v1, one of the others.
McUuid == [t \in Ids |-> CASE t = "t2" -> v2 [] t = "t3" -> v3 [] t = "t4" -> v4 [] OTHER -> v1]

McContents == {"good", "category?", "image?"}

Row(s, status, rev) ==
    [slug |-> s, status |-> status, content |-> "good", revision |-> rev]

Trail(n) == [i \in 1..n |-> [request |-> Absent, old |-> i - 1, new |-> i]]

TwoProducts(rev) ==
    [products |-> [p \in Products |-> IF p = p1 THEN Row(s1, "active", rev)
                                      ELSE IF p = p2 THEN Row(s2, "draft", 1)
                                      ELSE Absent],
     variants |-> [v \in Variants |->
        IF v = v1 THEN [product |-> p1, sku |-> k1, active |-> TRUE]
        ELSE IF v = v2 THEN [product |-> p2, sku |-> k2, active |-> TRUE]
        ELSE Absent],
     audit |-> [p \in Products |-> IF p = p1 THEN Trail(rev)
                                   ELSE IF p = p2 THEN Trail(1) ELSE <<>>]]

Blank == [products |-> [p \in Products |-> Absent],
          variants |-> [v \in Variants |-> Absent],
          audit |-> [p \in Products |-> <<>>]]

It(id, sku, active) == [id |-> id, sku |-> sku, active |-> active]
Dr(slug, status, content, items) ==
    [slug |-> slug, status |-> status, content |-> content, items |-> items]

\* Two calls, many drafts: slugs and SKUs kept, taken from the other product,
\* swapped, freed and reused; variants added, left out, renamed.
PairItems == {<<It("t1", k1, TRUE)>>, <<It("t1", k2, TRUE)>>,
              <<It("t2", k2, TRUE)>>, <<It("t2", k1, FALSE)>>,
              <<It("t1", k3, TRUE), It(Absent, k2, TRUE)>>,
              <<It("t2", k2, FALSE), It(Absent, k1, TRUE)>>,
              <<It(Absent, k3, TRUE)>>}
PairDrafts ==
    {Dr(s, "active", "good", its) : s \in {s1, s2}, its \in PairItems}
    \cup {Dr(s1, "archived", "category?", <<It("t1", k1, TRUE)>>),
          Dr(s3, "draft", "image?", <<It("t1", k3, FALSE)>>)}
PairDatabases == {TwoProducts(1), TwoProducts(MaxRevision), Blank}

\* Two products with two variants each, and saves that write their SKUs in
\* opposite orders: each may wait for the other.  A third product is missing.
FourVariants ==
    [TwoProducts(1) EXCEPT !.variants = [v \in Variants |->
        IF v \in {v1, v3} THEN [product |-> p1, sku |-> IF v = v1 THEN k1 ELSE k3, active |-> TRUE]
        ELSE [product |-> p2, sku |-> IF v = v2 THEN k2 ELSE k4, active |-> TRUE]]]

ChainDrafts ==
    {Dr(s1, "active", "good", <<It("t1", k1, TRUE), It("t3", k2, FALSE)>>),
     Dr(s2, "active", "good", <<It("t2", k2, TRUE), It("t4", k1, FALSE)>>)}
ChainDatabases == {FourVariants}
TwiceDatabases == {TwoProducts(1)}

\* One variant named twice in one draft, in lower and in upper case.
TwiceDrafts ==
    {Dr(s1, "active", "good", <<It("t1", k1, a), It("T1", k2, b)>>) :
        a, b \in BOOLEAN}
    \cup {Dr(s2, "draft", "good", <<It("t2", k3, TRUE)>>)}

PairSymmetry == Permutations(Calls) \cup Permutations({v3, v4}) \cup Permutations({p3, p4})
============================================================================
