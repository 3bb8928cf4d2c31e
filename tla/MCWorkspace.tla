---------------------------- MODULE MCWorkspace ----------------------------
(* One product in the catalog; employees edit it and add others.           *)
EXTENDS Workspace

CONSTANTS b1, b2, c1, c2, p1, p2, v1, v2, s1, s2, k1, k2

Texts == [v \in Variants |-> IF v = v1 THEN "t1" ELSE "t2"]
McUuid == [t \in Ids |-> IF t = "t1" THEN v1 ELSE v2]

It(id, sku, active) == [id |-> id, sku |-> sku, active |-> active]
Dr(slug, content, items) ==
    [slug |-> slug, status |-> "active", content |-> content, items |-> items]

\* The product there is, with either content; and a draft that is refused.
Valid == {Dr(s1, x, <<It("t1", k1, TRUE)>>) : x \in Contents}
Edits == Valid \cup {Dr(s1, "red", <<It("t1", k1, FALSE)>>)}

\* The product there is, and one to be added.
TwoDrafts == Valid \cup {Dr(s2, "red", <<It(id, k2, TRUE)>>) : id \in {Absent, "t2"}}

OneProduct ==
    {[products |-> [p \in Products |-> IF p = p1
         THEN [slug |-> s1, status |-> "active", content |-> "red", revision |-> 1]
         ELSE Absent],
      variants |-> [v \in Variants |-> IF v = v1
         THEN [product |-> p1, sku |-> k1, active |-> TRUE] ELSE Absent],
      audit |-> [p \in Products |-> IF p = p1
         THEN <<[request |-> Absent, old |-> 0, new |-> 1]>> ELSE <<>>]]}

Symmetry == Permutations(Browsers) \cup Permutations(Calls)
============================================================================
