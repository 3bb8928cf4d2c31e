------------------------------- MODULE Shelf -------------------------------
(***************************************************************************)
(* What visitors of the storefront read while administrators write: the    *)
(* products and the images they show.  A save replaces both at one instant *)
(* (CatalogSave); a public product has an active variant (its Consistent). *)
(* products.created_at is read when the save that creates the product      *)
(* begins, so products need not become visible in its order.               *)
(***************************************************************************)
EXTENDS Naturals

CONSTANTS
    Products,   \* by created_at: the greatest is the newest
    Images,     \* the identities uploads draw
    Absent

ASSUME ShelfAssumption ==
    /\ Products \subseteq Nat
    /\ Absent \notin Products \cup Images \cup Nat

VARIABLES
    products,   \* status and images of each product, or Absent
    media       \* media_objects: the images that have a row

Row == [status: {"active", "hidden"}, images: SUBSET Images]

ShelfInit ==
    /\ products \in [Products -> {Absent} \cup [status: {"active"}, images: {{}}]]
    /\ media = {}

Public == {p \in Products : products[p] # Absent /\ products[p].status = "active"}
Shown == UNION {products[p].images : p \in Public}

PublishUnchecked(p) ==
    /\ \E row \in Row : products' = [products EXCEPT ![p] = row]
    /\ UNCHANGED media

\* catalog_save writes p.  Naming an image without a row is INVALID_REFERENCE.
Publish(p) ==
    /\ \E row \in Row :
         /\ row.images \subseteq media
         /\ products' = [products EXCEPT ![p] = row]
    /\ UNCHANGED media
=============================================================================
