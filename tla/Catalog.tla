------------------------------ MODULE Catalog ------------------------------
(***************************************************************************)
(* The data of the product catalog: rows, drafts, requests, and the        *)
(* operators on them that the store (CatalogStore) and the transaction     *)
(* that implements it (CatalogSave) share.                                 *)
(*                                                                         *)
(* A table is a function from the identities a row may have to rows, with  *)
(* Absent for an identity no row has.  Names, texts, prices, categories    *)
(* and images of a product are one opaque Content: catalog_save replaces   *)
(* them as a block under the product's row lock.                           *)
(***************************************************************************)
EXTENDS Integers, Sequences

CONSTANTS
    Products,           \* identities products can have (uuid)
    Variants,           \* identities variants can have (uuid)
    Ids,                \* the texts a client can write for a variant identity
    Uuid,               \* the variant a text denotes: the ::uuid cast
    Slugs, Skus,        \* values of the two unique keys
    Contents,           \* everything else a draft says about its product
    UnknownCategories,  \* contents naming a category or brand that is not there
    UnknownMedia,       \* contents naming an image that is not there
    Drafts,             \* the drafts clients send, valid or not
    Calls,              \* calls of the save endpoints; a call is its request id
    MaxItems,           \* most variants in a draft: 50 in the code
    MaxRevision,        \* largest revision: 2^31 - 1 in the code
    Databases,          \* the contents of the tables a run may start from
    Absent              \* NULL

Statuses == {"draft", "active", "archived"}

ProductRow == [slug: Slugs, status: Statuses, content: Contents,
               revision: 1..MaxRevision]
VariantRow == [product: Products, sku: Skus, active: BOOLEAN]
AuditEntry == [request: Calls \cup {Absent}, old: 0..MaxRevision,
               new: 1..MaxRevision]

ProductTable == [Products -> ProductRow \cup {Absent}]
VariantTable == [Variants -> VariantRow \cup {Absent}]
AuditTable   == [Products -> Seq(AuditEntry)]

Item  == [id: Ids \cup {Absent}, sku: Skus, active: BOOLEAN]
Draft == [slug: Slugs, status: Statuses, content: Contents, items: Seq(Item)]

ValidDraftUnpublished(d) ==
    /\ Len(d.items) \in 1..MaxItems
    /\ \A i, j \in 1..Len(d.items) :
          i # j => /\ d.items[i].sku # d.items[j].sku
                   /\ d.items[i].id = Absent \/ d.items[i].id # d.items[j].id

\* What catalog::validateDraft demands of the parts a Draft keeps.  Identities
\* are compared as texts, before the database reads them as uuids.
ValidDraft(d) ==
    LET positions == 1..Len(d.items) IN
    /\ Len(d.items) \in 1..MaxItems
    /\ \A i, j \in positions :
          i # j => /\ d.items[i].sku # d.items[j].sku
                   /\ \/ d.items[i].id = Absent
                      \/ d.items[i].id # d.items[j].id
    /\ d.status = "active" => \E i \in positions : d.items[i].active

\* A call of the save endpoints.  keys[i] is the identity of the variant that
\* item i writes: the one its text denotes, or a new one.
Ask == [target: Products \cup {Absent}, expected: 0..MaxRevision,
        key: Products, draft: Drafts,
        keys: UNION {[1..n -> Variants] : n \in 1..MaxItems}]

Creates(r) == r.target = Absent
Names(r, i) == r.draft.items[i].id # Absent
Positions(r) == 1..Len(r.draft.items)

\* The calls the service passes to the database.
Requests ==
    {r \in Ask :
        /\ ValidDraft(r.draft)
        /\ DOMAIN r.keys = Positions(r)
        /\ IF Creates(r) THEN r.expected = 0
                         ELSE r.expected >= 1 /\ r.key = r.target
        /\ \A i \in Positions(r) :
              IF Names(r, i)
                THEN r.keys[i] = Uuid[r.draft.items[i].id]
                ELSE \A j \in Positions(r) \ {i} : r.keys[j] # r.keys[i]}

\* The identities that the calls of requests reqs name or have drawn.
Asking(reqs) == {c \in Calls : reqs[c] # Absent}
DrawnProducts(reqs) == {reqs[c].key : c \in Asking(reqs)}
DrawnVariants(reqs) ==
    UNION {{reqs[c].keys[i] : i \in Positions(reqs[c])} : c \in Asking(reqs)}

\* gen_random_uuid never repeats: the new identities of r are those of no row
\* in the tables ps and vs, and no other call has drawn them.  Drawing them all
\* with the request is not observable: nobody can name them before the commit.
Fresh(r, ps, vs, reqs) ==
    /\ Creates(r) => ps[r.key] = Absent /\ r.key \notin DrawnProducts(reqs)
    /\ \A i \in Positions(r) :
          ~Names(r, i) => /\ vs[r.keys[i]] = Absent
                          /\ r.keys[i] \notin DrawnVariants(reqs)

\* What a call is told: a saved document, a refusal of catalog_save or of the
\* validation, or the 503 that says nothing about the outcome.
Refusals == {"VALIDATION_FAILED", "NOT_FOUND", "REVISION_CONFLICT",
             "DUPLICATE_SLUG_OR_SKU", "INVALID_REFERENCE"}
Replies  == Refusals \cup {"none", "waiting", "OK", "DATABASE_UNAVAILABLE"}
----------------------------------------------------------------------------
(* What the tables must satisfy together.                                  *)

UniqueSlugs(ps) ==
    \A p, q \in Products :
        (ps[p] # Absent /\ ps[q] # Absent /\ ps[p].slug = ps[q].slug) => p = q

UniqueSkus(vs) ==
    \A v, w \in Variants :
        (vs[v] # Absent /\ vs[w] # Absent /\ vs[v].sku = vs[w].sku) => v = w

VariantsOwned(ps, vs) ==
    \A v \in Variants : vs[v] # Absent => ps[vs[v].product] # Absent

Purchasable(p, vs) ==
    \E v \in Variants : vs[v] # Absent /\ vs[v].product = p /\ vs[v].active

PublishedPurchasable(ps, vs) ==
    \A p \in Products :
        (ps[p] # Absent /\ ps[p].status = "active") => Purchasable(p, vs)

\* The audit log of a product tells its revisions one by one, none missing,
\* none told twice.
AuditComplete(ps, log) ==
    \A p \in Products :
        /\ Len(log[p]) = IF ps[p] = Absent THEN 0 ELSE ps[p].revision
        /\ \A i \in 1..Len(log[p]) : log[p][i].old = i - 1 /\ log[p][i].new = i

Consistent(ps, vs, log) ==
    /\ UniqueSlugs(ps)
    /\ UniqueSkus(vs)
    /\ VariantsOwned(ps, vs)
    /\ PublishedPurchasable(ps, vs)
    /\ AuditComplete(ps, log)

ASSUME CatalogAssumption ==
    /\ MaxRevision \in Nat \ {0}
    /\ MaxItems \in Nat \ {0}
    /\ Uuid \in [Ids -> Variants]
    /\ UnknownCategories \subseteq Contents
    /\ UnknownMedia \subseteq Contents
    /\ Drafts \subseteq Draft
    /\ Absent \notin Products \cup Variants \cup Ids \cup Calls

ASSUME AbsentAssumption ==
    /\ Absent \notin ProductRow
    /\ Absent \notin VariantRow
    /\ Absent \notin Requests

ASSUME DatabasesAssumption ==
    \A db \in Databases :
        /\ db.products \in ProductTable
        /\ db.variants \in VariantTable
        /\ db.audit \in AuditTable
        /\ Consistent(db.products, db.variants, db.audit)
        /\ \A p \in Products : \A i \in 1..Len(db.audit[p]) :
              db.audit[p][i].request = Absent

\* Every variant has one spelling.  A client that always sends identities as it
\* received them, the way the database prints them, keeps to this.
OneSpelling == \A i, j \in Ids : Uuid[i] = Uuid[j] => i = j
============================================================================
