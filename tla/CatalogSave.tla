---------------------------- MODULE CatalogSave ----------------------------
(***************************************************************************)
(* catalog_save as the database runs it: several calls at once, each a     *)
(* READ COMMITTED transaction whose statements interleave with those of    *)
(* the others.  A call's writes are in rows of its own (newProduct,        *)
(* newVariants) until it commits.  What makes one call wait for another    *)
(* is PostgreSQL's: the row lock of SELECT ... FOR UPDATE, and the two     *)
(* unique indexes, in which a key that an unfinished transaction is        *)
(* writing or leaving is neither taken nor free.                           *)
(***************************************************************************)
EXTENDS Catalog

VARIABLES
    products, variants, audit,  \* the committed tables
    pc,                         \* the statement each call is at
    req, reply,                 \* what the call asked for, what it was told
    previous,                   \* revision read by catalog_save, 0 if none
    newProduct, newVariants,    \* rows written and not committed
    next                        \* item of the draft to be written next

tables == <<products, variants, audit>>
writes == <<newProduct, newVariants, next>>
vars == <<tables, pc, req, reply, previous, writes>>

NoVariants == [v \in Variants |-> Absent]

Init ==
    /\ \E db \in Databases : /\ products = db.products
                             /\ variants = db.variants
                             /\ audit = db.audit
    /\ pc = [c \in Calls |-> "idle"]
    /\ req = [c \in Calls |-> Absent]
    /\ reply = [c \in Calls |-> "none"]
    /\ previous = [c \in Calls |-> 0]
    /\ newProduct = [c \in Calls |-> Absent]
    /\ newVariants = [c \in Calls |-> NoVariants]
    /\ next = [c \in Calls |-> 1]

Running(c) == pc[c] \notin {"idle", "done"}
Goto(c, label) == pc' = [pc EXCEPT ![c] = label]
Asked(c) == req[c].draft
----------------------------------------------------------------------------
(* Waiting and conflicts.                                                  *)

\* c is past SELECT ... FOR UPDATE, or made the row itself.
Holds(c, p) ==
    pc[c] \in {"check", "product", "variants"} /\ req[c].key = p

NoRowLock(c) == FALSE

RowBusy(c) == \E d \in Calls \ {c} : Holds(d, req[c].key)

\* d is writing slug k, or writing the row that has it.
WritesSlug(d, k) ==
    /\ newProduct[d] # Absent
    /\ \/ newProduct[d].slug = k
       \/ /\ products[req[d].key] # Absent
          /\ products[req[d].key].slug = k

SlugBusy(c) == \E d \in Calls \ {c} : WritesSlug(d, Asked(c).slug)

SlugTaken(c) ==
    \E p \in Products \ {req[c].key} :
        products[p] # Absent /\ products[p].slug = Asked(c).slug

WritesSku(d, k) ==
    \E v \in Variants :
        /\ newVariants[d][v] # Absent
        /\ \/ newVariants[d][v].sku = k
           \/ variants[v] # Absent /\ variants[v].sku = k

\* The item c is at, and the identity it writes.
ThisItem(c) == Asked(c).items[next[c]]
ThisKey(c)  == req[c].keys[next[c]]

SkuBusy(c) == \E d \in Calls \ {c} : WritesSku(d, ThisItem(c).sku)

\* The row of v in the eyes of c.
Seen(c, v) == IF newVariants[c][v] # Absent THEN newVariants[c][v] ELSE variants[v]

SkuTakenInProduct(c) ==
    \E v \in Variants \ {ThisKey(c)} :
        /\ Seen(c, v) # Absent
        /\ Seen(c, v).product = req[c].key
        /\ Seen(c, v).sku = ThisItem(c).sku

SkuTaken(c) ==
    \E v \in Variants \ {ThisKey(c)} :
        Seen(c, v) # Absent /\ Seen(c, v).sku = ThisItem(c).sku

\* "Invalid variant identity": the draft names a variant that the product
\* does not have.
StrangerAnywhere(c) == ThisItem(c).id # Absent /\ Seen(c, ThisKey(c)) = Absent

Stranger(c) ==
    /\ ThisItem(c).id # Absent
    /\ ~ /\ Seen(c, ThisKey(c)) # Absent
         /\ Seen(c, ThisKey(c)).product = req[c].key
----------------------------------------------------------------------------
(* Ends of a call.                                                         *)

Tell(c, what) ==
    reply' = [reply EXCEPT ![c] = IF @ = "waiting" THEN what ELSE @]

\* The transaction, or the block under EXCEPTION, is rolled back; only the
\* answer remains.
RollBack(c, what) ==
    /\ Goto(c, "done")
    /\ Tell(c, what)
    /\ newProduct' = [newProduct EXCEPT ![c] = Absent]
    /\ newVariants' = [newVariants EXCEPT ![c] = NoVariants]
    /\ UNCHANGED <<tables, req, previous, next>>
----------------------------------------------------------------------------
(* The steps of a call.                                                    *)

\* Service::save validates and calls the function.
Begin(c) ==
    /\ pc[c] = "idle"
    /\ \E r \in Requests : /\ Fresh(r, products, variants, req)
                           /\ req' = [req EXCEPT ![c] = r]
                           /\ Goto(c, IF Creates(r) THEN "product" ELSE "lock")
    /\ reply' = [reply EXCEPT ![c] = "waiting"]
    /\ UNCHANGED <<tables, previous, writes>>

Reject(c) ==
    /\ pc[c] = "idle"
    /\ \E draft \in Drafts : ~ValidDraft(draft)
    /\ Goto(c, "done")
    /\ reply' = [reply EXCEPT ![c] = "VALIDATION_FAILED"]
    /\ UNCHANGED <<tables, req, previous, writes>>

LockWithoutNotFound(c) ==
    /\ pc[c] = "lock"
    /\ products[req[c].key] # Absent
    /\ ~RowBusy(c)
    /\ Goto(c, "check")
    /\ UNCHANGED <<tables, req, reply, previous, writes>>

\* SELECT ... FOR UPDATE, which waits for the row.
Lock(c) ==
    /\ pc[c] = "lock"
    /\ IF products[req[c].key] = Absent
         THEN RollBack(c, "NOT_FOUND")
         ELSE /\ ~RowBusy(c)
              /\ Goto(c, "check")
              /\ UNCHANGED <<tables, req, reply, previous, writes>>

Stale(c) == products[req[c].key].revision # req[c].expected

CheckWithoutReturn(c) ==
    /\ pc[c] = "check"
    /\ previous' = [previous EXCEPT ![c] = products[req[c].key].revision]
    /\ IF Stale(c) THEN Tell(c, "REVISION_CONFLICT") ELSE UNCHANGED reply
    /\ Goto(c, "product")
    /\ UNCHANGED <<tables, req, writes>>

\* SELECT catalog_document INTO previous, and the revision test.
Check(c) ==
    /\ pc[c] = "check"
    /\ IF Stale(c)
         THEN RollBack(c, "REVISION_CONFLICT")
         ELSE /\ previous' = [previous EXCEPT
                    ![c] = products[req[c].key].revision]
              /\ Goto(c, "product")
              /\ UNCHANGED <<tables, req, reply, writes>>

Wraps(c) == FALSE

\* revision+1 past the largest integer is an error the function does not catch.
Overflows(c) == previous[c] = MaxRevision

\* UPDATE or INSERT of the product, then its categories and translations.
WriteProduct(c) ==
    /\ pc[c] = "product"
    /\ \/ Overflows(c) /\ RollBack(c, "DATABASE_UNAVAILABLE")
       \/ /\ ~Overflows(c)
          /\ ~SlugBusy(c)
          /\ \/ SlugTaken(c) /\ RollBack(c, "DUPLICATE_SLUG_OR_SKU")
             \/ /\ ~SlugTaken(c)
                /\ Asked(c).content \in UnknownCategories
                /\ RollBack(c, "INVALID_REFERENCE")
             \/ /\ ~SlugTaken(c)
                /\ Asked(c).content \notin UnknownCategories
                /\ newProduct' = [newProduct EXCEPT ![c] =
                      [slug |-> Asked(c).slug, status |-> Asked(c).status,
                       content |-> Asked(c).content,
                       revision |-> previous[c] + 1]]
                /\ Goto(c, "variants")
                /\ UNCHANGED <<tables, req, reply, previous, newVariants, next>>

\* INSERT ... ON CONFLICT(id) DO UPDATE leaves the product of an old row alone.
Upsert(c) ==
    [product |-> IF Seen(c, ThisKey(c)) = Absent THEN req[c].key
                 ELSE Seen(c, ThisKey(c)).product,
     sku |-> ThisItem(c).sku, active |-> ThisItem(c).active]

\* One turn of the loop over the variants of the draft.
WriteVariant(c) ==
    /\ pc[c] = "variants"
    /\ next[c] <= Len(Asked(c).items)
    /\ \/ Stranger(c) /\ RollBack(c, "INVALID_REFERENCE")
       \/ /\ ~Stranger(c)
          /\ ~SkuBusy(c)
          /\ \/ SkuTaken(c) /\ RollBack(c, "DUPLICATE_SLUG_OR_SKU")
             \/ /\ ~SkuTaken(c)
                /\ newVariants' = [newVariants EXCEPT ![c][ThisKey(c)] = Upsert(c)]
                /\ next' = [next EXCEPT ![c] = @ + 1]
                /\ UNCHANGED <<tables, pc, req, reply, previous, newProduct>>

CommittedAsIs(c, v) ==
    IF newVariants[c][v] # Absent THEN newVariants[c][v] ELSE variants[v]

\* The row of v once c has committed: the one it wrote, or, for a variant of
\* its product that the draft left out, the old one deactivated.
Committed(c, v) ==
    IF newVariants[c][v] # Absent THEN newVariants[c][v]
    ELSE IF variants[v] # Absent /\ variants[v].product = req[c].key
           THEN [variants[v] EXCEPT !.active = FALSE]
           ELSE variants[v]

\* Deactivation of the variants left out, the images, the audit record and the
\* commit.  Nothing after the loop waits for another call.
Finish(c) ==
    /\ pc[c] = "variants"
    /\ next[c] > Len(Asked(c).items)
    /\ \/ Asked(c).content \in UnknownMedia /\ RollBack(c, "INVALID_REFERENCE")
       \/ /\ Asked(c).content \notin UnknownMedia
          /\ products' = [products EXCEPT ![req[c].key] = newProduct[c]]
          /\ variants' = [v \in Variants |-> Committed(c, v)]
          /\ audit' = [audit EXCEPT ![req[c].key] =
                Append(@, [request |-> c, old |-> previous[c],
                           new |-> newProduct[c].revision])]
          /\ Goto(c, "done")
          /\ Tell(c, "OK")
          /\ newProduct' = [newProduct EXCEPT ![c] = Absent]
          /\ newVariants' = [newVariants EXCEPT ![c] = NoVariants]
          /\ UNCHANGED <<req, previous, next>>

Step(c) ==
    \/ Lock(c)
    \/ Check(c)
    \/ WriteProduct(c)
    \/ WriteVariant(c)
    \/ Finish(c)
----------------------------------------------------------------------------
(* What happens to a call.                                                 *)

WaitsFor(c, d) ==
    /\ c # d
    /\ \/ pc[c] = "lock" /\ Holds(d, req[c].key)
       \/ /\ pc[c] = "product" /\ ~Overflows(c)
          /\ WritesSlug(d, Asked(c).slug)
       \/ /\ pc[c] = "variants" /\ next[c] <= Len(Asked(c).items)
          /\ ~Stranger(c)
          /\ WritesSku(d, ThisItem(c).sku)

Deadlocked(c) ==
    \E circle \in SUBSET Calls :
        /\ c \in circle
        /\ \A d \in circle : /\ \E e \in circle : WaitsFor(d, e)
                             /\ \E e \in circle : WaitsFor(e, d)

\* PostgreSQL ends a deadlock by failing one of the calls in it; the function
\* has no handler for that error.
BreakDeadlock(c) == Deadlocked(c) /\ RollBack(c, "DATABASE_UNAVAILABLE")

\* The database, or the connection the transaction runs on, goes away.
Crash(c) == Running(c) /\ RollBack(c, "DATABASE_UNAVAILABLE")

\* The API stops waiting after two seconds, or loses the answer; the
\* transaction goes on.
TimeOut(c) ==
    /\ Running(c)
    /\ reply[c] = "waiting"
    /\ Tell(c, "DATABASE_UNAVAILABLE")
    /\ UNCHANGED <<tables, pc, req, previous, writes>>

Next ==
    \E c \in Calls :
        \/ Begin(c)
        \/ Reject(c)
        \/ Step(c)
        \/ BreakDeadlock(c)
        \/ Crash(c)
        \/ TimeOut(c)

Spec == Init /\ [][Next]_vars

\* A call whose statement can run is run, and deadlocks are found.  Nothing is
\* said of callers, timeouts and crashes.
Fairness == \A c \in Calls : WF_vars(Step(c)) /\ WF_vars(BreakDeadlock(c))
FairSpec == Spec /\ Fairness
----------------------------------------------------------------------------
(* Properties.                                                             *)

TypeOK ==
    /\ products \in ProductTable
    /\ variants \in VariantTable
    /\ audit \in AuditTable
    /\ pc \in [Calls -> {"idle", "lock", "check", "product", "variants", "done"}]
    /\ req \in [Calls -> Requests \cup {Absent}]
    /\ reply \in [Calls -> Replies]
    /\ previous \in [Calls -> 0..MaxRevision]
    /\ newProduct \in [Calls -> ProductRow \cup {Absent}]
    /\ newVariants \in [Calls -> VariantTable]
    /\ next \in [Calls -> 1..MaxItems + 1]

\* Whatever calls run at once and whichever of them fail, no two products have
\* one slug and no two variants one SKU: the keys a call gives up while it runs
\* are not given away, and the keys it takes are not given twice.
KeysUnique == UniqueSlugs(products) /\ UniqueSkus(variants)

\* A published product has an active variant ("An active product needs an
\* active variant", CatalogService.cpp:68), after any sequence of saves.
Published == PublishedPurchasable(products, variants)

\* "It records an audit event together with the change" (catalog.md:25): the
\* audit log of a product names each of its revisions once, in order, so two
\* saves never start from the same revision unseen by each other.
AuditTrail == AuditComplete(products, audit)

Recorded(c) == {e \in UNION {{<<p, i>> : i \in 1..Len(audit[p])} : p \in Products} :
                    audit[e[1]][e[2]].request = c}

\* A call that was told OK is in the audit log exactly once, under its own
\* product and the revision it replaced; one that was refused is not in it; one
\* that was told 503 is in it at most once.
AnswersTrue ==
    \A c \in Calls :
        /\ \A e, f \in Recorded(c) : e = f
        /\ reply[c] = "OK" <=> (Recorded(c) # {} /\ reply[c] # "DATABASE_UNAVAILABLE")
        /\ \A e \in Recorded(c) : /\ e[1] = req[c].key
                                 /\ audit[e[1]][e[2]].old = req[c].expected

\* "Preserves existing variant identity" (catalog.md:24): a variant never
\* disappears or moves to another product, and it changes only together with a
\* new revision of the product it belongs to.
VariantsFollowRevisions ==
    [][\A v \in Variants : variants'[v] # variants[v] =>
          /\ variants'[v] # Absent
          /\ variants[v] # Absent => variants'[v].product = variants[v].product
          /\ products'[variants'[v].product] # products[variants'[v].product]]_vars

\* The calls implement the atomic store.
Store == INSTANCE CatalogStore WITH open <- [c \in Calls |-> Running(c)]
StoreSpec == Store!Spec

\* A call that has begun ends, whatever locks others hold: no set of saves waits
\* for itself forever.
EverySaveEnds == \A c \in Calls : Running(c) ~> ~Running(c)
============================================================================
