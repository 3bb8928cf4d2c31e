------------------------- MODULE CatalogSave_proofs -------------------------
(***************************************************************************)
(* Proofs about CatalogSave, for every number of calls, products, variants *)
(* and drafts.  IInv is the inductive invariant; its parts say what each   *)
(* statement of catalog_save may rely on while others run.                 *)
(***************************************************************************)
EXTENDS CatalogSave, TLAPS

Labels == {"idle", "lock", "check", "product", "variants", "done"}

\* A call that runs was asked for something; before that it is blank.
Asking_ ==
    \A c \in Calls :
        /\ Running(c) => req[c] # Absent
        /\ pc[c] = "idle" => req[c] = Absent /\ reply[c] = "none"
        /\ pc[c] \in {"idle", "lock", "check", "product"} => next[c] = 1
        /\ pc[c] \in {"idle", "lock", "check"} => previous[c] = 0
        /\ pc[c] \in {"lock", "check"} => ~Creates(req[c])

\* Uncommitted rows exist exactly inside the loop over the variants.
Writing ==
    \A c \in Calls :
        /\ pc[c] = "variants" => newProduct[c] # Absent
        /\ pc[c] # "variants" =>
              newProduct[c] = Absent /\ newVariants[c] = NoVariants

\* No two calls have drawn one new identity.
DrawsDistinct ==
    \A c, d \in Calls : (c # d /\ req[c] # Absent /\ req[d] # Absent) =>
        /\ (Creates(req[c]) /\ Creates(req[d])) => req[c].key # req[d].key
        /\ \A i \in Positions(req[c]), j \in Positions(req[d]) :
              (~Names(req[c], i) /\ ~Names(req[d], j))
                  => req[c].keys[i] # req[d].keys[j]

\* No row has an identity that a running call has drawn for a new product ...
ProductsFresh ==
    \A c \in Calls :
        (Running(c) /\ Creates(req[c])) => products[req[c].key] = Absent

\* ... or for a new variant, and no other call is writing one.
VariantsFresh ==
    \A c \in Calls : Running(c) =>
        \A i \in Positions(req[c]) : ~Names(req[c], i) =>
            /\ variants[req[c].keys[i]] = Absent
            /\ \A d \in Calls \ {c} : newVariants[d][req[c].keys[i]] = Absent

\* The row lock: at most one call is past it, and the row it read is still the
\* committed one.
RowLocked ==
    \A c \in Calls :
        /\ pc[c] \in {"check", "product", "variants"} =>
              /\ ~Creates(req[c]) => products[req[c].key] # Absent
              /\ \A d \in Calls : Holds(d, req[c].key) => c = d
        /\ pc[c] \in {"product", "variants"} =>
              previous[c] = IF Creates(req[c]) THEN 0
                            ELSE products[req[c].key].revision

RowWritten ==
    \A c \in Calls : pc[c] = "variants" =>
        /\ previous[c] < MaxRevision
        /\ newProduct[c] = [slug |-> req[c].draft.slug,
                            status |-> req[c].draft.status,
                            content |-> req[c].draft.content,
                            revision |-> previous[c] + 1]

\* A slug being written is in no other row, committed or not.
SlugsReserved ==
    \A c \in Calls : newProduct[c] # Absent =>
        /\ \A p \in Products :
              (products[p] # Absent /\ products[p].slug = newProduct[c].slug)
                  => p = req[c].key
        /\ \A d \in Calls :
              (newProduct[d] # Absent /\ newProduct[d].slug = newProduct[c].slug)
                  => c = d

\* A variant being written belongs to the product of the call ...
VariantsWritten ==
    \A c \in Calls : \A v \in Variants : newVariants[c][v] # Absent =>
        /\ \E i \in Positions(req[c]) : v = req[c].keys[i]
        /\ newVariants[c][v].product = req[c].key
        /\ variants[v] # Absent => variants[v].product = req[c].key
        /\ \A d \in Calls : newVariants[d][v] # Absent => c = d

\* ... and its SKU is in no other row, but for rows the call itself has given
\* another SKU.
SkusReserved ==
    \A c \in Calls : \A v \in Variants : newVariants[c][v] # Absent =>
        /\ \A w \in Variants \ {v} :
              (variants[w] # Absent /\ variants[w].sku = newVariants[c][v].sku)
                  => newVariants[c][w] # Absent
        /\ \A d \in Calls : \A w \in Variants :
              (newVariants[d][w] # Absent /\ newVariants[d][w].sku = newVariants[c][v].sku)
                  => c = d /\ v = w

IInv ==
    /\ TypeOK
    /\ Asking_
    /\ Writing
    /\ DrawsDistinct
    /\ ProductsFresh
    /\ VariantsFresh
    /\ RowLocked
    /\ RowWritten
    /\ SlugsReserved
    /\ VariantsWritten
    /\ SkusReserved
    /\ KeysUnique
    /\ AuditTrail
----------------------------------------------------------------------------
(* The steps of a call, apart from those that roll it back, which are all  *)
(* alike.                                                                  *)

Failures == Refusals \cup {"DATABASE_UNAVAILABLE"}

Ended(c) == Running(c) /\ \E what \in Failures : RollBack(c, what)

Acquire(c) ==
    /\ pc[c] = "lock"
    /\ products[req[c].key] # Absent
    /\ ~RowBusy(c)
    /\ Goto(c, "check")
    /\ UNCHANGED <<tables, req, reply, previous, writes>>

Pass(c) ==
    /\ pc[c] = "check"
    /\ ~Stale(c)
    /\ previous' = [previous EXCEPT ![c] = products[req[c].key].revision]
    /\ Goto(c, "product")
    /\ UNCHANGED <<tables, req, reply, writes>>

PutProduct(c) ==
    /\ pc[c] = "product"
    /\ ~Overflows(c)
    /\ ~SlugBusy(c)
    /\ ~SlugTaken(c)
    /\ Asked(c).content \notin UnknownCategories
    /\ newProduct' = [newProduct EXCEPT ![c] =
          [slug |-> Asked(c).slug, status |-> Asked(c).status,
           content |-> Asked(c).content, revision |-> previous[c] + 1]]
    /\ Goto(c, "variants")
    /\ UNCHANGED <<tables, req, reply, previous, newVariants, next>>

PutVariant(c) ==
    /\ pc[c] = "variants"
    /\ next[c] <= Len(Asked(c).items)
    /\ ~Stranger(c)
    /\ ~SkuBusy(c)
    /\ ~SkuTaken(c)
    /\ newVariants' = [newVariants EXCEPT ![c][ThisKey(c)] = Upsert(c)]
    /\ next' = [next EXCEPT ![c] = @ + 1]
    /\ UNCHANGED <<tables, pc, req, reply, previous, newProduct>>

Commit(c) ==
    /\ pc[c] = "variants"
    /\ next[c] > Len(Asked(c).items)
    /\ Asked(c).content \notin UnknownMedia
    /\ products' = [products EXCEPT ![req[c].key] = newProduct[c]]
    /\ variants' = [v \in Variants |-> Committed(c, v)]
    /\ audit' = [audit EXCEPT ![req[c].key] =
          Append(@, [request |-> c, old |-> previous[c],
                     new |-> newProduct[c].revision])]
    /\ Goto(c, "done")
    /\ Tell(c, "OK")
    /\ newProduct' = [newProduct EXCEPT ![c] = Absent]
    /\ newVariants' = [newVariants EXCEPT ![c] = NoVariants]
    /\ UNCHANGED <<req, previous, next>>

Action(c) ==
    \/ Begin(c)
    \/ Reject(c)
    \/ Ended(c)
    \/ Acquire(c)
    \/ Pass(c)
    \/ PutProduct(c)
    \/ PutVariant(c)
    \/ Commit(c)
    \/ TimeOut(c)

\* Every step of the specification is one of these.
LEMMA Steps == Next => \E c \in Calls : Action(c)
<1> SUFFICES ASSUME NEW c \in Calls,
                    \/ Begin(c) \/ Reject(c) \/ Step(c)
                    \/ BreakDeadlock(c) \/ Crash(c) \/ TimeOut(c)
             PROVE  Action(c)
  BY DEF Next
<1> DEFINE Why == {"NOT_FOUND", "REVISION_CONFLICT", "DUPLICATE_SLUG_OR_SKU",
                   "INVALID_REFERENCE", "DATABASE_UNAVAILABLE"}
<1>1. Why \subseteq Failures
  BY DEF Failures, Refusals
<1>2. ASSUME NEW what \in Why, Running(c), RollBack(c, what)
      PROVE  Ended(c)
  BY <1>1, <1>2 DEF Ended
<1> HIDE DEF Why
<1>w. /\ "NOT_FOUND" \in Why /\ "REVISION_CONFLICT" \in Why
      /\ "DUPLICATE_SLUG_OR_SKU" \in Why /\ "INVALID_REFERENCE" \in Why
      /\ "DATABASE_UNAVAILABLE" \in Why
  BY DEF Why
<1>3. CASE Lock(c)
  BY <1>2, <1>3, <1>w DEF Lock, Acquire, Action, Running
<1>4. CASE Check(c)
  BY <1>2, <1>4, <1>w DEF Check, Pass, Action, Running
<1>5. CASE WriteProduct(c)
  BY <1>2, <1>5, <1>w DEF WriteProduct, PutProduct, Action, Running
<1>6. CASE WriteVariant(c)
  BY <1>2, <1>6, <1>w DEF WriteVariant, PutVariant, Action, Running
<1>7. CASE Finish(c)
  BY <1>2, <1>7, <1>w DEF Finish, Commit, Action, Running
<1>8. CASE BreakDeadlock(c) /\ Running(c)
  BY <1>2, <1>8, <1>w DEF BreakDeadlock, Action
<1>9. CASE Crash(c)
  BY <1>2, <1>9, <1>w DEF Crash, Action
<1>10. BreakDeadlock(c) => Running(c)
  BY DEF BreakDeadlock, Deadlocked, WaitsFor, Running
<1> QED
  BY <1>3, <1>4, <1>5, <1>6, <1>7, <1>8, <1>9, <1>10 DEF Step, Action

----------------------------------------------------------------------------
(* Types.                                                                  *)

\* What being a request says of its parts.
LEMMA RequestParts ==
    ASSUME NEW r \in Requests
    PROVE  /\ r.key \in Products
           /\ r.expected \in 0..MaxRevision
           /\ r.draft \in Draft
           /\ ValidDraft(r.draft)
           /\ Len(r.draft.items) \in 1..MaxItems
           /\ \A i \in Positions(r) : r.keys[i] \in Variants /\ r.draft.items[i] \in Item
           /\ Creates(r) => r.expected = 0
           /\ ~Creates(r) => r.expected >= 1 /\ r.key = r.target
           /\ \A i, j \in Positions(r) :
                 (~Names(r, i) /\ i # j) => r.keys[i] # r.keys[j]
<1>1. r \in Ask /\ ValidDraft(r.draft) /\ DOMAIN r.keys = Positions(r)
  BY DEF Requests
<1>2. PICK n \in 1..MaxItems : r.keys \in [1..n -> Variants]
  BY <1>1 DEF Ask
<1>3. r.draft \in Draft
  BY <1>1, CatalogAssumption DEF Ask
<1>4. Len(r.draft.items) \in 1..MaxItems
  BY <1>1 DEF ValidDraft
<1>5. \A i \in Positions(r) : r.keys[i] \in Variants /\ r.draft.items[i] \in Item
  BY <1>1, <1>2, <1>3 DEF Draft, Positions
<1> QED
  BY <1>1, <1>3, <1>4, <1>5 DEF Requests, Ask, Names

\* A running call was asked a well formed request.
LEMMA Asked_ ==
    ASSUME IInv, NEW c \in Calls, Running(c)
    PROVE  req[c] \in Requests
BY AbsentAssumption DEF IInv, TypeOK, Asking_

\* What a call may read of the item it is at.
LEMMA ItemParts ==
    ASSUME IInv, NEW c \in Calls, pc[c] = "variants", next[c] <= Len(Asked(c).items)
    PROVE  /\ next[c] \in Positions(req[c])
           /\ ThisKey(c) \in Variants
           /\ ThisItem(c) \in Item
<1>1. req[c] \in Requests
  BY Asked_ DEF Running
<1>2. next[c] \in Nat /\ next[c] >= 1 /\ Len(req[c].draft.items) \in Nat
  BY <1>1, RequestParts, CatalogAssumption DEF IInv, TypeOK
<1>3. next[c] \in Positions(req[c])
  BY <1>2 DEF Positions, Asked
<1> QED
  BY <1>1, <1>3, RequestParts DEF ThisKey, ThisItem, Asked

\* A row written from a request is a row.
LEMMA RowType ==
    ASSUME IInv, NEW c \in Calls, pc[c] = "product", ~Overflows(c)
    PROVE  [slug |-> Asked(c).slug, status |-> Asked(c).status,
            content |-> Asked(c).content, revision |-> previous[c] + 1] \in ProductRow
<1>1. req[c].draft \in Draft
  BY Asked_, RequestParts DEF Running
<1>2. previous[c] + 1 \in 1..MaxRevision
  BY CatalogAssumption DEF IInv, TypeOK, Overflows
<1> QED
  BY <1>1, <1>2 DEF ProductRow, Draft, Asked

\* What an upsert leaves is a variant.
LEMMA UpsertType ==
    ASSUME IInv, NEW c \in Calls, pc[c] = "variants", next[c] <= Len(Asked(c).items)
    PROVE  Upsert(c) \in VariantRow
<1>1. req[c].key \in Products
  BY Asked_, RequestParts DEF Running
<1>2. Seen(c, ThisKey(c)) \in VariantRow \cup {Absent}
  BY ItemParts DEF Seen, IInv, TypeOK, VariantTable
<1>3. Seen(c, ThisKey(c)) # Absent => Seen(c, ThisKey(c)).product \in Products
  BY <1>2 DEF VariantRow
<1>4. ThisItem(c).sku \in Skus /\ ThisItem(c).active \in BOOLEAN
  BY ItemParts DEF Item
<1> QED
  BY <1>1, <1>3, <1>4 DEF Upsert, VariantRow

\* What a call commits of a variant is a row or nothing.
LEMMA CommittedType ==
    ASSUME IInv, NEW c \in Calls, NEW v \in Variants
    PROVE  Committed(c, v) \in VariantRow \cup {Absent}
<1>1. newVariants[c][v] \in VariantRow \cup {Absent}
  BY DEF IInv, TypeOK, VariantTable
<1>2. variants[v] \in VariantRow \cup {Absent}
  BY DEF IInv, TypeOK, VariantTable
<1>3. variants[v] \in VariantRow => [variants[v] EXCEPT !.active = FALSE] \in VariantRow
  BY DEF VariantRow
<1> QED
  BY <1>1, <1>2, <1>3 DEF Committed

\* Every step keeps TypeOK.
LEMMA TypeStep ==
    ASSUME IInv, NEW c \in Calls, Action(c)
    PROVE  TypeOK'
<1> USE DEF IInv, TypeOK, Goto, Tell, tables, writes
<1>0. NoVariants \in VariantTable
  BY DEF NoVariants, VariantTable
<1>w. {"waiting", "OK", "VALIDATION_FAILED", "DATABASE_UNAVAILABLE"} \subseteq Replies
  BY DEF Replies, Refusals
<1>1. CASE Begin(c)
  BY <1>1, <1>w DEF Begin
<1>2. CASE Reject(c)
  BY <1>2, <1>w DEF Reject
<1>3. CASE Ended(c)
  BY <1>3, <1>0 DEF Ended, RollBack, Failures, Replies
<1>4. CASE Acquire(c)
  BY <1>4 DEF Acquire
<1>5. CASE Pass(c)
  <2>1. products[req[c].key] \in ProductRow
    <3>1. req[c].key \in Products
      BY <1>5, Asked_, RequestParts DEF Pass, Running
    <3>2. products[req[c].key] # Absent
      BY <1>5 DEF Pass, RowLocked, Asking_
    <3> QED
      BY <3>1, <3>2 DEF ProductTable
  <2>2. products[req[c].key].revision \in 0..MaxRevision
    BY <2>1, CatalogAssumption DEF ProductRow
  <2> QED
    BY <1>5, <2>2 DEF Pass
<1>6. CASE PutProduct(c)
  BY <1>6, RowType DEF PutProduct
<1>7. CASE PutVariant(c)
  <2>1. Upsert(c) \in VariantRow /\ ThisKey(c) \in Variants
    BY <1>7, UpsertType, ItemParts DEF PutVariant
  <2>2. next[c] + 1 \in 1..MaxItems + 1
    <3>1. Len(req[c].draft.items) \in 1..MaxItems
      BY <1>7, Asked_, RequestParts DEF PutVariant, Running
    <3> QED
      BY <1>7, <3>1, CatalogAssumption DEF PutVariant, Asked
  <2>3. newVariants' \in [Calls -> VariantTable]
    BY <1>7, <2>1 DEF PutVariant, VariantTable
  <2> QED
    BY <1>7, <2>2, <2>3 DEF PutVariant
<1>8. CASE Commit(c)
  <2>1. newProduct[c] \in ProductRow /\ req[c].key \in Products
    BY <1>8, Asked_, RequestParts DEF Commit, Writing, Running
  <2>2. products' \in ProductTable
    BY <1>8, <2>1 DEF Commit, ProductTable
  <2>3. variants' \in VariantTable
    BY <1>8, CommittedType DEF Commit, VariantTable
  <2>4. audit' \in AuditTable
    <3>1. [request |-> c, old |-> previous[c], new |-> newProduct[c].revision]
             \in AuditEntry
      BY <2>1 DEF AuditEntry, ProductRow
    <3>2. audit[req[c].key] \in Seq(AuditEntry)
      BY <2>1 DEF AuditTable
    <3>3. Append(audit[req[c].key],
                 [request |-> c, old |-> previous[c], new |-> newProduct[c].revision])
             \in Seq(AuditEntry)
      BY <3>1, <3>2
    <3> QED
      BY <1>8, <3>3 DEF Commit, AuditTable
  <2> QED
    BY <1>8, <1>0, <1>w, <2>2, <2>3, <2>4 DEF Commit
<1>9. CASE TimeOut(c)
  BY <1>9, <1>w DEF TimeOut
<1> QED
  BY <1>1, <1>2, <1>3, <1>4, <1>5, <1>6, <1>7, <1>8, <1>9 DEF Action

\* Every step keeps Asking.
LEMMA AskingStep ==
    ASSUME IInv, NEW c \in Calls, Action(c)
    PROVE  Asking_'
<1> USE DEF IInv, TypeOK, Asking_, Goto, Tell, tables, writes, Running
<1>1. CASE Begin(c)
  BY <1>1, AbsentAssumption DEF Begin
<1>2. CASE Reject(c)
  BY <1>2 DEF Reject
<1>3. CASE Ended(c)
  BY <1>3 DEF Ended, RollBack
<1>4. CASE Acquire(c)
  BY <1>4 DEF Acquire
<1>5. CASE Pass(c)
  BY <1>5 DEF Pass
<1>6. CASE PutProduct(c)
  BY <1>6 DEF PutProduct
<1>7. CASE PutVariant(c)
  BY <1>7 DEF PutVariant
<1>8. CASE Commit(c)
  BY <1>8 DEF Commit
<1>9. CASE TimeOut(c)
  BY <1>9 DEF TimeOut
<1> QED
  BY <1>1, <1>2, <1>3, <1>4, <1>5, <1>6, <1>7, <1>8, <1>9 DEF Action

\* Every step keeps Writing.
LEMMA WritingStep ==
    ASSUME IInv, NEW c \in Calls, Action(c)
    PROVE  Writing'
<1> USE DEF IInv, TypeOK, Writing, Goto, Tell, tables, writes, Running, NoVariants
<1>1. CASE Begin(c)
  BY <1>1 DEF Begin
<1>2. CASE Reject(c)
  BY <1>2 DEF Reject
<1>3. CASE Ended(c)
  BY <1>3 DEF Ended, RollBack
<1>4. CASE Acquire(c)
  BY <1>4 DEF Acquire
<1>5. CASE Pass(c)
  BY <1>5 DEF Pass
<1>6. CASE PutProduct(c)
  BY <1>6, RowType, AbsentAssumption DEF PutProduct
<1>7. CASE PutVariant(c)
  BY <1>7 DEF PutVariant
<1>8. CASE Commit(c)
  BY <1>8 DEF Commit
<1>9. CASE TimeOut(c)
  BY <1>9 DEF TimeOut
<1> QED
  BY <1>1, <1>2, <1>3, <1>4, <1>5, <1>6, <1>7, <1>8, <1>9 DEF Action

----------------------------------------------------------------------------
(* Identities and the row lock.                                            *)

\* Two calls that are past the row lock of one product are one call.
LEMMA LockExclusive ==
    ASSUME IInv, NEW c \in Calls, NEW d \in Calls,
           pc[c] \in {"check", "product", "variants"},
           pc[d] \in {"check", "product", "variants"},
           req[c].key = req[d].key
    PROVE  c = d
BY DEF IInv, RowLocked, Holds

\* A request is new to all tables and calls when it is made.
LEMMA BeginFresh ==
    ASSUME IInv, NEW c \in Calls, Begin(c)
    PROVE  /\ pc[c] = "idle" /\ req[c] = Absent
           /\ req'[c] \in Requests /\ req'[c] # Absent
           /\ req' = [req EXCEPT ![c] = req'[c]]
           /\ pc' = [pc EXCEPT ![c] = IF Creates(req'[c]) THEN "product" ELSE "lock"]
           /\ Fresh(req'[c], products, variants, req)
           /\ UNCHANGED <<tables, previous, writes>>
BY AbsentAssumption DEF Begin, IInv, TypeOK, Asking_, Goto

\* Keys another call has drawn are not fresh.
LEMMA Drawn ==
    ASSUME IInv, NEW c \in Calls, req[c] # Absent
    PROVE  /\ req[c].key \in DrawnProducts(req)
           /\ \A i \in Positions(req[c]) : req[c].keys[i] \in DrawnVariants(req)
BY DEF DrawnProducts, DrawnVariants, Asking

\* Every step keeps DrawsDistinct.
LEMMA DrawsDistinctStep ==
    ASSUME IInv, NEW c \in Calls, Action(c)
    PROVE  DrawsDistinct'
<1>1. CASE Begin(c)
  <2> DEFINE r == req'[c]
  <2>1. /\ Fresh(r, products, variants, req)
        /\ \A d \in Calls \ {c} : req'[d] = req[d]
    BY <1>1, BeginFresh DEF IInv, TypeOK
  <2>2. ASSUME NEW d \in Calls \ {c}, req[d] # Absent
        PROVE  /\ (Creates(r) /\ Creates(req[d])) => r.key # req[d].key
               /\ \A i \in Positions(r), j \in Positions(req[d]) :
                    (~Names(r, i) /\ ~Names(req[d], j)) => r.keys[i] # req[d].keys[j]
    BY <2>1, <2>2, Drawn DEF Fresh
  <2> HIDE DEF r
  <2>3. ASSUME NEW a \in Calls, NEW b \in Calls, a # b,
               req'[a] # Absent, req'[b] # Absent
        PROVE  /\ (Creates(req'[a]) /\ Creates(req'[b])) => req'[a].key # req'[b].key
               /\ \A i \in Positions(req'[a]), j \in Positions(req'[b]) :
                    (~Names(req'[a], i) /\ ~Names(req'[b], j))
                       => req'[a].keys[i] # req'[b].keys[j]
    <3>1. CASE a = c
      BY <2>1, <2>2, <2>3, <3>1 DEF r
    <3>2. CASE b = c
      BY <2>1, <2>2, <2>3, <3>2 DEF r
    <3>3. CASE a # c /\ b # c
      BY <2>1, <2>3, <3>3 DEF IInv, DrawsDistinct
    <3> QED
      BY <3>1, <3>2, <3>3
  <2> QED
    BY <2>3 DEF DrawsDistinct
<1>2. CASE ~Begin(c)
  <2>1. req' = req
    BY <1>2 DEF Action, Reject, Ended, RollBack, Acquire, Pass, PutProduct,
                PutVariant, Commit, TimeOut
  <2> QED
    BY <2>1 DEF IInv, DrawsDistinct
<1> QED
  BY <1>1, <1>2

\* Only a commit changes the tables; it changes the rows of its own product.
LEMMA TablesStep ==
    ASSUME IInv, NEW c \in Calls, Action(c), ~Commit(c)
    PROVE  UNCHANGED tables
BY DEF Action, Begin, Reject, Ended, RollBack, Acquire, Pass, PutProduct,
       PutVariant, TimeOut, tables

\* Only Begin changes what a call was asked, and a step moves one call.
LEMMA ReqStep ==
    ASSUME IInv, NEW c \in Calls, Action(c), ~Begin(c)
    PROVE  /\ UNCHANGED req
           /\ \A d \in Calls \ {c} : pc'[d] = pc[d]
           /\ pc'[c] \notin {"idle", "done"} => pc[c] \notin {"idle", "done"}
BY DEF Action, Begin, Reject, Ended, RollBack, Acquire, Pass, PutProduct,
       PutVariant, TimeOut, Commit, Goto, IInv, TypeOK, Running

\* Every step keeps ProductsFresh.
LEMMA ProductsFreshStep ==
    ASSUME IInv, NEW c \in Calls, Action(c)
    PROVE  ProductsFresh'
<1>1. CASE Begin(c)
  BY <1>1, BeginFresh DEF IInv, TypeOK, ProductsFresh, Fresh, Running, tables
<1>2. CASE Commit(c)
  <2>1. SUFFICES ASSUME NEW d \in Calls, Running(d)', Creates(req[d])
                 PROVE  products'[req[d].key] = Absent
    BY <1>2 DEF Commit, ProductsFresh
  <2>2. d # c /\ Running(d)
    BY <1>2, <2>1 DEF Commit, Goto, Running, IInv, TypeOK
  <2>3. req[d].key # req[c].key
    <3>1. CASE Creates(req[c])
      BY <1>2, <2>1, <2>2, <3>1, Asked_, AbsentAssumption DEF IInv, DrawsDistinct, Running, Commit
    <3>2. CASE ~Creates(req[c])
      BY <1>2, <2>1, <2>2, <3>2 DEF IInv, RowLocked, ProductsFresh, Commit
    <3> QED
      BY <3>1, <3>2
  <2>4. req[d].key \in Products
    BY <2>2, Asked_, RequestParts
  <2> QED
    BY <1>2, <2>1, <2>2, <2>3, <2>4 DEF IInv, ProductsFresh, Commit, TypeOK, ProductTable
<1>3. CASE ~Begin(c) /\ ~Commit(c)
  BY <1>3, TablesStep, ReqStep DEF IInv, ProductsFresh, tables, Running
<1> QED
  BY <1>1, <1>2, <1>3

\* What a commit does to a row of product_variants.
LEMMA CommitVariants ==
    ASSUME IInv, NEW c \in Calls, Commit(c), NEW v \in Variants
    PROVE  /\ variants'[v] = Committed(c, v)
           /\ newVariants[c][v] # Absent => variants'[v] = newVariants[c][v]
           /\ (newVariants[c][v] = Absent /\ variants[v] = Absent) => variants'[v] = Absent
           /\ (newVariants[c][v] = Absent /\ variants[v] # Absent) =>
                 /\ variants'[v] # Absent
                 /\ variants'[v].product = variants[v].product
                 /\ variants'[v].sku = variants[v].sku
<1>1. variants[v] \in VariantRow \cup {Absent}
  BY DEF IInv, TypeOK, VariantTable
<1>2. variants[v] \in VariantRow =>
        /\ [variants[v] EXCEPT !.active = FALSE] \in VariantRow
        /\ [variants[v] EXCEPT !.active = FALSE].product = variants[v].product
        /\ [variants[v] EXCEPT !.active = FALSE].sku = variants[v].sku
  BY DEF VariantRow
<1> QED
  BY <1>1, <1>2, AbsentAssumption DEF Commit, Committed

\* What a call may assume of the variant it writes: an item that names one
\* names one of its own product, any other item has a new identity.
LEMMA KeyOwned ==
    ASSUME IInv, NEW c \in Calls, PutVariant(c)
    PROVE  /\ ThisKey(c) \in Variants
           /\ next[c] \in Positions(req[c]) /\ ThisKey(c) = req[c].keys[next[c]]
           /\ ~Names(req[c], next[c]) => variants[ThisKey(c)] = Absent
           /\ Names(req[c], next[c]) => Seen(c, ThisKey(c)) # Absent
           /\ variants[ThisKey(c)] # Absent => variants[ThisKey(c)].product = req[c].key
           /\ Upsert(c).product = req[c].key
           /\ Upsert(c).sku = ThisItem(c).sku
           /\ Upsert(c) # Absent
<1> USE DEF PutVariant
<1>1. ThisKey(c) \in Variants /\ next[c] \in Positions(req[c])
  BY ItemParts
<1>2. ThisKey(c) = req[c].keys[next[c]]
  BY DEF ThisKey
<1>3. ~Names(req[c], next[c]) => variants[ThisKey(c)] = Absent
  BY <1>1, <1>2 DEF IInv, VariantsFresh, Running
<1>4. Names(req[c], next[c]) => /\ Seen(c, ThisKey(c)) # Absent
                                /\ Seen(c, ThisKey(c)).product = req[c].key
  BY DEF Stranger, Names, ThisItem, Asked
<1>5. newVariants[c][ThisKey(c)] # Absent =>
        /\ newVariants[c][ThisKey(c)].product = req[c].key
        /\ variants[ThisKey(c)] # Absent => variants[ThisKey(c)].product = req[c].key
  BY <1>1 DEF IInv, VariantsWritten
<1>6. variants[ThisKey(c)] # Absent => variants[ThisKey(c)].product = req[c].key
  BY <1>3, <1>4, <1>5 DEF Seen
<1>7. Seen(c, ThisKey(c)) # Absent => Seen(c, ThisKey(c)).product = req[c].key
  BY <1>5, <1>6 DEF Seen
<1>8. Upsert(c).product = req[c].key /\ Upsert(c).sku = ThisItem(c).sku
  BY <1>7 DEF Upsert
<1>9. Upsert(c) # Absent
  BY UpsertType, AbsentAssumption
<1> QED
  BY <1>1, <1>2, <1>3, <1>4, <1>6, <1>8, <1>9

\* What a call writes into a row of its own.
LEMMA PutVariantRows ==
    ASSUME IInv, NEW c \in Calls, PutVariant(c), NEW d \in Calls, NEW v \in Variants
    PROVE  newVariants'[d][v] = IF d = c /\ v = ThisKey(c) THEN Upsert(c)
                                                           ELSE newVariants[d][v]
BY KeyOwned DEF PutVariant, IInv, TypeOK, VariantTable

\* Other steps write no variants: they leave the new rows of each call as they
\* are or forget them.
LEMMA OtherRows ==
    ASSUME IInv, NEW c \in Calls, Action(c), ~PutVariant(c),
           NEW d \in Calls, NEW v \in Variants
    PROVE  /\ d # c => newVariants'[d][v] = newVariants[d][v]
           /\ newVariants'[d][v] # Absent => newVariants'[d][v] = newVariants[d][v]
BY DEF Action, Begin, Reject, Ended, RollBack, Acquire, Pass, PutProduct,
       TimeOut, Commit, NoVariants, IInv, TypeOK, VariantTable, writes

\* Every step keeps VariantsFresh.
LEMMA VariantsFreshStep ==
    ASSUME IInv, NEW c \in Calls, Action(c)
    PROVE  VariantsFresh'
<1> SUFFICES ASSUME NEW e \in Calls, Running(e)',
                    NEW i \in Positions(req'[e]), ~Names(req'[e], i)
             PROVE  /\ variants'[req'[e].keys[i]] = Absent
                    /\ \A d \in Calls \ {e} : newVariants'[d][req'[e].keys[i]] = Absent
  BY DEF VariantsFresh
<1>1. CASE Begin(c) /\ e = c
  <2> DEFINE k == req'[c].keys[i]
  <2>1. variants'[k] = Absent /\ k \notin DrawnVariants(req) /\ k \in Variants
    BY <1>1, BeginFresh, RequestParts DEF Fresh, tables
  <2>2. ASSUME NEW d \in Calls \ {c}, newVariants'[d][k] # Absent
        PROVE  FALSE
    <3>1. newVariants[d][k] # Absent
      BY <1>1, <2>2, BeginFresh DEF writes
    <3>2. req[d] # Absent
      BY <2>1, <3>1 DEF IInv, Writing, Asking_, NoVariants, Running
    <3> QED
      BY <2>1, <3>1, <3>2, Drawn DEF IInv, VariantsWritten
  <2> QED
    BY <1>1, <2>1, <2>2
<1>2. CASE ~(Begin(c) /\ e = c)
  <2>1. Running(e) /\ req'[e] = req[e]
    BY <1>2, BeginFresh, ReqStep DEF Running, IInv, TypeOK
  <2> DEFINE k == req[e].keys[i]
  <2>2. /\ k \in Variants /\ variants[k] = Absent
        /\ \A d \in Calls \ {e} : newVariants[d][k] = Absent
    BY <2>1, Asked_, RequestParts DEF IInv, VariantsFresh
  <2>3. variants'[k] = Absent
    <3>1. CASE Commit(c)
      <4>1. e # c
        BY <3>1 DEF Commit, Goto, Running, IInv, TypeOK
      <4> QED
        BY <3>1, <4>1, <2>2, CommitVariants
    <3>2. CASE ~Commit(c)
      BY <3>2, <2>2, TablesStep DEF tables
    <3> QED
      BY <3>1, <3>2
  <2>4. ASSUME NEW d \in Calls \ {e}
        PROVE  newVariants'[d][k] = Absent
    <3>1. CASE PutVariant(c) /\ d = c /\ k = ThisKey(c)
      <4>1. ~Names(req[c], next[c])
        BY <3>1, <2>2, <2>4, KeyOwned DEF Seen
      <4>2. req[c] # Absent /\ req[e] # Absent
        BY <3>1, <2>1 DEF IInv, Asking_, Running, PutVariant
      <4> QED
        BY <3>1, <4>1, <4>2, <2>1, <2>4, KeyOwned DEF IInv, DrawsDistinct
    <3>2. CASE PutVariant(c) /\ ~(d = c /\ k = ThisKey(c))
      BY <3>2, <2>2, PutVariantRows
    <3>3. CASE ~PutVariant(c)
      BY <3>3, <2>2, OtherRows
    <3> QED
      BY <3>1, <3>2, <3>3
  <2> QED
    BY <2>1, <2>3, <2>4
<1> QED
  BY <1>1, <1>2

\* Every step keeps RowLocked.
LEMMA RowLockedStep ==
    ASSUME IInv, NEW c \in Calls, Action(c)
    PROVE  RowLocked'
<1> DEFINE In(d) == pc[d] \in {"check", "product", "variants"}
<1>1. CASE Begin(c)
  <2>1. /\ \A d \in Calls \ {c} : req'[d] = req[d] /\ pc'[d] = pc[d]
        /\ pc'[c] = IF Creates(req'[c]) THEN "product" ELSE "lock"
        /\ previous[c] = 0
    BY <1>1, BeginFresh DEF IInv, TypeOK, Asking_
  <2>2. ASSUME NEW d \in Calls \ {c}, In(d), pc'[c] = "product"
        PROVE  req[d].key # req'[c].key
    <3>1. req[d] # Absent
      BY <2>2 DEF IInv, Asking_, Running
    <3> QED
      BY <1>1, <2>1, <2>2, <3>1, BeginFresh, Drawn DEF Fresh
  <2> QED
    BY <1>1, <2>1, <2>2, BeginFresh DEF IInv, RowLocked, Holds, tables
<1>2. CASE Acquire(c)
  <2>1. req[c].key \in Products /\ ~Creates(req[c])
    BY <1>2, Asked_, RequestParts DEF Acquire, Running, IInv, Asking_
  <2>2. \A d \in Calls \ {c} : ~Holds(d, req[c].key)
    BY <1>2 DEF Acquire, RowBusy
  <2> QED
    BY <1>2, <2>1, <2>2 DEF Acquire, IInv, TypeOK, RowLocked, Holds, Goto, tables
<1>3. CASE Pass(c)
  BY <1>3 DEF Pass, IInv, TypeOK, RowLocked, Holds, Goto, tables, Asking_
<1>4. CASE Commit(c)
  <2>1. ASSUME NEW d \in Calls, pc'[d] \in {"check", "product", "variants"}
        PROVE  /\ d # c /\ In(d) /\ req[d].key # req[c].key
               /\ req[d].key \in Products
               /\ products'[req[d].key] = products[req[d].key]
    <3>1. d # c /\ In(d)
      BY <1>4, <2>1 DEF Commit, Goto, IInv, TypeOK
    <3>2. req[d].key # req[c].key
      BY <1>4, <3>1, LockExclusive DEF Commit
    <3>3. req[d].key \in Products
      BY <3>1, Asked_, RequestParts DEF Running
    <3> QED
      BY <1>4, <3>1, <3>2, <3>3 DEF Commit, IInv, TypeOK, ProductTable
  <2>2. \A d \in Calls : pc'[d] = pc[d] \/ pc'[d] = "done"
    BY <1>4 DEF Commit, Goto, IInv, TypeOK
  <2>3. UNCHANGED <<req, previous>>
    BY <1>4 DEF Commit
  <2> QED
    BY <2>1, <2>2, <2>3 DEF IInv, RowLocked, Holds
<1>5. CASE Reject(c) \/ Ended(c)
  BY <1>5 DEF Reject, Ended, RollBack, IInv, TypeOK, RowLocked, Holds, Goto, tables
<1>6. CASE PutProduct(c) \/ PutVariant(c) \/ TimeOut(c)
  BY <1>6 DEF PutProduct, PutVariant, TimeOut, IInv, TypeOK, RowLocked, Holds, Goto, tables
<1> QED
  BY <1>1, <1>2, <1>3, <1>4, <1>5, <1>6 DEF Action

LEMMA BelowMax ==
    ASSUME NEW r \in 0..MaxRevision, r # MaxRevision
    PROVE  r < MaxRevision
  BY CatalogAssumption

\* Every step keeps RowWritten.
LEMMA RowWrittenStep ==
    ASSUME IInv, NEW c \in Calls, Action(c)
    PROVE  RowWritten'
<1> USE DEF IInv, TypeOK, RowWritten
<1>1. CASE Begin(c)
  BY <1>1, BeginFresh DEF writes
<1>2. CASE PutProduct(c)
  <2>1. previous[c] \in 0..MaxRevision
    OBVIOUS
  <2>2. previous[c] # MaxRevision
    BY <1>2 DEF PutProduct, Overflows
  <2>3. previous[c] < MaxRevision
    BY <2>1, <2>2, BelowMax, Zenon
  <2> QED
    BY <1>2, <2>3 DEF PutProduct, Goto, Asked
<1>3. CASE Reject(c) \/ Ended(c) \/ Commit(c)
  BY <1>3 DEF Reject, Ended, RollBack, Commit, Goto, writes
<1>4. CASE Acquire(c) \/ Pass(c) \/ PutVariant(c) \/ TimeOut(c)
  BY <1>4 DEF Acquire, Pass, PutVariant, TimeOut, Goto, writes
<1> QED
  BY <1>1, <1>2, <1>3, <1>4 DEF Action

----------------------------------------------------------------------------
(* The unique keys.                                                        *)

\* Every step keeps SlugsReserved.
LEMMA SlugsReservedStep ==
    ASSUME IInv, NEW c \in Calls, Action(c)
    PROVE  SlugsReserved'
<1> USE DEF IInv, TypeOK
<1>1. CASE PutProduct(c)
  <2> DEFINE k == Asked(c).slug
  <2>1. /\ newProduct'[c] # Absent /\ newProduct'[c].slug = k
        /\ \A d \in Calls \ {c} : newProduct'[d] = newProduct[d]
        /\ UNCHANGED <<tables, req>>
    BY <1>1, RowType, AbsentAssumption DEF PutProduct
  <2>2. \A d \in Calls \ {c} : newProduct[d] # Absent => newProduct[d].slug # k
    BY <1>1 DEF PutProduct, SlugBusy, WritesSlug
  <2>3. \A p \in Products \ {req[c].key} :
           products[p] # Absent => products[p].slug # k
    BY <1>1 DEF PutProduct, SlugTaken
  <2> QED
    BY <2>1, <2>2, <2>3 DEF SlugsReserved, tables
<1>2. CASE Commit(c)
  <2>1. req[c].key \in Products /\ newProduct[c] # Absent
    BY <1>2, Asked_, RequestParts DEF Commit, Running, Writing
  <2>2. ASSUME NEW d \in Calls, newProduct'[d] # Absent
        PROVE  d # c /\ newProduct[d] # Absent /\ newProduct'[d] = newProduct[d]
    BY <1>2, <2>2 DEF Commit
  <2>3. ASSUME NEW p \in Products
        PROVE  products'[p] = IF p = req[c].key THEN newProduct[c] ELSE products[p]
    BY <1>2 DEF Commit, ProductTable
  <2>4. UNCHANGED req
    BY <1>2 DEF Commit
  <2> QED
    BY <2>1, <2>2, <2>3, <2>4 DEF SlugsReserved
<1>3. CASE ~PutProduct(c) /\ ~Commit(c)
  <2>1. \A d \in Calls : newProduct'[d] # Absent => newProduct'[d] = newProduct[d]
    BY <1>3 DEF Action, Begin, Reject, Ended, RollBack, Acquire, Pass, PutVariant,
                TimeOut, writes
  <2>2. ASSUME NEW d \in Calls, newProduct[d] # Absent
        PROVE  req'[d] = req[d]
    <3>1. pc[d] = "variants"
      BY <2>2 DEF Writing
    <3> QED
      BY <1>3, <3>1, BeginFresh, ReqStep
  <2> QED
    BY <1>3, <2>1, <2>2, TablesStep DEF SlugsReserved, tables
<1> QED
  BY <1>1, <1>2, <1>3

\* Every step keeps VariantsWritten.
LEMMA VariantsWrittenStep ==
    ASSUME IInv, NEW c \in Calls, Action(c)
    PROVE  VariantsWritten'
<1> SUFFICES ASSUME NEW e \in Calls, NEW v \in Variants, newVariants'[e][v] # Absent
             PROVE  /\ \E i \in Positions(req'[e]) : v = req'[e].keys[i]
                    /\ newVariants'[e][v].product = req'[e].key
                    /\ variants'[v] # Absent => variants'[v].product = req'[e].key
                    /\ \A d \in Calls : newVariants'[d][v] # Absent => e = d
  BY DEF VariantsWritten
<1>1. CASE PutVariant(c)
  <2>0. UNCHANGED <<req, tables>>
    BY <1>1 DEF PutVariant
  <2>1. ASSUME v = ThisKey(c), NEW d \in Calls \ {c}
        PROVE  newVariants[d][v] = Absent
    <3>1. CASE ~Names(req[c], next[c])
      <4>1. Running(c)
        BY <1>1 DEF PutVariant, Running
      <4> QED
        BY <1>1, <2>1, <3>1, <4>1, KeyOwned DEF IInv, VariantsFresh
    <3>2. CASE Names(req[c], next[c]) /\ variants[v] = Absent
      BY <1>1, <2>1, <3>2, KeyOwned DEF IInv, VariantsWritten, Seen
    <3>3. CASE variants[v] # Absent /\ newVariants[d][v] # Absent
      <4>1. req[d].key = req[c].key
        BY <1>1, <2>1, <3>3, KeyOwned DEF IInv, VariantsWritten
      <4>2. pc[d] = "variants"
        BY <3>3 DEF IInv, Writing, NoVariants
      <4> QED
        BY <1>1, <2>1, <4>1, <4>2, LockExclusive DEF PutVariant
    <3> QED
      BY <3>1, <3>2, <3>3
  <2>2. CASE v = ThisKey(c)
    <3>1. e = c
      BY <1>1, <2>1, <2>2, PutVariantRows
    <3> QED
      BY <1>1, <2>0, <2>1, <2>2, <3>1, KeyOwned, PutVariantRows DEF tables
  <2>3. CASE v # ThisKey(c)
    BY <1>1, <2>0, <2>3, PutVariantRows DEF IInv, VariantsWritten, tables
  <2> QED
    BY <2>2, <2>3
<1>2. CASE ~PutVariant(c)
  <2>1. newVariants'[e][v] = newVariants[e][v]
    BY <1>2, OtherRows
  <2>2. /\ \E i \in Positions(req[e]) : v = req[e].keys[i]
        /\ newVariants[e][v].product = req[e].key
        /\ variants[v] # Absent => variants[v].product = req[e].key
        /\ \A d \in Calls : newVariants[d][v] # Absent => e = d
    BY <2>1 DEF IInv, VariantsWritten
  <2>3. pc[e] = "variants" /\ req'[e] = req[e]
    <3>1. pc[e] = "variants"
      BY <2>1 DEF IInv, Writing, NoVariants
    <3> QED
      BY <1>2, <3>1, BeginFresh, ReqStep DEF IInv, TypeOK
  <2>4. \A d \in Calls : newVariants'[d][v] # Absent => e = d
    BY <1>2, <2>2, OtherRows
  <2>5. variants'[v] # Absent => variants'[v].product = req[e].key
    <3>1. CASE Commit(c)
      <4>1. e # c
        BY <3>1 DEF Commit, NoVariants, IInv, TypeOK
      <4>2. newVariants[c][v] = Absent
        BY <2>1, <2>2, <4>1
      <4> QED
        BY <2>2, <3>1, <4>2, CommitVariants
    <3>2. CASE ~Commit(c)
      BY <2>2, <3>2, TablesStep DEF tables
    <3> QED
      BY <3>1, <3>2
  <2> QED
    BY <2>1, <2>2, <2>3, <2>4, <2>5
<1> QED
  BY <1>1, <1>2

\* Every step keeps SkusReserved.
LEMMA SkusReservedStep ==
    ASSUME IInv, NEW c \in Calls, Action(c)
    PROVE  SkusReserved'
<1> SUFFICES ASSUME NEW e \in Calls, NEW v \in Variants, newVariants'[e][v] # Absent
             PROVE  /\ \A w \in Variants \ {v} :
                          (variants'[w] # Absent /\ variants'[w].sku = newVariants'[e][v].sku)
                              => newVariants'[e][w] # Absent
                    /\ \A d \in Calls : \A w \in Variants :
                          (newVariants'[d][w] # Absent
                             /\ newVariants'[d][w].sku = newVariants'[e][v].sku)
                                => e = d /\ v = w
  BY DEF SkusReserved
<1>1. CASE PutVariant(c)
  <2> DEFINE k == ThisItem(c).sku
  <2>0. UNCHANGED tables
    BY <1>1 DEF PutVariant
  <2>1. ASSUME NEW d \in Calls \ {c}, NEW w \in Variants, newVariants[d][w] # Absent
        PROVE  newVariants[d][w].sku # k
    BY <1>1, <2>1 DEF PutVariant, SkuBusy, WritesSku
  <2>2. ASSUME NEW w \in Variants \ {ThisKey(c)}, Seen(c, w) # Absent
        PROVE  Seen(c, w).sku # k
    BY <1>1, <2>2 DEF PutVariant, SkuTaken
  <2>3. /\ Upsert(c) # Absent /\ Upsert(c).sku = k /\ ThisKey(c) \in Variants
    BY <1>1, KeyOwned
  <2>4. ASSUME NEW d \in Calls, NEW w \in Variants, ~(d = c /\ w = ThisKey(c))
        PROVE  newVariants'[d][w] = newVariants[d][w]
    BY <1>1, <2>4, PutVariantRows
  <2>5. newVariants'[c][ThisKey(c)] = Upsert(c)
    BY <1>1, <2>3, PutVariantRows
  <2>6. ASSUME NEW d \in Calls, NEW w \in Variants, newVariants[d][w] # Absent,
               ~(d = c /\ w = ThisKey(c))
        PROVE  newVariants[d][w].sku # k
    BY <2>1, <2>2, <2>6 DEF Seen
  <2>7. CASE e = c /\ v = ThisKey(c)
    BY <2>0, <2>2, <2>3, <2>4, <2>5, <2>6, <2>7 DEF Seen, tables
  <2>8. CASE ~(e = c /\ v = ThisKey(c))
    BY <2>0, <2>3, <2>4, <2>5, <2>6, <2>8 DEF IInv, SkusReserved, tables
  <2> QED
    BY <2>7, <2>8
<1>2. CASE ~PutVariant(c)
  <2>1. newVariants'[e][v] = newVariants[e][v]
    BY <1>2, OtherRows
  <2>2. /\ \A w \in Variants \ {v} :
              (variants[w] # Absent /\ variants[w].sku = newVariants[e][v].sku)
                  => newVariants[e][w] # Absent
        /\ \A d \in Calls : \A w \in Variants :
              (newVariants[d][w] # Absent /\ newVariants[d][w].sku = newVariants[e][v].sku)
                  => e = d /\ v = w
    BY <2>1 DEF IInv, SkusReserved
  <2>3. \A w \in Variants : newVariants'[e][w] = newVariants[e][w]
    BY <1>2, <2>1 DEF Action, Begin, Reject, Ended, RollBack, Acquire, Pass, PutProduct,
       TimeOut, Commit, NoVariants, IInv, TypeOK, VariantTable, writes
  <2>4. ASSUME NEW w \in Variants \ {v}, variants'[w] # Absent,
               variants'[w].sku = newVariants[e][v].sku
        PROVE  newVariants[e][w] # Absent
    <3>1. CASE Commit(c)
      <4>1. newVariants[c][w] = Absent
        BY <2>1, <2>2, <2>4, <3>1, CommitVariants
      <4> QED
        BY <2>2, <2>4, <3>1, <4>1, CommitVariants
    <3>2. CASE ~Commit(c)
      BY <2>2, <2>4, <3>2, TablesStep DEF tables
    <3> QED
      BY <3>1, <3>2
  <2>5. ASSUME NEW d \in Calls, NEW w \in Variants, newVariants'[d][w] # Absent,
               newVariants'[d][w].sku = newVariants'[e][v].sku
        PROVE  e = d /\ v = w
    BY <1>2, <2>1, <2>2, <2>5, OtherRows
  <2> QED
    BY <2>1, <2>3, <2>4, <2>5
<1> QED
  BY <1>1, <1>2

\* Every step keeps KeysUnique.
LEMMA KeysUniqueStep ==
    ASSUME IInv, NEW c \in Calls, Action(c)
    PROVE  KeysUnique'
<1>1. CASE Commit(c)
  <2>1. req[c].key \in Products /\ newProduct[c] # Absent
    BY <1>1, Asked_, RequestParts DEF Commit, Running, IInv, Writing
  <2>2. ASSUME NEW p \in Products
        PROVE  products'[p] = IF p = req[c].key THEN newProduct[c] ELSE products[p]
    BY <1>1 DEF Commit, IInv, TypeOK, ProductTable
  <2>3. UniqueSlugs(products')
    BY <2>1, <2>2 DEF UniqueSlugs, IInv, SlugsReserved, KeysUnique
  <2>4. ASSUME NEW v \in Variants, NEW w \in Variants,
               variants'[v] # Absent, variants'[w] # Absent,
               variants'[v].sku = variants'[w].sku
        PROVE  v = w
    <3>1. CASE newVariants[c][v] # Absent /\ newVariants[c][w] # Absent
      BY <1>1, <2>4, <3>1, CommitVariants DEF IInv, SkusReserved
    <3>2. CASE newVariants[c][v] # Absent /\ newVariants[c][w] = Absent
      BY <1>1, <2>4, <3>2, CommitVariants DEF IInv, SkusReserved
    <3>3. CASE newVariants[c][v] = Absent /\ newVariants[c][w] # Absent
      BY <1>1, <2>4, <3>3, CommitVariants DEF IInv, SkusReserved
    <3>4. CASE newVariants[c][v] = Absent /\ newVariants[c][w] = Absent
      BY <1>1, <2>4, <3>4, CommitVariants DEF IInv, KeysUnique, UniqueSkus
    <3> QED
      BY <3>1, <3>2, <3>3, <3>4
  <2>5. UniqueSkus(variants')
    BY <2>4 DEF UniqueSkus
  <2> QED
    BY <2>3, <2>5 DEF KeysUnique
<1>2. CASE ~Commit(c)
  BY <1>2, TablesStep DEF IInv, KeysUnique, tables
<1> QED
  BY <1>1, <1>2

----------------------------------------------------------------------------
(* The audit log.                                                          *)

\* The row a call wrote is the one it was asked for.
LEMMA RowAsAsked ==
    ASSUME IInv, NEW c \in Calls, pc[c] = "variants"
    PROVE  /\ newProduct[c].revision = previous[c] + 1
           /\ newProduct[c].slug = req[c].draft.slug
           /\ newProduct[c].status = req[c].draft.status
           /\ newProduct[c].content = req[c].draft.content
<1>1. RowWritten
  BY DEF IInv
<1>2. newProduct[c] = [slug |-> req[c].draft.slug, status |-> req[c].draft.status,
                       content |-> req[c].draft.content, revision |-> previous[c] + 1]
  BY <1>1 DEF RowWritten
<1> QED
  BY <1>2

\* Every step keeps AuditTrail.
LEMMA AuditTrailStep ==
    ASSUME IInv, NEW c \in Calls, Action(c)
    PROVE  AuditTrail'
<1>1. CASE Commit(c)
  <2> DEFINE p == req[c].key
             e == [request |-> c, old |-> previous[c], new |-> newProduct[c].revision]
  <2>1. /\ p \in Products
        /\ newProduct[c] # Absent
        /\ newProduct[c].revision = previous[c] + 1
    <3>1. pc[c] = "variants" /\ Running(c)
      BY <1>1 DEF Commit, Running
    <3>2. p \in Products
      BY <3>1, Asked_, RequestParts
    <3>3. newProduct[c] # Absent
      BY <3>1 DEF IInv, Writing
    <3>4. newProduct[c].revision = previous[c] + 1
      BY <3>1, RowAsAsked
    <3> QED
      BY <3>2, <3>3, <3>4
  <2>2. /\ products'[p] = newProduct[c]
        /\ audit'[p] = Append(audit[p], e)
        /\ \A q \in Products \ {p} : products'[q] = products[q] /\ audit'[q] = audit[q]
    BY <1>1, <2>1 DEF Commit, IInv, TypeOK, ProductTable, AuditTable
  <2>3. Len(audit[p]) = previous[c]
    <3>1. Len(audit[p]) = IF products[p] = Absent THEN 0 ELSE products[p].revision
      BY <2>1 DEF IInv, AuditTrail, AuditComplete
    <3>2. CASE Creates(req[c])
      BY <1>1, <2>1, <3>1, <3>2 DEF IInv, RowLocked, ProductsFresh, Commit, Running
    <3>3. CASE ~Creates(req[c])
      BY <1>1, <2>1, <3>1, <3>3 DEF IInv, RowLocked, Commit
    <3> QED
      BY <3>2, <3>3
  <2>4. audit[p] \in Seq(AuditEntry) /\ previous[c] \in Nat
    BY <2>1, CatalogAssumption DEF IInv, TypeOK, AuditTable
  <2>5. e.old = previous[c] /\ e.new = previous[c] + 1
    BY <2>1
  <2> HIDE DEF e, p
  <2>6. /\ Len(audit'[p]) = previous[c] + 1
        /\ \A i \in 1..previous[c] : audit'[p][i] = audit[p][i]
        /\ audit'[p][previous[c] + 1] = e
    BY <2>2, <2>3, <2>4
  <2>7. ASSUME NEW i \in 1..Len(audit'[p])
        PROVE  audit'[p][i].old = i - 1 /\ audit'[p][i].new = i
    <3>1. CASE i \in 1..previous[c]
      BY <2>1, <2>3, <2>6, <3>1 DEF IInv, AuditTrail, AuditComplete
    <3>2. CASE i = previous[c] + 1
      BY <2>4, <2>5, <2>6, <3>2
    <3> QED
      BY <2>4, <2>6, <3>1, <3>2
  <2>8. ASSUME NEW q \in Products
        PROVE  /\ Len(audit'[q]) = IF products'[q] = Absent THEN 0 ELSE products'[q].revision
               /\ \A i \in 1..Len(audit'[q]) :
                     audit'[q][i].old = i - 1 /\ audit'[q][i].new = i
    <3>1. CASE q = p
      BY <2>1, <2>2, <2>6, <2>7, <3>1
    <3>2. CASE q # p
      BY <2>2, <3>2 DEF IInv, AuditTrail, AuditComplete
    <3> QED
      BY <3>1, <3>2
  <2> QED
    BY <2>8 DEF AuditTrail, AuditComplete
<1>2. CASE ~Commit(c)
  BY <1>2, TablesStep DEF IInv, AuditTrail, tables
<1> QED
  BY <1>1, <1>2

----------------------------------------------------------------------------
(* The invariant.                                                          *)

\* The initial states satisfy the inductive invariant.
LEMMA IInvInit == Init => IInv
<1> SUFFICES ASSUME Init PROVE IInv
  OBVIOUS
<1>1. PICK db \in Databases : products = db.products /\ variants = db.variants
                              /\ audit = db.audit
  BY DEF Init
<1>2. /\ products \in ProductTable /\ variants \in VariantTable /\ audit \in AuditTable
      /\ Consistent(products, variants, audit)
  BY <1>1, DatabasesAssumption
<1>3. TypeOK
  BY <1>2, CatalogAssumption DEF TypeOK, Init, NoVariants, VariantTable, Replies
<1>4. KeysUnique /\ AuditTrail
  BY <1>2 DEF Consistent, KeysUnique, AuditTrail
<1>5. /\ Asking_ /\ Writing /\ DrawsDistinct /\ ProductsFresh /\ VariantsFresh
      /\ RowLocked /\ RowWritten
  BY DEF Init, Asking_, Writing, DrawsDistinct, ProductsFresh, VariantsFresh,
         RowLocked, RowWritten, Running, Holds
<1>6. SlugsReserved /\ VariantsWritten /\ SkusReserved
  BY DEF Init, SlugsReserved, VariantsWritten, SkusReserved, NoVariants
<1> QED
  BY <1>3, <1>4, <1>5, <1>6 DEF IInv

\* Every step keeps the inductive invariant.
LEMMA IInvStep == IInv /\ [Next]_vars => IInv'
<1> SUFFICES ASSUME IInv, [Next]_vars PROVE IInv'
  OBVIOUS
<1>1. CASE Next
  <2>1. PICK c \in Calls : Action(c)
    BY <1>1, Steps
  <2>2. TypeOK' /\ Asking_' /\ Writing'
    BY <2>1, TypeStep, AskingStep, WritingStep
  <2>3. DrawsDistinct' /\ ProductsFresh' /\ VariantsFresh' /\ RowLocked' /\ RowWritten'
    BY <2>1, DrawsDistinctStep, ProductsFreshStep, VariantsFreshStep, RowLockedStep,
       RowWrittenStep
  <2>4. SlugsReserved' /\ VariantsWritten' /\ SkusReserved' /\ KeysUnique' /\ AuditTrail'
    BY <2>1, SlugsReservedStep, VariantsWrittenStep, SkusReservedStep, KeysUniqueStep,
       AuditTrailStep
  <2> QED
    BY <2>2, <2>3, <2>4 DEF IInv
<1>2. CASE UNCHANGED vars
  BY <1>2 DEF vars, tables, writes, IInv, TypeOK, Asking_, Writing, DrawsDistinct,
              ProductsFresh, VariantsFresh, RowLocked, RowWritten, SlugsReserved,
              VariantsWritten, SkusReserved, KeysUnique, AuditTrail, Running, Holds
<1> QED
  BY <1>1, <1>2

\* The inductive invariant holds of every reachable state.
LEMMA Invariant == Spec => []IInv
BY IInvInit, IInvStep, PTL DEF Spec

\* Every call keeps the tables, and its own place in catalog_save, well formed,
\* up to the largest revision an integer column can hold.
THEOREM TypeCorrect == Spec => []TypeOK
<1>1. IInv => TypeOK
  BY DEF IInv
<1> QED
  BY <1>1, Invariant, PTL

\* No interleaving of saves commits one slug to two products or one SKU to two
\* variants.
THEOREM KeysStayUnique == Spec => []KeysUnique
<1>1. IInv => KeysUnique
  BY DEF IInv
<1> QED
  BY <1>1, Invariant, PTL

\* The audit log of a product lists its revisions from 1 to the present one,
\* each once and in order: no save is lost and none goes unrecorded.
THEOREM AuditIsComplete == Spec => []AuditTrail
<1>1. IInv => AuditTrail
  BY DEF IInv
<1> QED
  BY <1>1, Invariant, PTL

----------------------------------------------------------------------------
(* Variants and revisions.                                                 *)

\* A commit changes the row of its product.
LEMMA CommitChangesProduct ==
    ASSUME IInv, NEW c \in Calls, Commit(c)
    PROVE  /\ req[c].key \in Products
           /\ products'[req[c].key] # products[req[c].key]
<1>1. pc[c] = "variants" /\ Running(c)
  BY DEF Commit, Running
<1>2. req[c].key \in Products
  BY <1>1, Asked_, RequestParts
<1>3. products'[req[c].key] = newProduct[c]
  BY <1>2 DEF Commit, IInv, TypeOK, ProductTable
<1>4. newProduct[c] # Absent
  BY <1>1 DEF IInv, Writing
<1>5. newProduct[c].revision = previous[c] + 1 /\ previous[c] \in Nat
  BY <1>1, RowAsAsked, CatalogAssumption DEF IInv, TypeOK
<1>6. CASE Creates(req[c])
  BY <1>1, <1>2, <1>3, <1>4, <1>6 DEF IInv, ProductsFresh
<1>7. CASE ~Creates(req[c])
  <2>1. previous[c] = products[req[c].key].revision
    BY <1>1, <1>7 DEF IInv, RowLocked
  <2> QED
    BY <1>2, <1>3, <1>5, <2>1
<1> QED
  BY <1>2, <1>6, <1>7

\* A step changes a variant only as part of a new revision of its product.
LEMMA VariantChange ==
    ASSUME IInv, NEW c \in Calls, Action(c), NEW v \in Variants, variants'[v] # variants[v]
    PROVE  /\ variants'[v] # Absent
           /\ variants[v] # Absent => variants'[v].product = variants[v].product
           /\ products'[variants'[v].product] # products[variants'[v].product]
<1>1. Commit(c)
  BY TablesStep DEF tables
<1>2. CASE newVariants[c][v] # Absent
  BY <1>1, <1>2, CommitVariants, CommitChangesProduct DEF IInv, VariantsWritten
<1>3. CASE newVariants[c][v] = Absent
  <2>1. variants[v] # Absent /\ variants[v].product = req[c].key
    BY <1>1, <1>3, CommitVariants DEF Committed
  <2> QED
    BY <1>1, <1>3, <2>1, CommitVariants, CommitChangesProduct
<1> QED
  BY <1>2, <1>3

\* A variant is never deleted, never moves to another product, and changes
\* only in the step that gives its product a new revision, whatever identities
\* the drafts of other products name.
THEOREM VariantsKeepIdentity == Spec => VariantsFollowRevisions
<1>1. IInv /\ [Next]_vars =>
        [\A v \in Variants : variants'[v] # variants[v] =>
          /\ variants'[v] # Absent
          /\ variants[v] # Absent => variants'[v].product = variants[v].product
          /\ products'[variants'[v].product] # products[variants'[v].product]]_vars
  <2> SUFFICES ASSUME IInv, Next, NEW v \in Variants, variants'[v] # variants[v]
               PROVE  /\ variants'[v] # Absent
                      /\ variants[v] # Absent => variants'[v].product = variants[v].product
                      /\ products'[variants'[v].product] # products[variants'[v].product]
    OBVIOUS
  <2> QED
    BY Steps, VariantChange
<1> QED
  BY <1>1, Invariant, PTL DEF Spec, VariantsFollowRevisions

----------------------------------------------------------------------------
(* Publication.                                                            *)

\* The rows of the items passed are those items, unless two items name one
\* variant.
ItemsWritten ==
    \A c \in Calls : pc[c] = "variants" =>
        \A j \in Positions(req[c]) : j < next[c] =>
            /\ newVariants[c][req[c].keys[j]] # Absent
            /\ newVariants[c][req[c].keys[j]].active = req[c].draft.items[j].active

PInv == IInv /\ ItemsWritten /\ Published

\* With one spelling, the keys of a draft are as distinct as its identities.
LEMMA KeysDistinct ==
    ASSUME OneSpelling, NEW r \in Requests, NEW i \in Positions(r), NEW j \in Positions(r),
           i # j
    PROVE  r.keys[i] # r.keys[j]
<1>1. CASE Names(r, i) /\ Names(r, j)
  <2>1. r.draft.items[i].id # r.draft.items[j].id
    BY <1>1, RequestParts DEF ValidDraft, Positions, Names
  <2>2. r.draft.items[i].id \in Ids /\ r.draft.items[j].id \in Ids
    BY <1>1, RequestParts DEF Names, Item
  <2>3. /\ r.keys[i] = Uuid[r.draft.items[i].id]
        /\ r.keys[j] = Uuid[r.draft.items[j].id]
    BY <1>1 DEF Requests
  <2> QED
    BY <2>1, <2>2, <2>3 DEF OneSpelling
<1>2. CASE ~(Names(r, i) /\ Names(r, j))
  BY <1>2, RequestParts
<1> QED
  BY <1>1, <1>2

\* Every step keeps ItemsWritten.
LEMMA ItemsWrittenStep ==
    ASSUME OneSpelling, IInv, ItemsWritten, NEW c \in Calls, Action(c)
    PROVE  ItemsWritten'
<1> SUFFICES ASSUME NEW d \in Calls, pc'[d] = "variants",
                    NEW j \in Positions(req'[d]), j < next'[d]
             PROVE  /\ newVariants'[d][req'[d].keys[j]] # Absent
                    /\ newVariants'[d][req'[d].keys[j]].active = req'[d].draft.items[j].active
  BY DEF ItemsWritten
<1>1. CASE PutVariant(c)
  <2>1. req[d] \in Requests /\ pc[d] = "variants" /\ req' = req
    BY <1>1, Asked_ DEF PutVariant, Running
  <2>2. req[d].keys[j] \in Variants
    BY <2>1, RequestParts
  <2>3. CASE d = c /\ j = next[c]
    <3>1. req[d].keys[j] = ThisKey(c) /\ req[d].draft.items[j] = ThisItem(c)
      BY <2>3 DEF ThisKey, ThisItem, Asked
    <3>2. Upsert(c) # Absent /\ Upsert(c).active = ThisItem(c).active
      BY <1>1, KeyOwned DEF Upsert
    <3> QED
      BY <1>1, <2>1, <2>2, <2>3, <3>1, <3>2, PutVariantRows
  <2>4. CASE d = c /\ j # next[c]
    <3>1. j < next[c]
      BY <1>1, <2>4 DEF PutVariant, IInv, TypeOK, Positions
    <3>2. req[d].keys[j] # ThisKey(c)
      BY <1>1, <2>1, <2>4, KeyOwned, KeysDistinct
    <3> QED
      BY <1>1, <2>1, <2>2, <2>4, <3>1, <3>2, PutVariantRows DEF ItemsWritten
  <2>5. CASE d # c
    <3>1. next'[d] = next[d]
      BY <1>1, <2>5 DEF PutVariant, IInv, TypeOK
    <3> QED
      BY <1>1, <2>1, <2>2, <2>5, <3>1, PutVariantRows DEF ItemsWritten
  <2> QED
    BY <2>3, <2>4, <2>5
<1>2. CASE PutProduct(c) /\ d = c
  BY <1>2 DEF PutProduct, IInv, Asking_, Positions
<1>3. CASE ~PutVariant(c) /\ ~(PutProduct(c) /\ d = c)
  <2>1. /\ pc[d] = "variants" /\ next'[d] = next[d] /\ newVariants'[d] = newVariants[d]
        /\ req'[d] = req[d]
    BY <1>3, BeginFresh DEF Action, Begin, Reject, Ended, RollBack, Acquire, Pass, PutProduct,
                TimeOut, Commit, IInv, TypeOK, Goto, writes
  <2> QED
    BY <2>1 DEF ItemsWritten
<1> QED
  BY <1>1, <1>2, <1>3

\* Every step keeps Published.
LEMMA PublishedStep ==
    ASSUME PInv, NEW c \in Calls, Action(c)
    PROVE  Published'
<1>1. CASE Commit(c)
  <2>1. /\ pc[c] = "variants" /\ Running(c) /\ req[c] \in Requests /\ IInv
    BY <1>1, Asked_ DEF Commit, Running, PInv
  <2>2. SUFFICES ASSUME NEW p \in Products, products'[p] # Absent,
                        products'[p].status = "active"
                 PROVE  Purchasable(p, variants')
    BY DEF Published, PublishedPurchasable
  <2>3. CASE p = req[c].key
    <3>1. products'[p] = newProduct[c]
      BY <1>1, <2>1, <2>3 DEF Commit, IInv, TypeOK, ProductTable
    <3>2. req[c].draft.status = "active"
      BY <2>1, <2>2, <3>1, RowAsAsked
    <3>3. PICK j \in Positions(req[c]) : req[c].draft.items[j].active
      BY <2>1, <3>2, RequestParts DEF ValidDraft, Positions
    <3>4. j < next[c] /\ req[c].keys[j] \in Variants
      BY <1>1, <2>1, <3>3, RequestParts DEF Commit, Positions, Asked, IInv, TypeOK
    <3>5. /\ newVariants[c][req[c].keys[j]] # Absent
          /\ newVariants[c][req[c].keys[j]].active
      BY <2>1, <3>3, <3>4 DEF PInv, ItemsWritten
    <3>6. newVariants[c][req[c].keys[j]].product = req[c].key
      BY <2>1, <3>4, <3>5 DEF IInv, VariantsWritten
    <3> QED
      BY <1>1, <2>1, <2>3, <3>4, <3>5, <3>6, CommitVariants DEF Purchasable
  <2>4. CASE p # req[c].key
    <3>1. products[p] = products'[p]
      BY <1>1, <2>1, <2>4 DEF Commit, IInv, TypeOK, ProductTable
    <3>2. PICK v \in Variants : variants[v] # Absent /\ variants[v].product = p /\ variants[v].active
      BY <2>2, <3>1 DEF PInv, Published, PublishedPurchasable, Purchasable
    <3>3. newVariants[c][v] = Absent
      BY <2>1, <2>4, <3>2 DEF IInv, VariantsWritten
    <3>4. variants'[v] = variants[v]
      BY <1>1, <2>1, <2>4, <3>2, <3>3, CommitVariants DEF Committed
    <3> QED
      BY <3>2, <3>4 DEF Purchasable
  <2> QED
    BY <2>3, <2>4
<1>2. CASE ~Commit(c)
  BY <1>2, TablesStep DEF PInv, Published, tables
<1> QED
  BY <1>1, <1>2

\* When clients spell the identity of a variant in one way, no sequence of saves
\* leaves a published product without an active variant.
THEOREM PublishedIsPurchasable ==
    ASSUME OneSpelling
    PROVE  Spec => []Published
<1>1. Init => PInv
  <2> SUFFICES ASSUME Init PROVE PInv
    OBVIOUS
  <2>1. ItemsWritten
    BY DEF Init, ItemsWritten
  <2>2. Published
    BY DatabasesAssumption DEF Init, Consistent, Published
  <2> QED
    BY <2>1, <2>2, IInvInit DEF PInv
<1>2. PInv /\ [Next]_vars => PInv'
  <2> SUFFICES ASSUME PInv, [Next]_vars PROVE PInv'
    OBVIOUS
  <2>1. IInv'
    BY IInvStep DEF PInv
  <2>2. CASE Next
    BY <2>1, <2>2, OneSpelling, Steps, ItemsWrittenStep, PublishedStep DEF PInv
  <2>3. CASE UNCHANGED vars
    BY <2>1, <2>3 DEF PInv, ItemsWritten, Published, vars, tables, writes
  <2> QED
    BY <2>2, <2>3
<1>3. PInv => Published
  BY DEF PInv
<1> QED
  BY <1>1, <1>2, <1>3, PTL DEF Spec
----------------------------------------------------------------------------
(* Answers.                                                                *)

\* A call goes on only from the revision it asked for.
ReadAsExpected ==
    \A c \in Calls :
        pc[c] \in {"product", "variants"} => previous[c] = req[c].expected

\* An audit entry of a call is a call's that is over and was told no refusal,
\* and stands where the call wrote it.
EntriesTrue ==
    \A p \in Products : \A i \in 1..Len(audit[p]) :
        LET c == audit[p][i].request IN
        c # Absent => /\ pc[c] = "done" /\ req[c] # Absent
                      /\ reply[c] \in {"OK", "DATABASE_UNAVAILABLE"}
                      /\ p = req[c].key
                      /\ audit[p][i].old = req[c].expected

\* A call that was told OK has an audit entry; before its end it was told
\* nothing, or 503.
RepliesTrue ==
    \A c \in Calls :
        /\ reply[c] = "OK" =>
              /\ pc[c] = "done"
              /\ \E p \in Products : \E i \in 1..Len(audit[p]) : audit[p][i].request = c
        /\ Running(c) => reply[c] \in {"waiting", "DATABASE_UNAVAILABLE"}

RInv == IInv /\ ReadAsExpected /\ EntriesTrue /\ RepliesTrue

\* Every step keeps ReadAsExpected.
LEMMA ReadAsExpectedStep ==
    ASSUME RInv, NEW c \in Calls, Action(c)
    PROVE  ReadAsExpected'
<1> USE DEF RInv, ReadAsExpected
<1>1. CASE Begin(c)
  <2>1. previous'[c] = 0 /\ (Creates(req'[c]) => req'[c].expected = 0)
    BY <1>1, BeginFresh, RequestParts DEF IInv, Asking_, writes
  <2> QED
    BY <1>1, <2>1, BeginFresh DEF IInv, TypeOK
<1>2. CASE Pass(c)
  BY <1>2 DEF Pass, Stale, Goto, IInv, TypeOK
<1>3. CASE Reject(c) \/ Ended(c) \/ Commit(c)
  BY <1>3 DEF Reject, Ended, RollBack, Commit, Goto, IInv, TypeOK
<1>4. CASE Acquire(c) \/ PutProduct(c) \/ PutVariant(c) \/ TimeOut(c)
  BY <1>4 DEF Acquire, PutProduct, PutVariant, TimeOut, Goto, IInv, TypeOK, writes
<1> QED
  BY <1>1, <1>2, <1>3, <1>4 DEF Action

\* A commit adds one entry, the call's, to the log of its product.
LEMMA CommitEntry ==
    ASSUME IInv, NEW c \in Calls, Commit(c)
    PROVE  LET p == req[c].key  n == Len(audit[p]) + 1 IN
           /\ p \in Products /\ n \in 1..Len(audit'[p]) /\ Len(audit'[p]) = n
           /\ audit'[p][n].request = c /\ audit'[p][n].old = previous[c]
           /\ \A q \in Products : \A i \in 1..Len(audit'[q]) :
                 ~(q = p /\ i = n) => i \in 1..Len(audit[q]) /\ audit'[q][i] = audit[q][i]
           /\ \A q \in Products : \A i \in 1..Len(audit[q]) :
                 i \in 1..Len(audit'[q]) /\ audit'[q][i] = audit[q][i]
<1> DEFINE p == req[c].key
           n == Len(audit[p]) + 1
           e == [request |-> c, old |-> previous[c], new |-> newProduct[c].revision]
<1>1. p \in Products
  BY Asked_, RequestParts DEF Commit, Running
<1>2. audit[p] \in Seq(AuditEntry) /\ \A q \in Products : audit[q] \in Seq(AuditEntry)
  BY <1>1 DEF IInv, TypeOK, AuditTable
<1>3. /\ audit'[p] = Append(audit[p], e)
      /\ \A q \in Products \ {p} : audit'[q] = audit[q]
  BY <1>1 DEF Commit, IInv, TypeOK, AuditTable
<1>4. e.request = c /\ e.old = previous[c]
  OBVIOUS
<1> HIDE DEF e, p
<1>5. /\ Len(audit'[p]) = n /\ n \in Nat /\ n >= 1 /\ audit'[p][n] = e
      /\ \A i \in 1..Len(audit[p]) : audit'[p][i] = audit[p][i]
  BY <1>2, <1>3
<1>6. ASSUME NEW q \in Products, NEW i \in 1..Len(audit'[q]), ~(q = p /\ i = n)
      PROVE  i \in 1..Len(audit[q]) /\ audit'[q][i] = audit[q][i]
  <2>1. CASE q = p
    BY <1>2, <1>5, <1>6, <2>1
  <2>2. CASE q # p
    BY <1>3, <1>6, <2>2
  <2> QED
    BY <2>1, <2>2
<1>7. ASSUME NEW q \in Products, NEW i \in 1..Len(audit[q])
      PROVE  i \in 1..Len(audit'[q]) /\ audit'[q][i] = audit[q][i]
  <2>1. CASE q = p
    BY <1>2, <1>5, <1>7, <2>1
  <2>2. CASE q # p
    BY <1>3, <1>7, <2>2
  <2> QED
    BY <2>1, <2>2
<1> QED
  BY <1>1, <1>4, <1>5, <1>6, <1>7 DEF p

\* Every step keeps EntriesTrue: who has an entry is over, and stays so.
LEMMA EntriesTrueStep ==
    ASSUME RInv, NEW c \in Calls, Action(c)
    PROVE  EntriesTrue'
<1> SUFFICES ASSUME NEW p \in Products, NEW i \in 1..Len(audit'[p]),
                    NEW d, d = audit'[p][i].request, d # Absent
             PROVE  /\ pc'[d] = "done" /\ req'[d] # Absent
                    /\ reply'[d] \in {"OK", "DATABASE_UNAVAILABLE"}
                    /\ p = req'[d].key
                    /\ audit'[p][i].old = req'[d].expected
  BY DEF EntriesTrue
<1>1. ASSUME i \in 1..Len(audit[p]), audit'[p][i] = audit[p][i]
      PROVE  /\ pc'[d] = "done" /\ req'[d] # Absent
             /\ reply'[d] \in {"OK", "DATABASE_UNAVAILABLE"}
             /\ p = req'[d].key
             /\ audit'[p][i].old = req'[d].expected
  <2>1. /\ pc[d] = "done" /\ req[d] # Absent
        /\ reply[d] \in {"OK", "DATABASE_UNAVAILABLE"}
        /\ p = req[d].key /\ audit[p][i].old = req[d].expected
    BY <1>1 DEF RInv, EntriesTrue
  <2>2. d \in Calls
    <3>1. audit[p] \in Seq(AuditEntry)
      BY DEF RInv, IInv, TypeOK, AuditTable
    <3>2. audit[p][i] \in AuditEntry
      BY <1>1, <3>1
    <3> QED
      BY <1>1, <3>2 DEF AuditEntry
  <2>3. c # d
    BY <2>1 DEF Action, Begin, Reject, Ended, Acquire, Pass, PutProduct, PutVariant,
                Commit, TimeOut, Running
  <2>4. pc'[d] = pc[d] /\ req'[d] = req[d] /\ reply'[d] = reply[d]
    BY <2>2, <2>3 DEF RInv, IInv, TypeOK, Action, Begin, Reject, Ended, RollBack, Acquire,
                      Pass, PutProduct, PutVariant, Commit, TimeOut, Goto, Tell
  <2> QED
    BY <1>1, <2>1, <2>4
<1>2. CASE Commit(c)
  <2>1. CASE p = req[c].key /\ i = Len(audit[p]) + 1
    <3>1. d = c /\ audit'[p][i].old = previous[c]
      BY <1>2, <2>1, CommitEntry DEF RInv
    <3>2. previous[c] = req[c].expected /\ req[c] # Absent
      BY <1>2 DEF RInv, ReadAsExpected, IInv, Asking_, Running, Commit
    <3>3. reply[c] \in {"waiting", "DATABASE_UNAVAILABLE"}
      BY <1>2 DEF RInv, RepliesTrue, Running, Commit
    <3> QED
      BY <1>2, <2>1, <3>1, <3>2, <3>3 DEF RInv, IInv, TypeOK, Commit, Goto, Tell
  <2>2. CASE ~(p = req[c].key /\ i = Len(audit[p]) + 1)
    BY <1>1, <1>2, <2>2, CommitEntry DEF RInv
  <2> QED
    BY <2>1, <2>2
<1>3. CASE ~Commit(c)
  BY <1>1, <1>3, TablesStep DEF RInv, tables
<1> QED
  BY <1>2, <1>3

\* Every step keeps RepliesTrue.
LEMMA RepliesTrueStep ==
    ASSUME RInv, NEW c \in Calls, Action(c)
    PROVE  RepliesTrue'
<1>1. ASSUME NEW p \in Products, NEW i \in 1..Len(audit[p])
      PROVE  i \in 1..Len(audit'[p]) /\ audit'[p][i] = audit[p][i]
  BY <1>1, CommitEntry, TablesStep DEF RInv, tables
<1>2. ASSUME NEW d \in Calls, d # c
      PROVE  pc'[d] = pc[d] /\ reply'[d] = reply[d]
  BY <1>2 DEF RInv, IInv, TypeOK, Action, Begin, Reject, Ended, RollBack, Acquire,
              Pass, PutProduct, PutVariant, Commit, TimeOut, Goto, Tell
<1>3. /\ reply'[c] = "OK" => reply[c] = "OK" \/ Commit(c)
      /\ reply'[c] = "OK" /\ reply[c] = "OK" => pc'[c] = pc[c]
      /\ Running(c)' => reply'[c] \in {"waiting", "DATABASE_UNAVAILABLE"}
  <2>1. CASE Begin(c) \/ Reject(c)
    BY <2>1 DEF Begin, Reject, RInv, IInv, TypeOK, Goto, Running, Asking_
  <2>2. CASE Running(c) /\ ~Commit(c)
    <3>1. reply[c] \in {"waiting", "DATABASE_UNAVAILABLE"}
      BY <2>2 DEF RInv, RepliesTrue
    <3>2. CASE Ended(c)
      BY <3>1, <3>2 DEF Ended, RollBack, Failures, Refusals, RInv, IInv, TypeOK, Goto,
                        Tell, Running
    <3>3. CASE TimeOut(c)
      BY <3>1, <3>3 DEF TimeOut, RInv, IInv, TypeOK, Tell
    <3>4. CASE Acquire(c) \/ Pass(c) \/ PutProduct(c) \/ PutVariant(c)
      BY <3>1, <3>4 DEF Acquire, Pass, PutProduct, PutVariant
    <3> QED
      BY <2>2, <3>2, <3>3, <3>4 DEF Action, Begin, Reject, Running
  <2>3. CASE Commit(c)
    BY <2>3 DEF Commit, RInv, IInv, TypeOK, Goto, Tell, Running, RepliesTrue
  <2> QED
    BY <2>1, <2>2, <2>3 DEF Action, Ended, Acquire, Pass, PutProduct, PutVariant, TimeOut,
                            Running
<1>4. Commit(c) => /\ pc'[c] = "done"
                   /\ \E p \in Products : \E i \in 1..Len(audit'[p]) : audit'[p][i].request = c
  <2> SUFFICES ASSUME Commit(c)
               PROVE  /\ pc'[c] = "done"
                      /\ \E p \in Products : \E i \in 1..Len(audit'[p]) :
                            audit'[p][i].request = c
    OBVIOUS
  <2>1. pc'[c] = "done"
    BY DEF Commit, Goto, RInv, IInv, TypeOK
  <2> QED
    BY <2>1, CommitEntry DEF RInv
<1>5. ASSUME NEW d \in Calls, reply[d] = "OK"
      PROVE  /\ pc[d] = "done"
             /\ \E p \in Products : \E i \in 1..Len(audit'[p]) : audit'[p][i].request = d
  BY <1>1, <1>5 DEF RInv, RepliesTrue
<1>6. ASSUME NEW d \in Calls
      PROVE  /\ reply'[d] = "OK" =>
                  /\ pc'[d] = "done"
                  /\ \E p \in Products : \E i \in 1..Len(audit'[p]) :
                        audit'[p][i].request = d
             /\ Running(d)' => reply'[d] \in {"waiting", "DATABASE_UNAVAILABLE"}
  <2>1. CASE d = c
    BY <1>3, <1>4, <1>5, <2>1
  <2>2. CASE d # c
    BY <1>2, <1>5, <2>2 DEF RInv, RepliesTrue, Running
  <2> QED
    BY <2>1, <2>2
<1> QED
  BY <1>6 DEF RepliesTrue

\* The initial states satisfy RInv, and every step keeps it.
LEMMA RInvInit == Init => RInv
<1> SUFFICES ASSUME Init PROVE RInv
  OBVIOUS
<1>1. EntriesTrue
  BY DatabasesAssumption DEF Init, EntriesTrue
<1> QED
  BY <1>1, IInvInit DEF RInv, ReadAsExpected, RepliesTrue, Init, Running

\* Every step keeps RInv.
LEMMA RInvStep == RInv /\ [Next]_vars => RInv'
<1> SUFFICES ASSUME RInv, [Next]_vars PROVE RInv'
  OBVIOUS
<1>1. IInv'
  BY IInvStep DEF RInv
<1>2. CASE Next
  BY <1>1, <1>2, Steps, ReadAsExpectedStep, EntriesTrueStep, RepliesTrueStep DEF RInv
<1>3. CASE UNCHANGED vars
  BY <1>1, <1>3 DEF RInv, ReadAsExpected, EntriesTrue, RepliesTrue, vars, tables, writes,
                    Running
<1> QED
  BY <1>2, <1>3

\* A call that was told OK is in the audit log exactly once, where it asked to
\* be; one that was refused is not in it, and one told 503 at most once.
THEOREM AnswersAreTrue == Spec => []AnswersTrue
<1>1. RInv => AnswersTrue
  <2> SUFFICES ASSUME RInv, NEW c \in Calls
               PROVE  /\ \A e, f \in Recorded(c) : e = f
                      /\ reply[c] = "OK" <=>
                           (Recorded(c) # {} /\ reply[c] # "DATABASE_UNAVAILABLE")
                      /\ \A e \in Recorded(c) :
                            /\ e[1] = req[c].key
                            /\ audit[e[1]][e[2]].old = req[c].expected
    BY DEF AnswersTrue
  <2>1. ASSUME NEW e \in Recorded(c)
        PROVE  /\ e[1] \in Products /\ e[2] \in 1..Len(audit[e[1]]) /\ e = <<e[1], e[2]>>
               /\ audit[e[1]][e[2]].request = c
    BY <2>1 DEF Recorded
  <2>2. ASSUME NEW p \in Products, NEW i \in 1..Len(audit[p]), audit[p][i].request = c
        PROVE  <<p, i>> \in Recorded(c)
    BY <2>2 DEF Recorded
  <2>3. ASSUME NEW e \in Recorded(c)
        PROVE  /\ e[1] = req[c].key /\ e[2] = req[c].expected + 1
               /\ audit[e[1]][e[2]].old = req[c].expected
               /\ reply[c] \in {"OK", "DATABASE_UNAVAILABLE"}
    <3>1. c # Absent
      BY CatalogAssumption
    <3>2. /\ e[1] = req[c].key /\ audit[e[1]][e[2]].old = req[c].expected
          /\ reply[c] \in {"OK", "DATABASE_UNAVAILABLE"}
      BY <2>1, <3>1 DEF RInv, EntriesTrue
    <3>3. audit[e[1]][e[2]].old = e[2] - 1
      BY <2>1 DEF RInv, IInv, AuditTrail, AuditComplete
    <3>4. Len(audit[e[1]]) \in Nat
      BY <2>1 DEF RInv, IInv, TypeOK, AuditTable
    <3> QED
      BY <2>1, <3>2, <3>3, <3>4
  <2>4. reply[c] = "OK" => Recorded(c) # {}
    BY <2>2 DEF RInv, RepliesTrue
  <2> QED
    BY <2>1, <2>3, <2>4
<1> QED
  BY <1>1, RInvInit, RInvStep, PTL DEF Spec

\* Two calls that took effect on one product replaced different revisions.
EditedOnce ==
    \A c, d \in Calls :
        (/\ Recorded(c) # {} /\ Recorded(d) # {}
         /\ req[c].key = req[d].key /\ req[c].expected = req[d].expected) => c = d

\* Of the saves that read one revision of a product, at most one changes it,
\* those that were answered 503 or lost their answer included.
THEOREM RevisionsAreEditedOnce == Spec => []EditedOnce
<1>1. ASSUME AuditTrail, AnswersTrue PROVE EditedOnce
  <2> SUFFICES ASSUME NEW c \in Calls, NEW d \in Calls,
                      NEW e \in Recorded(c), NEW f \in Recorded(d),
                      req[c].key = req[d].key, req[c].expected = req[d].expected
               PROVE  c = d
    BY DEF EditedOnce
  <2>1. PICK p \in Products, i \in Nat :
           i \in 1..Len(audit[p]) /\ e = <<p, i>> /\ audit[p][i].request = c
    BY <1>1 DEF Recorded, AuditTrail, AuditComplete
  <2>2. PICK q \in Products, j \in Nat :
           j \in 1..Len(audit[q]) /\ f = <<q, j>> /\ audit[q][j].request = d
    BY <1>1 DEF Recorded, AuditTrail, AuditComplete
  <2>3. p = q /\ audit[p][i].old = audit[q][j].old
    BY <1>1, <2>1, <2>2 DEF AnswersTrue
  <2>4. audit[p][i].old = i - 1 /\ audit[q][j].old = j - 1
    BY <1>1, <2>1, <2>2 DEF AuditTrail, AuditComplete
  <2>5. i - 1 = j - 1
    BY <2>3, <2>4
  <2>6. i = j
    BY <2>1, <2>2, <2>5
  <2> QED BY <2>1, <2>2, <2>3, <2>6
<1> QED BY <1>1, AuditIsComplete, AnswersAreTrue, PTL
----------------------------------------------------------------------------
(* CatalogSave implements CatalogStore: a call takes effect at its commit. *)

\* CatalogStore has the operators of Catalog a second time.
LEMMA SameCatalog ==
    /\ Store!Requests = Requests
    /\ Store!Refusals = Refusals
    /\ \A r : /\ Store!Creates(r) <=> Creates(r)
              /\ Store!Positions(r) = Positions(r)
              /\ \A i : Store!Names(r, i) <=> Names(r, i)
    /\ \A d : Store!ValidDraft(d) <=> ValidDraft(d)
    /\ \A vs : Store!UniqueSkus(vs) <=> UniqueSkus(vs)
    /\ \A r, ps, vs, reqs : Store!Fresh(r, ps, vs, reqs) <=> Fresh(r, ps, vs, reqs)
<1>1. \A r : /\ Store!Creates(r) <=> Creates(r)
             /\ Store!Positions(r) = Positions(r)
             /\ \A i : Store!Names(r, i) <=> Names(r, i)
  BY Zenon DEF Store!Creates, Creates, Store!Positions, Positions, Store!Names, Names
<1>2. Store!Refusals = Refusals
  BY Zenon DEF Store!Refusals, Refusals
<1>3. \A d : Store!ValidDraft(d) <=> ValidDraft(d)
  BY Zenon DEF Store!ValidDraft, ValidDraft
<1>4. Store!Requests = Requests
  BY Zenon DEF Store!Requests, Requests, Store!Ask, Ask, Store!ValidDraft, ValidDraft,
     Store!Creates, Creates, Store!Positions, Positions, Store!Names, Names
<1>5. \A vs : Store!UniqueSkus(vs) <=> UniqueSkus(vs)
  BY Zenon DEF Store!UniqueSkus, UniqueSkus
<1>6. \A r, ps, vs, reqs : Store!Fresh(r, ps, vs, reqs) <=> Fresh(r, ps, vs, reqs)
  BY Zenon DEF Store!Fresh, Fresh, Store!DrawnProducts, DrawnProducts, Store!DrawnVariants,
     DrawnVariants, Store!Asking, Asking, Store!Creates, Creates, Store!Positions, Positions,
     Store!Names, Names
<1> QED
  BY <1>1, <1>2, <1>3, <1>4, <1>5, <1>6

\* A call in the loop names categories that are there.
CategoriesKnown ==
    \A c \in Calls : pc[c] = "variants" => req[c].draft.content \notin UnknownCategories

\* The items passed have left their rows; a row is that of the last item that
\* names its variant, however the draft spells it.
LastItem(c, v, i) ==
    /\ i \in Positions(req[c]) /\ i < next[c] /\ req[c].keys[i] = v
    /\ \A j \in Positions(req[c]) : (j < next[c] /\ req[c].keys[j] = v) => j <= i

RowsOfItems ==
    \A c \in Calls : pc[c] = "variants" =>
        /\ \A j \in Positions(req[c]) :
              j < next[c] => newVariants[c][req[c].keys[j]] # Absent
        /\ \A v \in Variants : newVariants[c][v] # Absent =>
              \E i \in Positions(req[c]) :
                 /\ LastItem(c, v, i)
                 /\ newVariants[c][v] = [product |-> req[c].key,
                                         sku |-> req[c].draft.items[i].sku,
                                         active |-> req[c].draft.items[i].active]

\* The variants its passed items name are committed, and the product's.
NamedOwned ==
    \A c \in Calls : pc[c] = "variants" =>
        \A j \in Positions(req[c]) : (j < next[c] /\ Names(req[c], j)) =>
            /\ variants[req[c].keys[j]] # Absent
            /\ variants[req[c].keys[j]].product = req[c].key

CInv == RInv /\ CategoriesKnown /\ RowsOfItems /\ NamedOwned

\* Every step keeps CategoriesKnown: categories are never removed.
LEMMA CategoriesKnownStep ==
    ASSUME CInv, NEW c \in Calls, Action(c)
    PROVE  CategoriesKnown'
<1> USE DEF CInv, RInv, IInv, TypeOK, CategoriesKnown
<1>1. CASE Begin(c)
  BY <1>1, BeginFresh
<1>2. CASE PutProduct(c)
  BY <1>2 DEF PutProduct, Goto, Asked
<1>3. CASE Reject(c) \/ Ended(c) \/ Commit(c)
  BY <1>3 DEF Reject, Ended, RollBack, Commit, Goto
<1>4. CASE Acquire(c) \/ Pass(c) \/ PutVariant(c) \/ TimeOut(c)
  BY <1>4 DEF Acquire, Pass, PutVariant, TimeOut, Goto
<1> QED
  BY <1>1, <1>2, <1>3, <1>4 DEF Action

\* A step of another kind leaves a call in the loop where it is.
LEMMA LoopKept ==
    ASSUME IInv, NEW c \in Calls, Action(c), NEW d \in Calls, pc'[d] = "variants",
           ~(PutVariant(c) /\ d = c)
    PROVE  \/ /\ pc[d] = "variants" /\ req'[d] = req[d] /\ next'[d] = next[d]
              /\ newVariants'[d] = newVariants[d]
           \/ /\ req'[d] = req[d] /\ next'[d] = 1 /\ newVariants'[d] = NoVariants
<1> USE DEF IInv, TypeOK
<1>1. CASE Begin(c)
  BY <1>1, BeginFresh DEF writes
<1>2. CASE PutProduct(c)
  BY <1>2 DEF PutProduct, Goto, Asking_, Writing
<1>3. CASE Reject(c) \/ Ended(c) \/ Commit(c)
  BY <1>3 DEF Reject, Ended, RollBack, Commit, Goto, writes
<1>4. CASE Acquire(c) \/ Pass(c) \/ PutVariant(c) \/ TimeOut(c)
  BY <1>4 DEF Acquire, Pass, PutVariant, TimeOut, Goto, writes
<1> QED
  BY <1>1, <1>2, <1>3, <1>4 DEF Action

\* A turn of the loop goes to the next item.
LEMMA NextItem ==
    ASSUME IInv, NEW c \in Calls, PutVariant(c)
    PROVE  /\ pc[c] = "variants" /\ req' = req /\ req[c] \in Requests
           /\ next[c] \in Nat /\ next'[c] = next[c] + 1
<1>1. pc[c] = "variants" /\ req' = req /\ next' = [next EXCEPT ![c] = @ + 1]
  BY DEF PutVariant
<1>2. req[c] \in Requests
  BY <1>1, Asked_ DEF Running
<1>3. next \in [Calls -> 1..MaxItems + 1] /\ MaxItems \in Nat
  BY CatalogAssumption DEF IInv, TypeOK
<1> QED
  BY <1>1, <1>2, <1>3

\* Every step keeps RowsOfItems.
LEMMA RowsOfItemsStep ==
    ASSUME CInv, NEW c \in Calls, Action(c)
    PROVE  RowsOfItems'
<1>i. IInv
  BY DEF CInv, RInv
<1> SUFFICES ASSUME NEW d \in Calls, pc'[d] = "variants"
             PROVE  /\ \A j \in Positions(req'[d]) :
                          j < next'[d] => newVariants'[d][req'[d].keys[j]] # Absent
                    /\ \A v \in Variants : newVariants'[d][v] # Absent =>
                          \E i \in Positions(req'[d]) :
                             /\ LastItem(d, v, i)'
                             /\ newVariants'[d][v] = [product |-> req'[d].key,
                                   sku |-> req'[d].draft.items[i].sku,
                                   active |-> req'[d].draft.items[i].active]
  BY DEF RowsOfItems
<1>1. CASE PutVariant(c) /\ d = c
  <2>1. /\ pc[c] = "variants" /\ req' = req /\ next'[c] = next[c] + 1
        /\ next[c] \in Nat /\ req[c] \in Requests
    BY <1>1, <1>i, NextItem
  <2>2. ASSUME NEW j \in Positions(req[c])
        PROVE  j \in Nat /\ req[c].keys[j] \in Variants
    BY <2>1, RequestParts DEF Positions
  <2>n. PICK n \in Nat : n = next[c]
    BY <2>1
  <2>k. PICK k \in Variants : k = ThisKey(c)
    BY <1>1, <1>i, KeyOwned
  <2>3. /\ n \in Positions(req[c]) /\ k = req[c].keys[n] /\ k \in Variants
        /\ Upsert(c) # Absent
        /\ Upsert(c) = [product |-> req[c].key, sku |-> req[c].draft.items[n].sku,
                        active |-> req[c].draft.items[n].active]
    <3>1. Upsert(c).product = req[c].key
      BY <1>1, <1>i, KeyOwned
    <3>2. Upsert(c) = [product |-> Upsert(c).product, sku |-> ThisItem(c).sku,
                       active |-> ThisItem(c).active]
      BY DEF Upsert
    <3>3. ThisItem(c) = req[c].draft.items[n]
      BY <2>n DEF ThisItem, Asked
    <3> QED
      BY <1>1, <1>i, <2>n, <2>k, <3>1, <3>2, <3>3, KeyOwned
  <2>4. \A v \in Variants :
           newVariants'[c][v] = IF v = k THEN Upsert(c) ELSE newVariants[c][v]
    BY <1>1, <1>i, <2>k, PutVariantRows
  <2>5. ASSUME NEW j \in Positions(req[c]), j < n + 1
        PROVE  newVariants'[c][req[c].keys[j]] # Absent
    <3>1. CASE j = n
      BY <2>2, <2>3, <2>4, <3>1
    <3>2. CASE j < n
      <4>1. newVariants[c][req[c].keys[j]] # Absent
        BY <2>1, <2>n, <3>2 DEF CInv, RowsOfItems
      <4> QED
        BY <2>2, <2>3, <2>4, <4>1
    <3> QED
      BY <2>1, <2>2, <2>5, <3>1, <3>2
  <2>6. ASSUME NEW v \in Variants, newVariants'[c][v] # Absent
        PROVE  \E i \in Positions(req[c]) :
                  /\ LastItem(c, v, i)'
                  /\ newVariants'[c][v] = [product |-> req[c].key,
                        sku |-> req[c].draft.items[i].sku,
                        active |-> req[c].draft.items[i].active]
    <3>1. CASE v = k
      <4>1. LastItem(c, v, n)'
        BY <2>1, <2>2, <2>3, <2>n, <3>1 DEF LastItem
      <4> QED
        BY <2>3, <2>4, <3>1, <4>1
    <3>2. CASE v # k
      <4>1. PICK i \in Positions(req[c]) :
               /\ LastItem(c, v, i)
               /\ newVariants[c][v] = [product |-> req[c].key,
                     sku |-> req[c].draft.items[i].sku,
                     active |-> req[c].draft.items[i].active]
        BY <2>1, <2>4, <2>6, <3>2 DEF CInv, RowsOfItems
      <4>2. /\ i \in Positions(req[c]) /\ i < n /\ req[c].keys[i] = v
            /\ \A j \in Positions(req[c]) : (j < n /\ req[c].keys[j] = v) => j <= i
        BY <2>n, <4>1 DEF LastItem
      <4>3. i < n + 1
        BY <2>2, <2>n, <4>2
      <4>4. ASSUME NEW j \in Positions(req[c]), j < n + 1, req[c].keys[j] = v PROVE j <= i
        <5>1. j # n
          BY <2>3, <3>2, <4>4
        <5>2. j < n
          BY <2>2, <2>n, <4>4, <5>1
        <5> QED
          BY <4>2, <4>4, <5>2
      <4>5. LastItem(c, v, i)'
        BY <2>1, <2>n, <4>2, <4>3, <4>4 DEF LastItem
      <4> QED
        BY <2>4, <3>2, <4>1, <4>5
    <3> QED
      BY <3>1, <3>2
  <2> QED
    BY <1>1, <2>1, <2>5, <2>6, <2>n
<1>2. CASE ~(PutVariant(c) /\ d = c)
  <2>1. CASE /\ pc[d] = "variants" /\ req'[d] = req[d] /\ next'[d] = next[d]
             /\ newVariants'[d] = newVariants[d]
    BY <2>1 DEF CInv, RowsOfItems, LastItem
  <2>2. CASE req'[d] = req[d] /\ next'[d] = 1 /\ newVariants'[d] = NoVariants
    BY <2>2 DEF NoVariants, Positions
  <2> QED
    BY <1>i, <1>2, <2>1, <2>2, LoopKept
<1> QED
  BY <1>1, <1>2

\* Every step keeps NamedOwned: no commit takes a variant from its product.
LEMMA NamedOwnedStep ==
    ASSUME CInv, NEW c \in Calls, Action(c)
    PROVE  NamedOwned'
<1>i. IInv
  BY DEF CInv, RInv
<1> SUFFICES ASSUME NEW d \in Calls, pc'[d] = "variants", NEW j \in Positions(req'[d]),
                    j < next'[d], Names(req'[d], j)
             PROVE  /\ variants'[req'[d].keys[j]] # Absent
                    /\ variants'[req'[d].keys[j]].product = req'[d].key
  BY DEF NamedOwned
<1>1. ASSUME NEW v \in Variants, variants[v] # Absent
      PROVE  variants'[v] # Absent /\ variants'[v].product = variants[v].product
  BY <1>i, <1>1, VariantChange
<1>2. CASE PutVariant(c) /\ d = c
  <2>1. /\ pc[c] = "variants" /\ req' = req /\ next'[c] = next[c] + 1
        /\ next[c] \in Nat /\ req[c] \in Requests
    BY <1>2, <1>i, NextItem
  <2>2. j \in Nat /\ req[c].keys[j] \in Variants
    BY <1>2, <2>1, RequestParts DEF Positions
  <2>3. CASE j = next[c]
    <3>1. req[c].keys[j] = ThisKey(c) /\ Seen(c, ThisKey(c)) # Absent
      BY <1>2, <1>i, <2>1, <2>3, KeyOwned
    <3>2. CASE newVariants[c][ThisKey(c)] = Absent
      <4>1. variants[ThisKey(c)] # Absent
        BY <3>1, <3>2 DEF Seen
      <4> QED
        BY <1>1, <1>2, <1>i, <2>1, <2>2, <3>1, <4>1, KeyOwned
    <3>3. CASE newVariants[c][ThisKey(c)] # Absent
      <4>1. PICK i \in Positions(req[c]) : LastItem(c, ThisKey(c), i)
        BY <2>1, <2>2, <3>1, <3>3 DEF CInv, RowsOfItems
      <4>2. i # j /\ i < next[c] /\ req[c].keys[i] = req[c].keys[j]
        BY <2>1, <2>3, <3>1, <4>1 DEF LastItem, Positions
      <4>3. Names(req[c], i)
        BY <1>2, <2>1, <4>2, RequestParts
      <4>4. variants[req[c].keys[j]] # Absent /\ variants[req[c].keys[j]].product = req[c].key
        BY <2>1, <4>2, <4>3 DEF CInv, NamedOwned
      <4> QED
        BY <1>1, <1>2, <2>1, <2>2, <4>4
    <3> QED
      BY <3>2, <3>3
  <2>4. CASE j # next[c]
    <3>1. j < next[c]
      BY <1>2, <2>1, <2>2, <2>4
    <3>2. variants[req[c].keys[j]] # Absent /\ variants[req[c].keys[j]].product = req[c].key
      BY <1>2, <2>1, <3>1 DEF CInv, NamedOwned
    <3> QED
      BY <1>1, <1>2, <2>1, <2>2, <3>2
  <2> QED
    BY <2>3, <2>4
<1>3. CASE ~(PutVariant(c) /\ d = c)
  <2>1. CASE /\ pc[d] = "variants" /\ req'[d] = req[d] /\ next'[d] = next[d]
             /\ newVariants'[d] = newVariants[d]
    <3>1. req[d].keys[j] \in Variants
      BY <1>i, <2>1, Asked_, RequestParts DEF Running
    <3>2. variants[req[d].keys[j]] # Absent /\ variants[req[d].keys[j]].product = req[d].key
      BY <2>1 DEF CInv, NamedOwned
    <3> QED
      BY <1>1, <2>1, <3>1, <3>2
  <2>2. CASE req'[d] = req[d] /\ next'[d] = 1 /\ newVariants'[d] = NoVariants
    BY <2>2 DEF Positions
  <2> QED
    BY <1>i, <1>3, <2>1, <2>2, LoopKept
<1> QED
  BY <1>2, <1>3
----------------------------------------------------------------------------
\* What a call that ends or begins, and no other, does to the set of open calls.
Open == [d \in Calls |-> Running(d)]

LEMMA OpenStep ==
    ASSUME IInv, NEW c \in Calls, Action(c)
    PROVE  /\ Open[c] <=> Running(c)
           /\ ~Running(c)' => Open' = [Open EXCEPT ![c] = FALSE]
           /\ Running(c)' => Open' = [Open EXCEPT ![c] = TRUE]
           /\ (Running(c)' <=> Running(c)) => Open' = Open
<1>1. \A d \in Calls \ {c} : pc'[d] = pc[d]
  BY BeginFresh, ReqStep DEF IInv, TypeOK
<1>2. \A d \in Calls : Running(d) \in BOOLEAN /\ Running(d)' \in BOOLEAN
  BY DEF Running
<1>3. \A d \in Calls \ {c} : Running(d)' <=> Running(d)
  BY <1>1 DEF Running
<1>4. Open = [d \in Calls |-> Running(d)] /\ Open' = [d \in Calls |-> Running(d)']
  BY DEF Open
<1>5. \A d \in Calls : (Open[d] <=> Running(d)) /\ (Open'[d] <=> Running(d)')
  BY <1>4
<1>6. Open \in [Calls -> BOOLEAN] /\ Open' \in [Calls -> BOOLEAN]
  BY <1>2, <1>4
<1>7. ASSUME ~Running(c)' PROVE Open' = [Open EXCEPT ![c] = FALSE]
  BY <1>3, <1>5, <1>6, <1>7
<1>8. ASSUME Running(c)' PROVE Open' = [Open EXCEPT ![c] = TRUE]
  BY <1>3, <1>5, <1>6, <1>8
<1>9. ASSUME Running(c)' <=> Running(c) PROVE Open' = Open
  BY <1>3, <1>5, <1>6, <1>9
<1> QED
  BY <1>5, <1>7, <1>8, <1>9

\* A running call that fails for a reason CatalogStore grants is refused.
LEMMA RefusalGranted ==
    ASSUME IInv, NEW c \in Calls, Running(c), NEW why \in Store!Grounds(req[c]),
           RollBack(c, why), Action(c)
    PROVE  Store!Refuse(c)
<1>1. ~Running(c)'
  BY DEF RollBack, Goto, Running, IInv, TypeOK
<1>2. UNCHANGED <<tables, req>> /\ Tell(c, why)
  BY DEF RollBack
<1>3. Open[c] /\ Open' = [Open EXCEPT ![c] = FALSE]
  BY <1>1, OpenStep
<1> QED
  BY <1>2, <1>3 DEF Store!Refuse, Store!Tell, Tell, Open, Store!tables, tables

\* One that fails without a reason is dropped.
LEMMA FailureDropped ==
    ASSUME IInv, NEW c \in Calls, Running(c), RollBack(c, "DATABASE_UNAVAILABLE"), Action(c)
    PROVE  Store!Drop(c)
<1>1. ~Running(c)'
  BY DEF RollBack, Goto, Running, IInv, TypeOK
<1>2. UNCHANGED <<tables, req>> /\ Tell(c, "DATABASE_UNAVAILABLE")
  BY DEF RollBack
<1>3. Open[c] /\ Open' = [Open EXCEPT ![c] = FALSE]
  BY <1>1, OpenStep
<1> QED
  BY <1>2, <1>3 DEF Store!Drop, Store!Tell, Tell, Open, Store!tables, tables

\* What the item a call is at says of its request.
LEMMA ItemAt ==
    ASSUME CInv, NEW c \in Calls, pc[c] = "variants", next[c] <= Len(Asked(c).items)
    PROVE  LET i == next[c] IN
           /\ i \in Store!Positions(req[c])
           /\ ThisItem(c) = req[c].draft.items[i] /\ ThisKey(c) = req[c].keys[i]
           /\ ThisKey(c) \in Variants
           /\ \A v \in Variants : newVariants[c][v] # Absent =>
                 /\ newVariants[c][v].product = req[c].key
                 /\ newVariants[c][v].sku # ThisItem(c).sku
<1>i. IInv /\ req[c] \in Requests
  BY Asked_ DEF CInv, RInv, Running
<1>1. next[c] \in Positions(req[c]) /\ ThisKey(c) \in Variants
  BY <1>i, ItemParts
<1>2. ThisItem(c) = req[c].draft.items[next[c]] /\ ThisKey(c) = req[c].keys[next[c]]
  BY DEF ThisItem, ThisKey, Asked
<1>3. ASSUME NEW v \in Variants, newVariants[c][v] # Absent
      PROVE  newVariants[c][v].product = req[c].key /\ newVariants[c][v].sku # ThisItem(c).sku
  <2>1. PICK i \in Positions(req[c]) :
           /\ LastItem(c, v, i)
           /\ newVariants[c][v] = [product |-> req[c].key,
                 sku |-> req[c].draft.items[i].sku,
                 active |-> req[c].draft.items[i].active]
    BY <1>3 DEF CInv, RowsOfItems
  <2>2. i # next[c]
    BY <1>1, <2>1 DEF LastItem, Positions
  <2>3. req[c].draft.items[i].sku # req[c].draft.items[next[c]].sku
    BY <1>i, <1>1, <2>2, RequestParts DEF ValidDraft, Positions
  <2> QED
    BY <1>2, <2>1, <2>3
<1> QED
  BY <1>1, <1>2, <1>3, SameCatalog

\* Every refusal of catalog_save is true of the tables as they are.
LEMMA LockRefusal ==
    ASSUME CInv, NEW c \in Calls, pc[c] = "lock", products[req[c].key] = Absent
    PROVE  "NOT_FOUND" \in Store!Grounds(req[c])
BY SameCatalog DEF CInv, RInv, IInv, Asking_, Store!Grounds, Store!Refusals

\* The revision that was read, against the one expected.
LEMMA CheckRefusal ==
    ASSUME CInv, NEW c \in Calls, pc[c] = "check", Stale(c)
    PROVE  "REVISION_CONFLICT" \in Store!Grounds(req[c])
<1>1. ~Creates(req[c]) /\ products[req[c].key] # Absent
  BY DEF CInv, RInv, IInv, Asking_, RowLocked
<1> QED
  BY <1>1, SameCatalog DEF Stale, Store!Current, Store!Grounds, Store!Refusals

\* The slug of another product.
LEMMA SlugRefusal ==
    ASSUME NEW c \in Calls, SlugTaken(c)
    PROVE  "DUPLICATE_SLUG_OR_SKU" \in Store!Grounds(req[c])
BY DEF SlugTaken, Store!SlugTaken, Asked, Store!Grounds, Store!Refusals

\* A category or a medium that is not there.
LEMMA ReferenceRefusal ==
    ASSUME NEW c \in Calls, Asked(c).content \in UnknownCategories \cup UnknownMedia
    PROVE  "INVALID_REFERENCE" \in Store!Grounds(req[c])
BY DEF Asked, Store!Grounds, Store!Refusals

\* A variant of another product.
LEMMA StrangerRefusal ==
    ASSUME CInv, NEW c \in Calls, pc[c] = "variants", next[c] <= Len(Asked(c).items),
           Stranger(c)
    PROVE  "INVALID_REFERENCE" \in Store!Grounds(req[c])
<1>1. /\ next[c] \in Store!Positions(req[c]) /\ Store!Names(req[c], next[c])
      /\ ThisKey(c) = req[c].keys[next[c]] /\ ThisKey(c) \in Variants
  BY ItemAt, SameCatalog DEF Stranger, Names
<1>2. newVariants[c][ThisKey(c)] = Absent
  BY <1>1, ItemAt DEF Stranger, Seen
<1>3. \/ variants[ThisKey(c)] = Absent
      \/ variants[ThisKey(c)].product # req[c].key
  BY <1>2 DEF Stranger, Seen
<1>4. Store!Stranger(req[c])
  BY <1>1, <1>3 DEF Store!Stranger
<1> QED
  BY <1>4 DEF Store!Grounds, Store!Refusals

\* The SKU of another variant.
LEMMA SkuRefusal ==
    ASSUME CInv, NEW c \in Calls, pc[c] = "variants", next[c] <= Len(Asked(c).items),
           SkuTaken(c)
    PROVE  "DUPLICATE_SLUG_OR_SKU" \in Store!Grounds(req[c])
<1>1. PICK v \in Variants \ {ThisKey(c)} :
         Seen(c, v) # Absent /\ Seen(c, v).sku = ThisItem(c).sku
  BY DEF SkuTaken
<1>2. newVariants[c][v] = Absent
  BY <1>1, ItemAt DEF Seen
<1>3. variants[v] # Absent /\ variants[v].sku = ThisItem(c).sku
  BY <1>1, <1>2 DEF Seen
<1>4. /\ next[c] \in Store!Positions(req[c])
      /\ ThisItem(c) = req[c].draft.items[next[c]] /\ ThisKey(c) = req[c].keys[next[c]]
  BY ItemAt
<1>5. Store!SkuTaken(req[c])
  BY <1>1, <1>3, <1>4 DEF Store!SkuTaken
<1> QED
  BY <1>5 DEF Store!Grounds, Store!Refusals

\* What a commit leaves of a variant is what CatalogStore saves.
LEMMA CommittedSaved ==
    ASSUME CInv, NEW c \in Calls, Commit(c), NEW v \in Variants
    PROVE  Committed(c, v) = Store!Saved(req[c], v)
<1> DEFINE r == req[c]
<1>i. IInv /\ r \in Requests /\ pc[c] = "variants"
  BY Asked_ DEF CInv, RInv, Running, Commit
<1>1. \A j \in Positions(r) : j \in Nat /\ j < next[c]
  <2>1. next[c] \in Nat /\ next[c] > Len(r.draft.items) /\ Len(r.draft.items) \in Nat
    BY <1>i, RequestParts, CatalogAssumption DEF IInv, TypeOK, Commit, Asked
  <2> QED
    BY <2>1 DEF Positions
<1>2. CASE newVariants[c][v] # Absent
  <2>1. PICK i \in Positions(r) :
           /\ LastItem(c, v, i)
           /\ newVariants[c][v] = [product |-> r.key, sku |-> r.draft.items[i].sku,
                                   active |-> r.draft.items[i].active]
    BY <1>i, <1>2 DEF CInv, RowsOfItems
  <2>2. v \in Store!Written(r)
    BY <2>1, SameCatalog DEF Store!Written, LastItem
  <2>3. i = CHOOSE k \in Store!Positions(r) :
               /\ r.keys[k] = v
               /\ \A j \in Store!Positions(r) : r.keys[j] = v => j <= k
    BY <1>1, <2>1, SameCatalog DEF LastItem
  <2> QED
    BY <1>2, <2>1, <2>2, <2>3 DEF Committed, Store!Saved
<1>3. CASE newVariants[c][v] = Absent
  <2>1. v \notin Store!Written(r)
    <3>1. ASSUME NEW j \in Positions(r), v = r.keys[j] PROVE FALSE
      BY <1>i, <1>1, <1>3, <3>1 DEF CInv, RowsOfItems
    <3> QED
      BY <3>1, SameCatalog DEF Store!Written
  <2> QED
    BY <1>3, <2>1 DEF Committed, Store!Saved
<1> QED
  BY <1>2, <1>3

\* A commit is the instant at which its call takes effect.
LEMMA CommitApplies ==
    ASSUME CInv, NEW c \in Calls, Commit(c), Action(c)
    PROVE  Store!Apply(c)
<1> DEFINE r == req[c]
<1>i. /\ IInv /\ r \in Requests /\ pc[c] = "variants" /\ Running(c)
      /\ newProduct[c] # Absent /\ r.key \in Products
  BY Asked_, RequestParts DEF CInv, RInv, IInv, Running, Commit, Writing
<1>1. /\ previous[c] = Store!Current(r) /\ previous[c] = r.expected
      /\ previous[c] < MaxRevision /\ (Creates(r) \/ products[r.key] # Absent)
  <2>1. previous[c] = IF Creates(r) THEN 0 ELSE products[r.key].revision
    BY <1>i DEF IInv, RowLocked
  <2>2. previous[c] = Store!Current(r)
    BY <2>1, SameCatalog DEF Store!Current
  <2>3. previous[c] = r.expected /\ previous[c] < MaxRevision
    BY <1>i DEF CInv, RInv, ReadAsExpected, IInv, RowWritten
  <2>4. Creates(r) \/ products[r.key] # Absent
    BY <1>i DEF IInv, RowLocked
  <2> QED
    BY <2>2, <2>3, <2>4
<1>2. newProduct[c] = [slug |-> r.draft.slug, status |-> r.draft.status,
                       content |-> r.draft.content, revision |-> Store!Current(r) + 1]
  BY <1>i, <1>1 DEF IInv, RowWritten
<1>3. ~Store!SlugTaken(r)
  BY <1>i, <1>2 DEF IInv, SlugsReserved, Store!SlugTaken
<1>4. ~Store!Stranger(r)
  <2>1. \A j \in Positions(r) : j < next[c]
    <3>1. next[c] \in Nat /\ next[c] > Len(r.draft.items) /\ Len(r.draft.items) \in Nat
      BY <1>i, RequestParts, CatalogAssumption DEF IInv, TypeOK, Commit, Asked
    <3> QED
      BY <3>1 DEF Positions
  <2> QED
    BY <1>i, <2>1, SameCatalog DEF CInv, NamedOwned, Store!Stranger
<1>5. r.draft.content \notin UnknownCategories \cup UnknownMedia
  BY <1>i DEF CInv, CategoriesKnown, Commit, Asked
<1>6. Store!Savable(r)
  BY <1>1, <1>3, <1>4, <1>5, SameCatalog DEF Store!Savable
<1>7. variants' = [v \in Variants |-> Store!Saved(r, v)]
  BY CommittedSaved DEF Commit
<1>8. Store!UniqueSkus(variants')
  BY <1>i, KeysUniqueStep, SameCatalog DEF KeysUnique
<1>9. audit' = [audit EXCEPT ![r.key] =
         Append(@, [request |-> c, old |-> Store!Current(r), new |-> Store!Current(r) + 1])]
  <2>1. newProduct[c].revision = Store!Current(r) + 1
    BY <1>2
  <2> QED
    BY <1>1, <2>1 DEF Commit
<1>10. ~Running(c)'
  BY <1>i DEF Commit, Goto, Running, IInv, TypeOK
<1>11. Open[c] /\ Open' = [Open EXCEPT ![c] = FALSE]
  BY <1>i, <1>10, OpenStep
<1>12. /\ products' = [products EXCEPT ![r.key] =
            [slug |-> r.draft.slug, status |-> r.draft.status,
             content |-> r.draft.content, revision |-> Store!Current(r) + 1]]
       /\ Store!Tell(c, "OK") /\ UNCHANGED req
  BY <1>2 DEF Commit, Tell, Store!Tell
<1> QED
  BY <1>6, <1>7, <1>8, <1>9, <1>11, <1>12 DEF Store!Apply, Open

\* Every step of a call is one of CatalogStore's, or invisible there.
LEMMA StepStore ==
    ASSUME CInv, [Next]_vars
    PROVE  [Store!Next]_(Store!vars)
<1>i. IInv
  BY DEF CInv, RInv
<1>s. ASSUME NEW c \in Calls, Action(c), UNCHANGED <<tables, req, reply>>,
             Running(c)' <=> Running(c)
      PROVE  UNCHANGED Store!vars
  BY <1>i, <1>s, OpenStep DEF Store!vars, tables, Open
<1>1. ASSUME NEW c \in Calls, Begin(c) PROVE Store!Submit(c)
  <2>1. /\ Action(c) /\ pc[c] = "idle" /\ reply[c] = "none"
        /\ reply' = [reply EXCEPT ![c] = "waiting"]
    BY <1>1, <1>i DEF Action, Begin, IInv, Asking_
  <2>2. /\ req'[c] \in Requests /\ Fresh(req'[c], products, variants, req)
        /\ req' = [req EXCEPT ![c] = req'[c]] /\ UNCHANGED tables
        /\ Running(c)'
    BY <1>1, <1>i, BeginFresh DEF Running, IInv, TypeOK
  <2>3. Open' = [Open EXCEPT ![c] = TRUE]
    BY <1>i, <2>1, <2>2, OpenStep
  <2> QED
    BY <2>1, <2>2, <2>3, SameCatalog DEF Store!Submit, Store!tables, tables, Open
<1>2. ASSUME NEW c \in Calls, Reject(c) PROVE Store!Reject(c)
  <2>1. Action(c) /\ reply[c] = "none" /\ ~Running(c) /\ ~Running(c)'
    BY <1>2, <1>i DEF Action, Reject, Goto, Running, IInv, TypeOK, Asking_
  <2>2. Open' = Open
    BY <1>i, <2>1, OpenStep
  <2> QED
    BY <1>2, <2>1, <2>2, SameCatalog DEF Reject, Store!Reject, Store!tables, tables, Open
<1>3. ASSUME NEW c \in Calls, Step(c), ~Commit(c)
      PROVE  Store!Refuse(c) \/ Store!Drop(c) \/ UNCHANGED Store!vars
  <2>0. Next
    BY <1>3 DEF Next
  <2>1. Running(c)
    BY <1>3 DEF Step, Lock, Check, WriteProduct, WriteVariant, Finish, Running
  <2>2. ASSUME NEW why \in Failures, RollBack(c, why) PROVE Action(c)
    BY <2>1, <2>2 DEF Action, Ended
  <2>3. ASSUME NEW why \in Store!Grounds(req[c]), RollBack(c, why) PROVE Store!Refuse(c)
    <3>1. why \in Failures
      BY SameCatalog DEF Store!Grounds, Failures
    <3> QED
      BY <1>i, <2>1, <2>2, <2>3, <3>1, RefusalGranted
  <2>4. CASE Lock(c)
    <3>1. CASE Acquire(c)
      BY <1>i, <1>s, <3>1 DEF Action, Acquire, Goto, Running, IInv, TypeOK
    <3>2. CASE ~Acquire(c)
      BY <2>3, <2>4, <3>2, LockRefusal DEF Lock, Acquire
    <3> QED
      BY <3>1, <3>2
  <2>5. CASE Check(c)
    <3>1. CASE Pass(c)
      BY <1>i, <1>s, <3>1 DEF Action, Pass, Goto, Running, IInv, TypeOK
    <3>2. CASE ~Pass(c)
      BY <2>3, <2>5, <3>2, CheckRefusal DEF Check, Pass
    <3> QED
      BY <3>1, <3>2
  <2>6. CASE WriteProduct(c)
    <3>1. CASE PutProduct(c)
      BY <1>i, <1>s, <3>1 DEF Action, PutProduct, Goto, Running, IInv, TypeOK
    <3>2. CASE RollBack(c, "DATABASE_UNAVAILABLE")
      <4>1. Action(c)
        BY <2>2, <3>2 DEF Failures
      <4> QED
        BY <1>i, <2>1, <3>2, <4>1, FailureDropped
    <3>3. CASE ~PutProduct(c) /\ ~RollBack(c, "DATABASE_UNAVAILABLE")
      BY <2>3, <2>6, <3>3, SlugRefusal, ReferenceRefusal DEF WriteProduct, PutProduct
    <3> QED
      BY <3>1, <3>2, <3>3
  <2>7. CASE WriteVariant(c)
    <3>1. CASE PutVariant(c)
      BY <1>i, <1>s, <3>1 DEF Action, PutVariant, Running
    <3>2. CASE ~PutVariant(c)
      BY <2>3, <2>7, <3>2, StrangerRefusal, SkuRefusal DEF WriteVariant, PutVariant
    <3> QED
      BY <3>1, <3>2
  <2>8. CASE Finish(c)
    BY <1>3, <2>3, <2>8, ReferenceRefusal DEF Finish, Commit
  <2> QED
    BY <1>3, <2>4, <2>5, <2>6, <2>7, <2>8 DEF Step
<1>4. ASSUME NEW c \in Calls, Commit(c) PROVE Store!Apply(c)
  BY <1>4, CommitApplies DEF Action
<1>5. ASSUME NEW c \in Calls, BreakDeadlock(c) \/ Crash(c) PROVE Store!Drop(c)
  <2>1. Running(c) /\ RollBack(c, "DATABASE_UNAVAILABLE")
    BY <1>5 DEF BreakDeadlock, Deadlocked, WaitsFor, Running, Crash
  <2>2. Action(c)
    BY <2>1 DEF Action, Ended, Failures
  <2> QED
    BY <1>i, <2>1, <2>2, FailureDropped
<1>6. ASSUME NEW c \in Calls, TimeOut(c) PROVE Store!GiveUp(c)
  <2>1. Action(c) /\ Running(c) /\ Running(c)'
    BY <1>6 DEF Action, TimeOut, Running
  <2>2. Open' = Open /\ Open[c]
    BY <1>i, <2>1, OpenStep
  <2> QED
    BY <1>6, <2>2 DEF TimeOut, Store!GiveUp, Store!Tell, Tell, Store!tables, tables, Open
<1>7. CASE UNCHANGED vars
  BY <1>7 DEF vars, tables, writes, Store!vars, Running
<1> QED
  BY <1>1, <1>2, <1>3, <1>4, <1>5, <1>6, <1>7, Zenon DEF Next, Store!Next

\* Whatever saves run at once, the database behaves as if each took effect at
\* one instant or not at all: what a save replaces is the revision its client
\* had read, and every refusal is true when it is given.
THEOREM SavesAreAtomic == Spec => StoreSpec
<1>1. Init => CInv /\ Store!Init
  <2> SUFFICES ASSUME Init PROVE CInv /\ Store!Init
    OBVIOUS
  <2>1. RInv
    BY RInvInit
  <2>2. CategoriesKnown /\ RowsOfItems /\ NamedOwned
    BY DEF Init, CategoriesKnown, RowsOfItems, NamedOwned
  <2>3. Store!Init
    BY DEF Init, Store!Init, Running
  <2> QED
    BY <2>1, <2>2, <2>3 DEF CInv
<1>2. CInv /\ [Next]_vars => CInv'
  <2> SUFFICES ASSUME CInv, [Next]_vars PROVE CInv'
    OBVIOUS
  <2>1. RInv'
    BY RInvStep DEF CInv
  <2>2. CASE Next
    BY <2>1, <2>2, Steps, CategoriesKnownStep, RowsOfItemsStep, NamedOwnedStep DEF CInv
  <2>3. CASE UNCHANGED vars
    BY <2>1, <2>3 DEF CInv, CategoriesKnown, RowsOfItems, NamedOwned, LastItem, vars, tables,
                      writes
  <2> QED
    BY <2>2, <2>3
<1>3. CInv /\ [Next]_vars => [Store!Next]_(Store!vars)
  BY StepStore
<1> QED
  BY <1>1, <1>2, <1>3, PTL DEF Spec, StoreSpec, Store!Spec
=============================================================================
