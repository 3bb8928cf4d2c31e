---------------------------- MODULE CatalogStore ----------------------------
(***************************************************************************)
(* What the save endpoints of the catalog promise: a call takes effect at  *)
(* one instant or not at all, what it replaces is exactly the revision the *)
(* client had read, and each refusal is true of the tables at the instant  *)
(* it is given.  A call that was answered 503 DATABASE_UNAVAILABLE may     *)
(* still take effect, once.                                                *)
(***************************************************************************)
EXTENDS Catalog

VARIABLES
    products, variants, audit,  \* the tables
    req,                        \* what each call asked for
    open,                       \* whether the call may still take effect
    reply                       \* what the call was told

vars == <<products, variants, audit, req, open, reply>>
tables == <<products, variants, audit>>

Init ==
    /\ \E db \in Databases : /\ products = db.products
                             /\ variants = db.variants
                             /\ audit = db.audit
    /\ req = [c \in Calls |-> Absent]
    /\ open = [c \in Calls |-> FALSE]
    /\ reply = [c \in Calls |-> "none"]

\* The last word is the database's unless the call was given up before.
Tell(c, what) ==
    reply' = [reply EXCEPT ![c] = IF @ = "waiting" THEN what ELSE @]

Submit(c) ==
    /\ reply[c] = "none"
    /\ open' = [open EXCEPT ![c] = TRUE]
    /\ reply' = [reply EXCEPT ![c] = "waiting"]
    /\ req'[c] \in Requests
    /\ Fresh(req'[c], products, variants, req)
    /\ req' = [req EXCEPT ![c] = req'[c]]
    /\ UNCHANGED tables

\* A draft the validation rejects never reaches the database.
Reject(c) ==
    /\ reply[c] = "none"
    /\ \E d \in Drafts : ~ValidDraft(d)
    /\ reply' = [reply EXCEPT ![c] = "VALIDATION_FAILED"]
    /\ UNCHANGED <<tables, req, open>>

Current(r) == IF Creates(r) THEN 0 ELSE products[r.key].revision

SlugTaken(r) ==
    \E p \in Products \ {r.key} :
        products[p] # Absent /\ products[p].slug = r.draft.slug

SkuTaken(r) ==
    \E i \in Positions(r), v \in Variants :
        /\ v # r.keys[i]
        /\ variants[v] # Absent
        /\ variants[v].sku = r.draft.items[i].sku

\* A draft may only name variants its product already has.
Stranger(r) ==
    \E i \in Positions(r) :
        /\ Names(r, i)
        /\ \/ variants[r.keys[i]] = Absent
           \/ variants[r.keys[i]].product # r.key

Written(r) == {r.keys[i] : i \in Positions(r)}

\* The row a save leaves for variant v: the last item that writes it, else the
\* row as it was, deactivated when the draft left it out.
Saved(r, v) ==
    IF v \in Written(r)
      THEN LET i == CHOOSE i \in Positions(r) :
                       /\ r.keys[i] = v
                       /\ \A j \in Positions(r) : r.keys[j] = v => j <= i
           IN  [product |-> r.key, sku |-> r.draft.items[i].sku,
                active |-> r.draft.items[i].active]
      ELSE IF variants[v] # Absent /\ variants[v].product = r.key
             THEN [variants[v] EXCEPT !.active = FALSE]
             ELSE variants[v]

Savable(r) ==
    /\ Creates(r) \/ products[r.key] # Absent
    /\ Current(r) = r.expected
    /\ Current(r) < MaxRevision
    /\ ~SlugTaken(r)
    /\ ~Stranger(r)
    /\ r.draft.content \notin UnknownCategories \cup UnknownMedia

Apply(c) ==
    LET r == req[c] IN
    /\ open[c]
    /\ Savable(r)
    /\ products' = [products EXCEPT ![r.key] =
          [slug |-> r.draft.slug, status |-> r.draft.status,
           content |-> r.draft.content, revision |-> Current(r) + 1]]
    /\ variants' = [v \in Variants |-> Saved(r, v)]
    /\ UniqueSkus(variants')
    /\ audit' = [audit EXCEPT ![r.key] =
          Append(@, [request |-> c, old |-> Current(r), new |-> Current(r) + 1])]
    /\ open' = [open EXCEPT ![c] = FALSE]
    /\ Tell(c, "OK")
    /\ UNCHANGED req

\* The grounds on which a call may be refused.
Grounds(r) ==
    {why \in Refusals :
        \/ why = "NOT_FOUND" /\ ~Creates(r) /\ products[r.key] = Absent
        \/ /\ why = "REVISION_CONFLICT"
           /\ ~Creates(r) /\ products[r.key] # Absent
           /\ Current(r) # r.expected
        \/ why = "DUPLICATE_SLUG_OR_SKU" /\ (SlugTaken(r) \/ SkuTaken(r))
        \/ /\ why = "INVALID_REFERENCE"
           /\ \/ Stranger(r)
              \/ r.draft.content \in UnknownCategories \cup UnknownMedia}

Refuse(c) ==
    /\ open[c]
    /\ \E why \in Grounds(req[c]) : Tell(c, why)
    /\ open' = [open EXCEPT ![c] = FALSE]
    /\ UNCHANGED <<tables, req>>

\* The call is abandoned without effect.
Drop(c) ==
    /\ open[c]
    /\ open' = [open EXCEPT ![c] = FALSE]
    /\ Tell(c, "DATABASE_UNAVAILABLE")
    /\ UNCHANGED <<tables, req>>

\* The caller stops waiting; the call goes on.
GiveUp(c) ==
    /\ open[c]
    /\ reply[c] = "waiting"
    /\ Tell(c, "DATABASE_UNAVAILABLE")
    /\ UNCHANGED <<tables, req, open>>

Next ==
    \E c \in Calls :
        \/ Submit(c)
        \/ Reject(c)
        \/ Apply(c)
        \/ Refuse(c)
        \/ Drop(c)
        \/ GiveUp(c)

Spec == Init /\ [][Next]_vars
============================================================================
