----------------------------- MODULE Workspace -----------------------------
(***************************************************************************)
(* The admin workspace (CatalogWorkspace.svelte) with its two forms        *)
(* (ProductEditor.svelte, ReferenceEditor.svelte), in the browsers of      *)
(* several employees, over the save endpoints as CatalogStore specifies    *)
(* them.                                                                   *)
(*                                                                         *)
(* A browser goes on while its requests are under way: the user opens      *)
(* another product, changes the tab or signs out, and answers are heard    *)
(* late, in any order, or never.  A component that is gone from the page   *)
(* still hears its answer and calls its callbacks.                         *)
(***************************************************************************)
EXTENDS Catalog, SequencesExt

CONSTANTS
    Browsers,   \* one employee and one session cookie each
    Slots,      \* what a browser has under way besides saves: a bound
    Text,       \* the text the API prints for the identity of each variant
    Tabs,       \* the tabs employees open
    New         \* null: the editor is open on a product that is not yet there

ASSUME WorkspaceAssumption ==
    /\ Text \in [Variants -> Ids]
    /\ \A v \in Variants : Uuid[Text[v]] = v
    /\ Tabs \subseteq {"products", "references"} /\ "products" \in Tabs
    /\ New # Absent
    /\ Slots \cap Calls = {}
    /\ IsFiniteSet(Variants)

VARIABLES
    products, variants, audit, req, open, reply,    \* as in CatalogStore
    cookie,     \* whether the session of a browser's cookie is valid
    session,    \* what the page believes: session # null
    needsLogin,
    loading,
    rows,       \* the documents in the table
    tab,
    editing,    \* the document the editor is on, New, or Absent: undefined
    form,       \* the state of the mounted ProductEditor, or Absent
    reference,  \* the state of the mounted ReferenceEditor, or Absent
    sent,       \* the saves: what was sent, and who waits for the answer
    fetch       \* the other requests under way

store == <<products, variants, audit, req, open, reply>>
page == <<session, needsLogin, loading, rows, tab, editing, form, reference>>
vars == <<store, cookie, page, sent, fetch>>

Store == INSTANCE CatalogStore
----------------------------------------------------------------------------
(* Documents and drafts.                                                   *)

VariantsRead == [id: Ids, sku: Skus, active: BOOLEAN]
Documents ==
    [key: Products, row: ProductRow,
     variants: {vs \in SUBSET VariantsRead : IsFiniteSet(vs)}]

\* The states of the mounted ProductEditor and ReferenceEditor: expired says
\* that the error shown is the one that asks to sign in again.
Forms == [base: Documents \cup {New}, draft: Draft, busy: BOOLEAN, expired: BOOLEAN]
Editors == [busy: BOOLEAN, expired: BOOLEAN]

\* The requests under way and those that are over.
Saves ==
    [browser: Browsers, base: Documents \cup {New}, draft: Draft,
     revision: 0..MaxRevision, stage: {"sent", "inside", "over"},
     answer: {"none", "AUTH_REQUIRED"}, awaited: BOOLEAN, mounted: BOOLEAN]
Fetches ==
    [kind: {"load", "login", "logout", "current", "upload", "reference"},
     answer: {"none", "OK", "REFUSED", "AUTH_REQUIRED"},
     docs: SUBSET Documents, mounted: BOOLEAN]

ASSUME ShapeAssumption ==
    /\ Absent \notin Documents
    /\ Absent \notin Forms
    /\ Absent \notin Editors
    /\ Absent \notin Saves
    /\ Absent \notin Fetches
    /\ New \notin Documents

\* catalog_document: one snapshot of a product and its variants.
Document(p) ==
    [key |-> p, row |-> products[p],
     variants |-> {[id |-> Text[v], sku |-> variants[v].sku, active |-> variants[v].active] :
                      v \in {w \in Variants : variants[w] # Absent /\ variants[w].product = p}}]

Listed == {Document(p) : p \in {q \in Products : products[q] # Absent}}

draftOf(doc) ==
    [slug |-> doc.row.slug, status |-> doc.row.status, content |-> doc.row.content,
     items |-> SetToSeq(doc.variants)]

Named(d) == {d.items[i].id : i \in 1..Len(d.items)} \ {Absent}

\* What can be typed into a form: any draft that names no other variants.
Typed(d) == {e \in Drafts : Named(e) \subseteq Named(d)}

\* ProductEditor is mounted: draft is its own copy.
Mounted(product, draft) ==
    [base |-> product, draft |-> draft, busy |-> FALSE, expired |-> FALSE]

Opened(product) ==
    IF product = Absent THEN {Absent}
    ELSE IF product = New THEN {Mounted(New, d) : d \in {e \in Drafts : Named(e) = {}}}
    ELSE {Mounted(product, draftOf(product))}

Editor == [busy |-> FALSE, expired |-> FALSE]

\* What waited for its answer in a component of b that is gone still waits:
\* the saves and uploads of the ProductEditor, the POST of the ReferenceEditor.
Orphaned(calls, b) ==
    [c \in Calls |->
        IF calls[c] # Absent /\ calls[c].browser = b
          THEN [calls[c] EXCEPT !.mounted = FALSE] ELSE calls[c]]

Orphans(fetches, kinds) ==
    [s \in Slots \cup Calls |->
        IF fetches[s] # Absent /\ fetches[s].kind \in kinds
          THEN [fetches[s] EXCEPT !.mounted = FALSE] ELSE fetches[s]]

Init ==
    /\ Store!Init
    /\ cookie = [b \in Browsers |-> TRUE]
    /\ session = [b \in Browsers |-> TRUE]
    /\ needsLogin = [b \in Browsers |-> FALSE]
    /\ loading = [b \in Browsers |-> FALSE]
    /\ rows = [b \in Browsers |-> Listed]
    /\ tab = [b \in Browsers |-> "products"]
    /\ editing = [b \in Browsers |-> Absent]
    /\ form = [b \in Browsers |-> Absent]
    /\ reference = [b \in Browsers |-> Absent]
    /\ sent = [c \in Calls |-> Absent]
    /\ fetch = [b \in Browsers |-> [s \in Slots \cup Calls |-> Absent]]

Fetch(kind) == [kind |-> kind, answer |-> "none", docs |-> {}, mounted |-> TRUE]

Start(b, s, kind) == fetch' = [fetch EXCEPT ![b][s] = Fetch(kind)]
----------------------------------------------------------------------------
(* The user.                                                               *)

\* edit(product): the #key block mounts a new editor.
Edit(b) ==
    /\ session[b] /\ tab[b] = "products"
    /\ \E product \in rows[b] \cup {New} :
         /\ product = New => ~loading[b]
         /\ editing' = [editing EXCEPT ![b] = product]
         /\ \E f \in Opened(product) : form' = [form EXCEPT ![b] = f]
    /\ sent' = Orphaned(sent, b)
    /\ fetch' = [fetch EXCEPT ![b] = Orphans(@, {"upload"})]
    /\ UNCHANGED <<store, cookie, session, needsLogin, loading, rows, tab, reference>>

Type(b) ==
    /\ form[b] # Absent /\ ~form[b].busy
    /\ \E d \in Typed(form[b].draft) : form' = [form EXCEPT ![b].draft = d]
    /\ UNCHANGED <<store, cookie, session, needsLogin, loading, rows, tab, editing,
                   reference, sent, fetch>>

Cancel(b) ==
    /\ form[b] # Absent /\ ~form[b].busy
    /\ editing' = [editing EXCEPT ![b] = Absent]
    /\ form' = [form EXCEPT ![b] = Absent]
    /\ sent' = Orphaned(sent, b)
    /\ UNCHANGED <<store, cookie, session, needsLogin, loading, rows, tab, reference, fetch>>

\* The editor is mounted anew, from the document, when the tab is shown again.
SwitchTab(b) ==
    /\ session[b]
    /\ \E t \in Tabs \ {tab[b]} :
         /\ tab' = [tab EXCEPT ![b] = t]
         /\ \E f \in Opened(IF t = "products" THEN editing[b] ELSE Absent) :
              form' = [form EXCEPT ![b] = f]
         /\ reference' = [reference EXCEPT ![b] = IF t = "references" THEN Editor ELSE Absent]
    /\ sent' = Orphaned(sent, b)
    /\ fetch' = [fetch EXCEPT ![b] = Orphans(@, {"upload", "reference"})]
    /\ UNCHANGED <<store, cookie, session, needsLogin, loading, rows, editing>>

Request(b, revision) ==
    [browser |-> b, base |-> form[b].base, draft |-> form[b].draft,
     revision |-> revision, stage |-> "sent", answer |-> "none",
     awaited |-> TRUE, mounted |-> TRUE]

BaseRevision(b) == IF form[b].base = New THEN 0 ELSE form[b].base.row.revision

LatestRevision(b) ==
    IF form[b].base = New THEN 0
    ELSE LET seen == {d.row.revision : d \in {e \in rows[b] : e.key = form[b].base.key}}
         IN  IF seen = {} THEN BaseRevision(b) ELSE CHOOSE n \in seen : TRUE

SaveTwice(b, c) ==
    /\ form[b] # Absent
    /\ sent[c] = Absent
    /\ sent' = [sent EXCEPT ![c] = Request(b, BaseRevision(b))]
    /\ form' = [form EXCEPT ![b].busy = TRUE, ![b].expired = FALSE]
    /\ UNCHANGED <<store, cookie, session, needsLogin, loading, rows, tab, editing,
                   reference, fetch>>

SaveOverLatest(b, c) ==
    /\ form[b] # Absent /\ ~form[b].busy
    /\ sent[c] = Absent
    /\ sent' = [sent EXCEPT ![c] = Request(b, LatestRevision(b))]
    /\ form' = [form EXCEPT ![b].busy = TRUE, ![b].expired = FALSE]
    /\ UNCHANGED <<store, cookie, session, needsLogin, loading, rows, tab, editing,
                   reference, fetch>>

\* save of ProductEditor: PUT with the revision of the document, or POST.
Save(b, c) ==
    /\ form[b] # Absent /\ ~form[b].busy
    /\ sent[c] = Absent
    /\ sent' = [sent EXCEPT ![c] = Request(b, BaseRevision(b))]
    /\ form' = [form EXCEPT ![b].busy = TRUE, ![b].expired = FALSE]
    /\ UNCHANGED <<store, cookie, session, needsLogin, loading, rows, tab, editing,
                   reference, fetch>>

\* upload of ProductEditor.
Upload(b, s) ==
    /\ form[b] # Absent /\ ~form[b].busy
    /\ fetch[b][s] = Absent
    /\ Start(b, s, "upload")
    /\ form' = [form EXCEPT ![b].busy = TRUE, ![b].expired = FALSE]
    /\ UNCHANGED <<store, cookie, session, needsLogin, loading, rows, tab, editing,
                   reference, sent>>

\* save of ReferenceEditor.
SaveReference(b, s) ==
    /\ reference[b] # Absent /\ ~reference[b].busy
    /\ fetch[b][s] = Absent
    /\ Start(b, s, "reference")
    /\ reference' = [reference EXCEPT ![b] = [busy |-> TRUE, expired |-> FALSE]]
    /\ UNCHANGED <<store, cookie, session, needsLogin, loading, rows, tab, editing, form, sent>>

\* The search form and the buttons of the pages.
Search(b, s) ==
    /\ session[b] /\ tab[b] = "products" /\ ~loading[b]
    /\ fetch[b][s] = Absent
    /\ Start(b, s, "load")
    /\ loading' = [loading EXCEPT ![b] = TRUE]
    /\ UNCHANGED <<store, cookie, session, needsLogin, rows, tab, editing, form,
                   reference, sent>>

LoginShown(b) == ~session[b] \/ needsLogin[b]

Login(b, s) ==
    /\ LoginShown(b) /\ ~loading[b]
    /\ fetch[b][s] = Absent
    /\ Start(b, s, "login")
    /\ loading' = [loading EXCEPT ![b] = TRUE]
    /\ UNCHANGED <<store, cookie, session, needsLogin, rows, tab, editing, form,
                   reference, sent>>

Logout(b, s) ==
    /\ session[b] /\ ~loading[b]
    /\ fetch[b][s] = Absent
    /\ Start(b, s, "logout")
    /\ loading' = [loading EXCEPT ![b] = TRUE]
    /\ UNCHANGED <<store, cookie, session, needsLogin, rows, tab, editing, form,
                   reference, sent>>

User(b) ==
    \/ Edit(b) \/ Type(b) \/ Cancel(b) \/ SwitchTab(b)
    \/ \E c \in Calls : Save(b, c)
    \/ \E s \in Slots :
         Upload(b, s) \/ SaveReference(b, s) \/ Search(b, s) \/ Login(b, s) \/ Logout(b, s)
----------------------------------------------------------------------------
(* The API.                                                                *)

\* The save reaches its handler: require() comes first.
Arrive(c) ==
    LET r == sent[c] IN
    /\ r # Absent /\ r.stage = "sent"
    /\ IF ~cookie[r.browser]
         THEN /\ sent' = [sent EXCEPT ![c].stage = "over", ![c].answer = "AUTH_REQUIRED"]
              /\ UNCHANGED store
         ELSE /\ sent' = [sent EXCEPT ![c].stage = "inside"]
              /\ IF ~ValidDraft(r.draft) THEN Store!Reject(c)
                 ELSE \E key \in IF r.base = New THEN Products ELSE {r.base.key} :
                      \E keys \in [1..Len(r.draft.items) -> Variants] :
                        /\ req' = [req EXCEPT ![c] =
                             [target |-> IF r.base = New THEN Absent ELSE key,
                              expected |-> r.revision, key |-> key,
                              draft |-> r.draft, keys |-> keys]]
                        /\ Store!Submit(c)
    /\ UNCHANGED <<cookie, page, fetch>>

\* The save endpoints go on, whoever waits.
Serve(c) ==
    /\ Store!Apply(c) \/ Store!Refuse(c) \/ Store!Drop(c) \/ Store!GiveUp(c)
    /\ UNCHANGED <<cookie, page, sent, fetch>>

\* The other endpoints answer with what is true at one instant.
Answer(b, s) ==
    LET f == fetch[b][s] IN
    /\ f # Absent /\ f.answer = "none"
    /\ \E what \in {"OK", "REFUSED", "AUTH_REQUIRED"} :
         /\ what = "AUTH_REQUIRED" <=> f.kind \notin {"login", "logout"} /\ ~cookie[b]
         /\ what = "REFUSED" => f.kind \in {"login", "reference", "upload"}
         /\ fetch' = [fetch EXCEPT ![b][s].answer = what,
                                  ![b][s].docs = IF f.kind = "load" THEN Listed ELSE {}]
    /\ cookie' = [cookie EXCEPT ![b] = @ /\ f.kind # "logout"]
    /\ UNCHANGED <<store, page, sent>>

\* Thirty minutes after the login.
Expire(b) ==
    /\ cookie[b]
    /\ cookie' = [cookie EXCEPT ![b] = FALSE]
    /\ UNCHANGED <<store, page, sent, fetch>>
----------------------------------------------------------------------------
(* Answers and errors.                                                     *)

AnswerTo(c) == IF sent[c].stage = "inside" THEN reply[c] ELSE sent[c].answer

Hears(c) ==
    /\ sent[c] # Absent /\ sent[c].awaited
    /\ AnswerTo(c) \notin {"none", "waiting"}

\* The save was accepted: saved() closes the editor and loads the list.
Saved(c) ==
    LET b == sent[c].browser IN
    /\ Hears(c) /\ AnswerTo(c) = "OK"
    /\ editing' = [editing EXCEPT ![b] = Absent]
    /\ form' = [form EXCEPT ![b] = Absent]
    /\ sent' = [Orphaned(sent, b) EXCEPT ![c].awaited = FALSE]
    /\ fetch' = [fetch EXCEPT ![b] = [Orphans(@, {"upload"}) EXCEPT ![c] = Fetch("load")]]
    /\ loading' = [loading EXCEPT ![b] = TRUE]
    /\ UNCHANGED <<store, cookie, session, needsLogin, rows, tab, reference>>

\* The form that waited for c is released; expired says it was told to sign in.
Released(c, expired) ==
    LET b == sent[c].browser IN
    /\ sent' = [sent EXCEPT ![c].awaited = FALSE]
    /\ form' = IF sent[c].mounted
                 THEN [form EXCEPT ![b].busy = FALSE, ![b].expired = expired] ELSE form

RefusedInSilence(c) ==
    /\ Hears(c) /\ AnswerTo(c) # "OK"
    /\ Released(c, AnswerTo(c) = "AUTH_REQUIRED")
    /\ UNCHANGED <<store, cookie, session, needsLogin, loading, rows, tab, editing,
                   reference, fetch>>

RefusedForGood(c) ==
    /\ Hears(c) /\ AnswerTo(c) # "OK"
    /\ sent' = [sent EXCEPT ![c].awaited = FALSE]
    /\ UNCHANGED <<store, cookie, page, fetch>>

Refused(c) ==
    /\ Hears(c) /\ AnswerTo(c) # "OK"
    /\ Released(c, AnswerTo(c) = "AUTH_REQUIRED")
    /\ needsLogin' = [needsLogin EXCEPT ![sent[c].browser] =
                         @ \/ AnswerTo(c) = "AUTH_REQUIRED"]
    /\ UNCHANGED <<store, cookie, session, loading, rows, tab, editing, reference, fetch>>

\* AbortSignal.timeout, a connection lost, or a request turned away before its
\* handler: the save may or may not take effect later.
GivenUp(c) ==
    /\ sent[c] # Absent /\ sent[c].awaited
    /\ Released(c, FALSE)
    /\ UNCHANGED <<store, cookie, session, needsLogin, loading, rows, tab, editing,
                   reference, fetch>>

Ready(b, s, kind) ==
    /\ fetch[b][s] # Absent
    /\ fetch[b][s].kind = kind
    /\ fetch[b][s].answer # "none"

Done(b, s) == fetch' = [fetch EXCEPT ![b][s] = Absent]

Loaded(b, s) ==
    /\ Ready(b, s, "load")
    /\ IF fetch[b][s].answer = "AUTH_REQUIRED"
         THEN needsLogin' = [needsLogin EXCEPT ![b] = TRUE] /\ UNCHANGED rows
         ELSE rows' = [rows EXCEPT ![b] = fetch[b][s].docs] /\ UNCHANGED needsLogin
    /\ loading' = [loading EXCEPT ![b] = FALSE]
    /\ Done(b, s)
    /\ UNCHANGED <<store, cookie, session, tab, editing, form, reference, sent>>

\* The cookie comes with the answer; current() asks who it belongs to.
LoggedIn(b, s) ==
    /\ Ready(b, s, "login")
    /\ IF fetch[b][s].answer = "OK"
         THEN /\ cookie' = [cookie EXCEPT ![b] = TRUE]
              /\ Start(b, s, "current")
              /\ UNCHANGED loading
         ELSE /\ loading' = [loading EXCEPT ![b] = FALSE]
              /\ Done(b, s)
              /\ UNCHANGED cookie
    /\ UNCHANGED <<store, session, needsLogin, rows, tab, editing, form, reference, sent>>

\* Signed in: the forms that were told to sign in were heard.
Forgiven(f) == IF f = Absent THEN Absent ELSE [f EXCEPT !.expired = FALSE]

Current(b, s) ==
    /\ Ready(b, s, "current")
    /\ IF fetch[b][s].answer = "OK"
         THEN /\ session' = [session EXCEPT ![b] = TRUE]
              /\ needsLogin' = [needsLogin EXCEPT ![b] = FALSE]
              /\ form' = [form EXCEPT ![b] = Forgiven(@)]
              /\ reference' = [reference EXCEPT ![b] = IF session[b] \/ tab[b] = "products"
                                                          THEN Forgiven(@) ELSE Editor]
              /\ Start(b, s, "load")
              /\ loading' = [loading EXCEPT ![b] = TRUE]
         ELSE /\ loading' = [loading EXCEPT ![b] = FALSE]
              /\ Done(b, s)
              /\ UNCHANGED <<session, needsLogin, form, reference>>
    /\ UNCHANGED <<store, cookie, rows, tab, editing, sent>>

LoggedOut(b, s) ==
    /\ Ready(b, s, "logout")
    /\ session' = [session EXCEPT ![b] = FALSE]
    /\ editing' = [editing EXCEPT ![b] = Absent]
    /\ form' = [form EXCEPT ![b] = Absent]
    /\ reference' = [reference EXCEPT ![b] = Absent]
    /\ rows' = [rows EXCEPT ![b] = {}]
    /\ sent' = Orphaned(sent, b)
    /\ fetch' = [fetch EXCEPT ![b] = [Orphans(@, {"upload", "reference"}) EXCEPT ![s] = Absent]]
    /\ loading' = [loading EXCEPT ![b] = FALSE]
    /\ UNCHANGED <<store, cookie, needsLogin, tab>>

\* ReferenceEditor has no onExpired: a 401 is shown and nothing else.
ReferenceSaved(b, s) ==
    LET f == fetch[b][s] IN
    /\ Ready(b, s, "reference")
    /\ reference' = IF f.mounted
         THEN [reference EXCEPT ![b] = [busy |-> FALSE, expired |-> f.answer = "AUTH_REQUIRED"]]
         ELSE reference
    /\ IF f.answer = "OK"
         THEN Start(b, s, "load") /\ loading' = [loading EXCEPT ![b] = TRUE]
         ELSE Done(b, s) /\ UNCHANGED loading
    /\ UNCHANGED <<store, cookie, session, needsLogin, rows, tab, editing, form, sent>>

\* The image is added to the draft of the form that sent it.
Uploaded(b, s) ==
    LET f == fetch[b][s] IN
    /\ Ready(b, s, "upload")
    /\ IF ~f.mounted THEN UNCHANGED form
       ELSE IF f.answer # "OK"
         THEN form' = [form EXCEPT ![b].busy = FALSE,
                                   ![b].expired = f.answer = "AUTH_REQUIRED"]
       ELSE \E d \in Typed(form[b].draft) :
              form' = [form EXCEPT ![b].busy = FALSE, ![b].draft = d]
    /\ needsLogin' = [needsLogin EXCEPT ![b] = @ \/ f.answer = "AUTH_REQUIRED"]
    /\ Done(b, s)
    /\ UNCHANGED <<store, cookie, session, loading, rows, tab, editing, reference, sent>>

\* A timeout or an error of any other request.
Failed(b, s) ==
    LET f == fetch[b][s] IN
    /\ f # Absent
    /\ Done(b, s)
    /\ loading' = [loading EXCEPT ![b] = @ /\ f.kind \in {"reference", "upload"}]
    /\ form' = IF f.kind = "upload" /\ f.mounted
                 THEN [form EXCEPT ![b].busy = FALSE] ELSE form
    /\ reference' = IF f.kind = "reference" /\ f.mounted
                      THEN [reference EXCEPT ![b].busy = FALSE] ELSE reference
    /\ UNCHANGED <<store, cookie, session, needsLogin, rows, tab, editing, sent>>

Hear(c) == Saved(c) \/ Refused(c) \/ GivenUp(c)

Receive(b, s) ==
    Loaded(b, s) \/ LoggedIn(b, s) \/ Current(b, s) \/ LoggedOut(b, s)
    \/ ReferenceSaved(b, s) \/ Uploaded(b, s) \/ Failed(b, s)
----------------------------------------------------------------------------
Next ==
    \/ \E b \in Browsers :
         \/ User(b)
         \/ Expire(b)
         \/ \E s \in Slots \cup Calls : Answer(b, s) \/ Receive(b, s)
    \/ \E c \in Calls : Arrive(c) \/ Serve(c) \/ Hear(c)

Spec == Init /\ [][Next]_vars

\* Every request of the page has an AbortSignal.timeout.
Fairness ==
    /\ \A c \in Calls : WF_vars(Hear(c))
    /\ \A b \in Browsers, s \in Slots \cup Calls : WF_vars(Receive(b, s))

FairSpec == Spec /\ Fairness
----------------------------------------------------------------------------
(* Properties.                                                             *)

Asked(b, kind) ==
    {s \in Slots \cup Calls : /\ fetch[b][s] # Absent /\ fetch[b][s].mounted
                             /\ fetch[b][s].kind = kind}

Waiting(b) ==
    {c \in Calls : /\ sent[c] # Absent /\ sent[c].browser = b
                   /\ sent[c].awaited /\ sent[c].mounted}
    \cup Asked(b, "upload")

\* Each variable has its type, and a form is busy exactly when it waits for
\* the answer to one request of its own.
TypeOK ==
    /\ \A b \in Browsers :
         /\ {cookie[b], session[b], needsLogin[b], loading[b]} \subseteq BOOLEAN
         /\ tab[b] \in Tabs
         /\ form[b] # Absent <=> editing[b] # Absent /\ session[b] /\ tab[b] = "products"
         /\ reference[b] # Absent <=> session[b] /\ tab[b] = "references"
         /\ form[b] # Absent => form[b] \in Forms /\ form[b].base = editing[b]
         /\ reference[b] # Absent => reference[b] \in Editors
         /\ Cardinality(Waiting(b)) = IF form[b] # Absent /\ form[b].busy THEN 1 ELSE 0
         /\ Cardinality(Asked(b, "reference")) =
              IF reference[b] # Absent /\ reference[b].busy THEN 1 ELSE 0
    /\ \A c \in Calls : reply[c] # "none" => sent[c] # Absent

\* ADR 0010: "Updates use a revision to prevent lost edits".  From end to end:
\* what an update replaces is the very document its editor was opened on, how
\* stale the list, how late the save and how often it was repeated.
NoLostEdit ==
    [][\A p \in Products : (products[p] # Absent /\ products'[p] # products[p]) =>
          \E c \in Calls : /\ open[c] /\ ~open'[c]
                           /\ sent[c].base = Document(p)]_vars

\* catalog.ts: "Sign in again; what you entered is kept in the form."  The
\* product editor that was told so has the login beside it until the user has
\* signed in, whatever is answered late and whatever the user does meanwhile.
EditorOffersSignIn ==
    \A b \in Browsers : form[b] # Absent /\ form[b].expired => LoginShown(b)

\* ProductEditor.svelte: "edits intentionally keep their own snapshot".  While
\* the tab and the session stay, an editor is closed only by its user or by
\* the answer to its own save.
DraftKept ==
    [][\A b \in Browsers :
          (form[b] # Absent /\ form'[b] = Absent /\ session'[b] /\ tab'[b] = tab[b]) =>
              \/ Cancel(b)
              \/ \E c \in Calls : sent[c] # Absent /\ sent[c].mounted /\ Saved(c)]_vars

\* No form and no button stays disabled for good.
PageUnlocks ==
    \A b \in Browsers :
        /\ form[b] # Absent /\ form[b].busy ~> ~(form[b] # Absent /\ form[b].busy)
        /\ reference[b] # Absent /\ reference[b].busy
              ~> ~(reference[b] # Absent /\ reference[b].busy)
        /\ loading[b] ~> ~loading[b]
============================================================================
