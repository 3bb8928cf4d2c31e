-------------------------- MODULE Workspace_proofs --------------------------
(***************************************************************************)
(* Proofs about Workspace, for every number of employees, of products and  *)
(* of requests under way.  The first invariant, PageInv, is about the page *)
(* of each browser: which components it shows and whose answers they await.*)
(* The second, EditInv, is about documents: wherever one is kept, however  *)
(* stale, the catalog either has it still or has a later revision of it.   *)
(* The third, LogInv, is about what was saved: the audit log has each      *)
(* revision once, with the save that made it.                              *)
(***************************************************************************)
EXTENDS Workspace, FiniteSetTheorems, TLAPS

Shapes ==
    /\ products \in ProductTable
    /\ variants \in VariantTable
    /\ req \in [Calls -> Requests \cup {Absent}]
    /\ open \in [Calls -> BOOLEAN]
    /\ reply \in [Calls -> Replies]
    /\ cookie \in [Browsers -> BOOLEAN]
    /\ session \in [Browsers -> BOOLEAN]
    /\ needsLogin \in [Browsers -> BOOLEAN]
    /\ loading \in [Browsers -> BOOLEAN]
    /\ rows \in [Browsers -> SUBSET Documents]
    /\ tab \in [Browsers -> Tabs]
    /\ editing \in [Browsers -> Documents \cup {New, Absent}]
    /\ form \in [Browsers -> Forms \cup {Absent}]
    /\ reference \in [Browsers -> Editors \cup {Absent}]
    /\ sent \in [Calls -> Saves \cup {Absent}]
    /\ fetch \in [Browsers -> [Slots \cup Calls -> Fetches \cup {Absent}]]

\* What the page of b shows.
Screen(b) ==
    /\ form[b] # Absent <=> editing[b] # Absent /\ session[b] /\ tab[b] = "products"
    /\ reference[b] # Absent <=> session[b] /\ tab[b] = "references"
    /\ form[b] # Absent => form[b].base = editing[b]
    /\ ~session[b] => editing[b] = Absent
    /\ (form[b] # Absent /\ form[b].expired) => needsLogin[b]

SaveAwaited(b, c) ==
    sent[c] # Absent /\ sent[c].browser = b /\ sent[c].awaited /\ sent[c].mounted

FetchAwaited(b, s, kind) ==
    fetch[b][s] # Absent /\ fetch[b][s].mounted /\ fetch[b][s].kind = kind

\* A form of b that is busy awaits one answer, and no other form awaits any.
\* The slots of Calls are for the loads that follow the saves.
Waits(b) ==
    /\ (form[b] # Absent /\ form[b].busy) <=>
          \/ \E c \in Calls : SaveAwaited(b, c)
          \/ \E s \in Slots \cup Calls : FetchAwaited(b, s, "upload")
    /\ \A c, d \in Calls : SaveAwaited(b, c) /\ SaveAwaited(b, d) => c = d
    /\ \A s, t \in Slots \cup Calls :
          FetchAwaited(b, s, "upload") /\ FetchAwaited(b, t, "upload") => s = t
    /\ \A c \in Calls, s \in Slots \cup Calls :
          SaveAwaited(b, c) => ~FetchAwaited(b, s, "upload")
    /\ (reference[b] # Absent /\ reference[b].busy) <=>
          \E s \in Slots \cup Calls : FetchAwaited(b, s, "reference")
    /\ \A s, t \in Slots \cup Calls :
          FetchAwaited(b, s, "reference") /\ FetchAwaited(b, t, "reference") => s = t
    /\ \A c \in Calls : fetch[b][c] # Absent => fetch[b][c].kind = "load"

\* The API works on what it was sent.
Told ==
    \A c \in Calls :
        /\ (reply[c] # "none" \/ open[c]) => sent[c] # Absent
        /\ open[c] => req[c] # Absent

PageInv ==
    /\ Shapes
    /\ \A b \in Browsers : Screen(b) /\ Waits(b)
    /\ Told
-----------------------------------------------------------------------------
(* Records.                                                                *)

LEMMA FormParts ==
    ASSUME NEW f \in Forms, NEW busy \in BOOLEAN, NEW expired \in BOOLEAN
    PROVE  /\ [f EXCEPT !.busy = busy] \in Forms
           /\ [f EXCEPT !.expired = expired] \in Forms
           /\ [f EXCEPT !.busy = busy, !.expired = expired] \in Forms
  BY DEF Forms

LEMMA DraftParts ==
    ASSUME NEW f \in Forms, NEW busy \in BOOLEAN, NEW d \in Draft
    PROVE  /\ [f EXCEPT !.draft = d] \in Forms
           /\ [f EXCEPT !.busy = busy, !.draft = d] \in Forms
  BY DEF Forms

LEMMA SaveParts ==
    ASSUME NEW r \in Saves
    PROVE  /\ [r EXCEPT !.mounted = FALSE] \in Saves
           /\ [r EXCEPT !.awaited = FALSE] \in Saves
           /\ [r EXCEPT !.stage = "inside"] \in Saves
           /\ [r EXCEPT !.stage = "over", !.answer = "AUTH_REQUIRED"] \in Saves
  BY DEF Saves

\* The fields an update leaves alone.
LEMMA FormTaken ==
    ASSUME NEW f \in Forms, NEW g, g = [f EXCEPT !.busy = TRUE, !.expired = FALSE]
    PROVE  g.base = f.base /\ g.busy /\ ~g.expired
  BY DEF Forms

LEMMA FormExpired ==
    ASSUME NEW f \in Forms, NEW expired \in BOOLEAN,
           NEW g, g = [f EXCEPT !.expired = expired]
    PROVE  g.base = f.base /\ g.busy = f.busy /\ g.expired = expired
  BY DEF Forms

LEMMA FormFreed ==
    ASSUME NEW f \in Forms, NEW g, g = [f EXCEPT !.busy = FALSE]
    PROVE  g.base = f.base /\ ~g.busy /\ g.expired = f.expired
  BY DEF Forms

LEMMA FormDrafted ==
    ASSUME NEW f \in Forms, NEW d, NEW g, g = [f EXCEPT !.draft = d]
    PROVE  g.base = f.base /\ g.busy = f.busy /\ g.expired = f.expired
  BY DEF Forms

LEMMA SaveFields ==
    ASSUME NEW r \in Saves
    PROVE  /\ ~[r EXCEPT !.awaited = FALSE].awaited
           /\ LET q == [r EXCEPT !.stage = "inside"] IN
                q.browser = r.browser /\ q.awaited = r.awaited /\ q.mounted = r.mounted
           /\ LET q == [r EXCEPT !.stage = "over", !.answer = "AUTH_REQUIRED"] IN
                q.browser = r.browser /\ q.awaited = r.awaited /\ q.mounted = r.mounted
<1>1. ~[r EXCEPT !.awaited = FALSE].awaited
  BY DEF Saves
<1>2. LET q == [r EXCEPT !.stage = "inside"] IN
        q.browser = r.browser /\ q.awaited = r.awaited /\ q.mounted = r.mounted
  BY DEF Saves
<1>3. LET q == [r EXCEPT !.stage = "over", !.answer = "AUTH_REQUIRED"] IN
        q.browser = r.browser /\ q.awaited = r.awaited /\ q.mounted = r.mounted
  BY DEF Saves
<1> QED BY <1>1, <1>2, <1>3

LEMMA FetchParts ==
    ASSUME NEW f \in Fetches
    PROVE  [f EXCEPT !.mounted = FALSE] \in Fetches
  BY DEF Fetches

LEMMA AnswerParts ==
    ASSUME NEW f \in Fetches, NEW docs \in SUBSET Documents,
           NEW answer \in {"OK", "REFUSED", "AUTH_REQUIRED"}
    PROVE  [f EXCEPT !.answer = answer, !.docs = docs] \in Fetches
  BY DEF Fetches

LEMMA FetchIsNew ==
    ASSUME NEW kind \in {"load", "login", "logout", "current", "upload", "reference"}
    PROVE  /\ Fetch(kind) \in Fetches
           /\ Fetch(kind).kind = kind /\ Fetch(kind).mounted
           /\ Fetch(kind).docs = {} /\ Fetch(kind).answer = "none"
  BY DEF Fetches, Fetch

\* What is kept is not null.
LEMMA Shaped ==
    /\ \A d \in Documents : d # Absent /\ d # New
    /\ New # Absent
    /\ \A f \in Forms : f # Absent
    /\ \A e \in Editors : e # Absent
    /\ \A r \in Saves : r # Absent
    /\ \A f \in Fetches : f # Absent
  BY WorkspaceAssumption, ShapeAssumption

\* A finite set has a sequence of its elements.
LEMMA SequenceOf ==
    ASSUME NEW T, NEW S \in SUBSET T, IsFiniteSet(S)
    PROVE  SetToSeq(S) \in Seq(T)
<1>1. Cardinality(S) \in Nat /\ ExistsBijection(1..Cardinality(S), S)
  BY FS_CardinalityType
<1>2. \E f \in [1..Cardinality(S) -> S] : IsInjective(f)
  BY <1>1 DEF ExistsBijection, Bijection, Injection
<1>3. SetToSeq(S) \in [1..Cardinality(S) -> S]
  BY <1>2, Zenon DEF SetToSeq
<1>4. SetToSeq(S) \in [1..Cardinality(S) -> T]
  BY <1>3
<1> QED BY <1>1, <1>4

LEMMA DocumentShaped ==
    ASSUME products \in ProductTable, variants \in VariantTable,
           NEW p \in Products, products[p] # Absent
    PROVE  Document(p) \in Documents
<1>1. products[p] \in ProductRow
  BY DEF ProductTable
<1>2. ASSUME NEW v \in Variants, variants[v] # Absent
      PROVE  [id |-> Text[v], sku |-> variants[v].sku, active |-> variants[v].active]
                \in VariantsRead
  <2>1. variants[v] \in VariantRow
    BY <1>2 DEF VariantTable
  <2> QED BY <2>1, WorkspaceAssumption DEF VariantRow, VariantsRead
<1>3. Document(p).variants \in SUBSET VariantsRead
  BY <1>2 DEF Document
<1>4. IsFiniteSet(Document(p).variants)
  <2> DEFINE own == {w \in Variants : variants[w] # Absent /\ variants[w].product = p}
             f == [v \in own |-> [id |-> Text[v], sku |-> variants[v].sku,
                                  active |-> variants[v].active]]
  <2>1. IsFiniteSet(own)
    BY FS_Subset, WorkspaceAssumption
  <2>2. f \in Surjection(own, Document(p).variants)
    BY DEF Surjection, Document
  <2> QED BY <2>1, <2>2, FS_Surjection
<1> QED BY <1>1, <1>3, <1>4 DEF Document, Documents

LEMMA ListedShaped ==
    ASSUME Shapes
    PROVE  Listed \in SUBSET Documents
  BY DocumentShaped DEF Listed, Shapes
-----------------------------------------------------------------------------
(* Browsers a step does not touch, and components that are gone.           *)

\* To the page of a nothing happens, and no answer it awaits is heard.
Same(a) ==
    /\ session'[a] = session[a] /\ needsLogin'[a] = needsLogin[a] /\ tab'[a] = tab[a]
    /\ editing'[a] = editing[a] /\ form'[a] = form[a] /\ reference'[a] = reference[a]
    /\ fetch'[a] = fetch[a]
    /\ \A c \in Calls : SaveAwaited(a, c)' <=> SaveAwaited(a, c)

LEMMA SameKept ==
    ASSUME NEW a \in Browsers, Screen(a), Waits(a), Same(a)
    PROVE  Screen(a)' /\ Waits(a)'
<1>1. Screen(a)'
  BY DEF Screen, Same
<1>2. \A s \in Slots \cup Calls, kind \in {"upload", "reference"} : FetchAwaited(a, s, kind)' <=> FetchAwaited(a, s, kind)
  BY DEF FetchAwaited, Same
<1>3. \A c \in Calls : SaveAwaited(a, c)' <=> SaveAwaited(a, c)
  BY DEF Same
<1>4. Waits(a)'
  BY <1>2, <1>3 DEF Waits, Same
<1> QED BY <1>1, <1>4

LEMMA OrphanedSaves ==
    ASSUME sent \in [Calls -> Saves \cup {Absent}], NEW b \in Browsers
    PROVE  /\ Orphaned(sent, b) \in [Calls -> Saves \cup {Absent}]
           /\ \A c \in Calls : LET r == Orphaned(sent, b)[c] IN
                /\ r # Absent <=> sent[c] # Absent
                /\ sent[c] # Absent =>
                     /\ r.browser = sent[c].browser /\ r.base = sent[c].base
                     /\ r.revision = sent[c].revision /\ r.awaited = sent[c].awaited
                     /\ r.mounted <=> sent[c].mounted /\ sent[c].browser # b
<1> SUFFICES ASSUME NEW c \in Calls
             PROVE  LET r == Orphaned(sent, b)[c] IN
                      /\ r \in Saves \cup {Absent}
                      /\ r # Absent <=> sent[c] # Absent
                      /\ sent[c] # Absent =>
                           /\ r.browser = sent[c].browser /\ r.base = sent[c].base
                           /\ r.revision = sent[c].revision /\ r.awaited = sent[c].awaited
                           /\ r.mounted <=> sent[c].mounted /\ sent[c].browser # b
  BY DEF Orphaned
<1>1. CASE sent[c] # Absent /\ sent[c].browser = b
  <2>1. sent[c] \in Saves /\ Orphaned(sent, b)[c] = [sent[c] EXCEPT !.mounted = FALSE]
    BY <1>1 DEF Orphaned
  <2>2. [sent[c] EXCEPT !.mounted = FALSE] \in Saves
    BY <2>1, SaveParts
  <2> QED BY <1>1, <2>1, <2>2, Shaped DEF Saves
<1>2. CASE ~(sent[c] # Absent /\ sent[c].browser = b)
  <2>1. Orphaned(sent, b)[c] = sent[c]
    BY <1>2 DEF Orphaned
  <2> QED BY <1>2, <2>1
<1> QED BY <1>1, <1>2

LEMMA OrphansFetches ==
    ASSUME NEW g \in [Slots \cup Calls -> Fetches \cup {Absent}], NEW kinds
    PROVE  /\ Orphans(g, kinds) \in [Slots \cup Calls -> Fetches \cup {Absent}]
           /\ \A s \in Slots \cup Calls : LET f == Orphans(g, kinds)[s] IN
                /\ f # Absent <=> g[s] # Absent
                /\ g[s] # Absent =>
                     /\ f.kind = g[s].kind /\ f.docs = g[s].docs
                     /\ f.mounted <=> g[s].mounted /\ g[s].kind \notin kinds
<1> SUFFICES ASSUME NEW s \in Slots \cup Calls
             PROVE  LET f == Orphans(g, kinds)[s] IN
                      /\ f \in Fetches \cup {Absent}
                      /\ f # Absent <=> g[s] # Absent
                      /\ g[s] # Absent =>
                           /\ f.kind = g[s].kind /\ f.docs = g[s].docs
                           /\ f.mounted <=> g[s].mounted /\ g[s].kind \notin kinds
  BY DEF Orphans
<1>1. CASE g[s] # Absent /\ g[s].kind \in kinds
  <2>1. g[s] \in Fetches /\ Orphans(g, kinds)[s] = [g[s] EXCEPT !.mounted = FALSE]
    BY <1>1 DEF Orphans
  <2>2. [g[s] EXCEPT !.mounted = FALSE] \in Fetches
    BY <2>1, FetchParts
  <2> QED BY <1>1, <2>1, <2>2, Shaped DEF Fetches
<1>2. CASE ~(g[s] # Absent /\ g[s].kind \in kinds)
  <2>1. Orphans(g, kinds)[s] = g[s]
    BY <1>2 DEF Orphans
  <2> QED BY <1>2, <2>1
<1> QED BY <1>1, <1>2

\* Once orphaned, no save of b is awaited, and those of the others as before.
LEMMA OrphanedAwaited ==
    ASSUME sent \in [Calls -> Saves \cup {Absent}], NEW b \in Browsers,
           sent' = Orphaned(sent, b)
    PROVE  \A a \in Browsers, c \in Calls :
              SaveAwaited(a, c)' <=> a # b /\ SaveAwaited(a, c)
  BY OrphanedSaves DEF SaveAwaited
-----------------------------------------------------------------------------
(* The steps of the page.                                                  *)

LEMMA OpenedShaped ==
    ASSUME NEW product \in Documents \cup {New, Absent}, NEW f \in Opened(product)
    PROVE  /\ f \in Forms \cup {Absent}
           /\ f # Absent <=> product # Absent
           /\ f # Absent => f.base = product /\ ~f.busy /\ ~f.expired
<1>1. CASE product = Absent
  BY <1>1 DEF Opened
<1>2. CASE product = New
  <2>1. PICK d \in Drafts : f = Mounted(New, d)
    BY <1>2, Shaped DEF Opened
  <2>2. d \in Draft
    BY CatalogAssumption
  <2>3. f \in Forms
    BY <2>1, <2>2 DEF Mounted, Forms
  <2> QED BY <1>2, <2>1, <2>3, Shaped DEF Mounted
<1>3. CASE product \in Documents
  <2>1. f = Mounted(product, draftOf(product))
    BY <1>3, Shaped DEF Opened
  <2>2. draftOf(product) \in Draft
    <3>1. product.variants \in SUBSET VariantsRead /\ IsFiniteSet(product.variants)
      BY <1>3 DEF Documents
    <3>2. product.variants \in SUBSET Item
      BY <3>1 DEF Item, VariantsRead
    <3>4. SetToSeq(product.variants) \in Seq(Item)
      BY <3>1, <3>2, SequenceOf
    <3>5. product.row \in ProductRow
      BY <1>3 DEF Documents
    <3> QED BY <3>4, <3>5 DEF draftOf, Draft, ProductRow
  <2>3. f \in Forms
    BY <1>3, <2>1, <2>2 DEF Mounted, Forms
  <2> QED BY <1>3, <2>1, <2>3, Shaped DEF Mounted
<1> QED BY <1>1, <1>2, <1>3

LEMMA OrphansAwaited ==
    ASSUME Shapes, NEW b \in Browsers, NEW kinds, fetch'[b] = Orphans(fetch[b], kinds)
    PROVE  /\ \A s \in Slots \cup Calls, kind \in {"upload", "reference"} :
                FetchAwaited(b, s, kind)' <=> FetchAwaited(b, s, kind) /\ kind \notin kinds
           /\ \A s \in Slots \cup Calls : fetch'[b][s] # Absent =>
                fetch[b][s] # Absent /\ fetch'[b][s].kind = fetch[b][s].kind
<1>1. fetch[b] \in [Slots \cup Calls -> Fetches \cup {Absent}]
  BY DEF Shapes
<1> QED BY <1>1, OrphansFetches DEF FetchAwaited

LEMMA StepAt ==
    ASSUME PageInv, NEW b \in Browsers, Shapes', \A a \in Browsers \ {b} : Same(a),
           Screen(b)', Waits(b)', Told'
    PROVE  PageInv'
<1>1. \A a \in Browsers \ {b} : Screen(a)' /\ Waits(a)'
  BY SameKept DEF PageInv
<1> QED BY <1>1 DEF PageInv

\* Nothing is told of a save that was not sent.
LEMMA ToldKept ==
    ASSUME Told, UNCHANGED store, \A c \in Calls : sent[c] # Absent => sent'[c] # Absent
    PROVE  Told'
  BY DEF Told, store

LEMMA EditKept ==
    ASSUME PageInv, NEW b \in Browsers, Edit(b)
    PROVE  PageInv'
<1>s. Shapes /\ Screen(b) /\ Waits(b) /\ Told
  BY DEF PageInv
<1>p. PICK product \in rows[b] \cup {New} :
        /\ editing' = [editing EXCEPT ![b] = product]
        /\ \E f \in Opened(product) : form' = [form EXCEPT ![b] = f]
  BY DEF Edit
<1>1. PICK f \in Opened(product) : form' = [form EXCEPT ![b] = f]
  BY <1>p
<1>2. /\ session[b] /\ tab[b] = "products" /\ sent' = Orphaned(sent, b)
      /\ fetch' = [fetch EXCEPT ![b] = Orphans(fetch[b], {"upload"})]
      /\ UNCHANGED <<store, cookie, session, needsLogin, loading, rows, tab, reference>>
  BY DEF Edit
<1>3. product \in Documents \cup {New} /\ product # Absent
  BY <1>s, Shaped DEF Shapes
<1>4. /\ f \in Forms \cup {Absent} /\ f # Absent
      /\ f.base = product /\ ~f.busy /\ ~f.expired
  BY <1>3, OpenedShaped
<1>5. Orphaned(sent, b) \in [Calls -> Saves \cup {Absent}]
  BY <1>s, OrphanedSaves DEF Shapes
<1>6. fetch[b] \in [Slots \cup Calls -> Fetches \cup {Absent}]
  BY <1>s DEF Shapes
<1>7. Orphans(fetch[b], {"upload"}) \in [Slots \cup Calls -> Fetches \cup {Absent}]
  BY <1>6, OrphansFetches
<1>8. Shapes'
  BY <1>s, <1>p, <1>1, <1>2, <1>3, <1>4, <1>5, <1>7 DEF Shapes, store
<1>9. \A a \in Browsers, c \in Calls : SaveAwaited(a, c)' <=> a # b /\ SaveAwaited(a, c)
  BY <1>s, <1>2, OrphanedAwaited DEF Shapes
<1>10. \A a \in Browsers \ {b} : Same(a)
  BY <1>s, <1>p, <1>1, <1>2, <1>9 DEF Shapes, Same
<1>11. editing'[b] = product /\ form'[b] = f /\ fetch'[b] = Orphans(fetch[b], {"upload"})
  BY <1>s, <1>p, <1>1, <1>2 DEF Shapes
<1>12. Screen(b)'
  BY <1>s, <1>2, <1>3, <1>4, <1>11 DEF Screen
<1>13. Waits(b)'
  <2>1. \A s \in Slots \cup Calls, kind \in {"upload", "reference"} :
           FetchAwaited(b, s, kind)' <=> FetchAwaited(b, s, kind) /\ kind # "upload"
    BY <1>s, <1>11, OrphansAwaited
  <2>2. \A c \in Calls : fetch'[b][c] # Absent => fetch'[b][c].kind = "load"
    BY <1>s, <1>11, OrphansAwaited DEF Waits
  <2> QED BY <1>s, <1>2, <1>4, <1>9, <1>11, <2>1, <2>2 DEF Waits
<1>14. Told'
  BY <1>s, <1>2, OrphanedSaves, ToldKept DEF Shapes
<1> QED BY <1>8, <1>10, <1>12, <1>13, <1>14, StepAt

LEMMA TypeKept ==
    ASSUME PageInv, NEW b \in Browsers, Type(b)
    PROVE  PageInv'
<1>s. Shapes /\ Screen(b) /\ Waits(b) /\ Told
  BY DEF PageInv
<1>1. PICK d \in Drafts : form' = [form EXCEPT ![b].draft = d]
  BY DEF Type, Typed
<1>2. /\ form[b] # Absent
      /\ UNCHANGED <<store, cookie, session, needsLogin, loading, rows, tab, editing,
                     reference, sent, fetch>>
  BY DEF Type
<1>3. d \in Draft /\ form[b] \in Forms
  BY <1>s, <1>2, CatalogAssumption DEF Shapes
<1>4. form'[b] = [form[b] EXCEPT !.draft = d] /\ form'[b] \in Forms
  BY <1>s, <1>1, <1>3, DraftParts DEF Shapes
<1>5. /\ form'[b].base = form[b].base /\ form'[b].busy = form[b].busy
      /\ form'[b].expired = form[b].expired /\ form'[b] # Absent
  BY <1>3, <1>4, Shaped DEF Forms
<1>6. Shapes'
  BY <1>s, <1>1, <1>2, <1>4 DEF Shapes, store
<1>7. \A a \in Browsers, c \in Calls : SaveAwaited(a, c)' <=> SaveAwaited(a, c)
  BY <1>2 DEF SaveAwaited
<1>8. \A s \in Slots \cup Calls, kind \in {"upload", "reference"} : FetchAwaited(b, s, kind)' <=> FetchAwaited(b, s, kind)
  BY <1>2 DEF FetchAwaited
<1>9. \A a \in Browsers \ {b} : Same(a)
  BY <1>s, <1>1, <1>2, <1>7 DEF Shapes, Same
<1>10. Screen(b)'
  BY <1>s, <1>2, <1>5 DEF Screen
<1>11. Waits(b)'
  BY <1>s, <1>2, <1>5, <1>7, <1>8 DEF Waits
<1>12. Told'
  BY <1>s, <1>2, ToldKept
<1> QED BY <1>6, <1>9, <1>10, <1>11, <1>12, StepAt

LEMMA CancelKept ==
    ASSUME PageInv, NEW b \in Browsers, Cancel(b)
    PROVE  PageInv'
<1>s. Shapes /\ Screen(b) /\ Waits(b) /\ Told
  BY DEF PageInv
<1>1. /\ form[b] # Absent /\ ~form[b].busy
      /\ editing' = [editing EXCEPT ![b] = Absent] /\ form' = [form EXCEPT ![b] = Absent]
      /\ sent' = Orphaned(sent, b)
      /\ UNCHANGED <<store, cookie, session, needsLogin, loading, rows, tab, reference, fetch>>
  BY DEF Cancel
<1>2. Orphaned(sent, b) \in [Calls -> Saves \cup {Absent}]
  BY <1>s, OrphanedSaves DEF Shapes
<1>3. Shapes'
  BY <1>s, <1>1, <1>2 DEF Shapes, store
<1>4. \A a \in Browsers, c \in Calls : SaveAwaited(a, c)' <=> a # b /\ SaveAwaited(a, c)
  BY <1>s, <1>1, OrphanedAwaited DEF Shapes
<1>5. \A s \in Slots \cup Calls, kind \in {"upload", "reference"} : FetchAwaited(b, s, kind)' <=> FetchAwaited(b, s, kind)
  BY <1>1 DEF FetchAwaited
<1>6. \A a \in Browsers \ {b} : Same(a)
  BY <1>s, <1>1, <1>4 DEF Shapes, Same
<1>7. editing'[b] = Absent /\ form'[b] = Absent
  BY <1>s, <1>1 DEF Shapes
<1>8. Screen(b)'
  BY <1>s, <1>1, <1>7 DEF Screen
<1>9. Waits(b)'
  BY <1>s, <1>1, <1>4, <1>5, <1>7 DEF Waits
<1>10. Told'
  BY <1>s, <1>1, OrphanedSaves, ToldKept DEF Shapes
<1> QED BY <1>3, <1>6, <1>8, <1>9, <1>10, StepAt

LEMMA SwitchTabKept ==
    ASSUME PageInv, NEW b \in Browsers, SwitchTab(b)
    PROVE  PageInv'
<1> DEFINE kinds == {"upload", "reference"}
<1>s. Shapes /\ Screen(b) /\ Waits(b) /\ Told
  BY DEF PageInv
<1>p. PICK t \in Tabs \ {tab[b]} :
        /\ tab' = [tab EXCEPT ![b] = t]
        /\ \E f \in Opened(IF t = "products" THEN editing[b] ELSE Absent) :
             form' = [form EXCEPT ![b] = f]
        /\ reference' = [reference EXCEPT ![b] = IF t = "references" THEN Editor ELSE Absent]
  BY DEF SwitchTab
<1>1. PICK f \in Opened(IF t = "products" THEN editing[b] ELSE Absent) :
        form' = [form EXCEPT ![b] = f]
  BY <1>p
<1>2. /\ session[b] /\ sent' = Orphaned(sent, b)
      /\ fetch' = [fetch EXCEPT ![b] = Orphans(fetch[b], kinds)]
      /\ UNCHANGED <<store, cookie, session, needsLogin, loading, rows, editing>>
  BY DEF SwitchTab
<1>3. (IF t = "products" THEN editing[b] ELSE Absent) \in Documents \cup {New, Absent}
  BY <1>s DEF Shapes
<1>4. /\ f \in Forms \cup {Absent}
      /\ f # Absent <=> t = "products" /\ editing[b] # Absent
      /\ f # Absent => f.base = editing[b] /\ ~f.busy /\ ~f.expired
  BY <1>3, OpenedShaped
<1>e. Editor \in Editors /\ Editor # Absent /\ ~Editor.busy /\ ~Editor.expired
  BY Shaped DEF Editor, Editors
<1>5. Orphaned(sent, b) \in [Calls -> Saves \cup {Absent}]
  BY <1>s, OrphanedSaves DEF Shapes
<1>6. fetch[b] \in [Slots \cup Calls -> Fetches \cup {Absent}]
  BY <1>s DEF Shapes
<1>7. Orphans(fetch[b], kinds) \in [Slots \cup Calls -> Fetches \cup {Absent}]
  BY <1>6, OrphansFetches
<1>8. Shapes'
  BY <1>s, <1>p, <1>1, <1>2, <1>4, <1>5, <1>7, <1>e DEF Shapes, store
<1>9. \A a \in Browsers, c \in Calls : SaveAwaited(a, c)' <=> a # b /\ SaveAwaited(a, c)
  BY <1>s, <1>2, OrphanedAwaited DEF Shapes
<1>10. \A a \in Browsers \ {b} : Same(a)
  BY <1>s, <1>p, <1>1, <1>2, <1>9 DEF Shapes, Same
<1>11. /\ tab'[b] = t /\ form'[b] = f /\ fetch'[b] = Orphans(fetch[b], kinds)
       /\ reference'[b] = IF t = "references" THEN Editor ELSE Absent
  BY <1>s, <1>p, <1>1, <1>2 DEF Shapes
<1>12. Screen(b)'
  BY <1>s, <1>2, <1>4, <1>e, <1>11 DEF Screen
<1>13. Waits(b)'
  <2>1. \A s \in Slots \cup Calls, kind \in {"upload", "reference"} : ~FetchAwaited(b, s, kind)'
    BY <1>s, <1>11, OrphansAwaited
  <2>2. \A c \in Calls : fetch'[b][c] # Absent => fetch'[b][c].kind = "load"
    BY <1>s, <1>11, OrphansAwaited DEF Waits
  <2> QED BY <1>s, <1>2, <1>4, <1>e, <1>9, <1>11, <2>1, <2>2 DEF Waits
<1>14. Told'
  BY <1>s, <1>2, OrphanedSaves, ToldKept DEF Shapes
<1> QED BY <1>8, <1>10, <1>12, <1>13, <1>14, StepAt

LEMMA RequestShaped ==
    ASSUME Shapes, NEW b \in Browsers, form[b] # Absent
    PROVE  LET r == Request(b, BaseRevision(b)) IN
             /\ r \in Saves
             /\ r.browser = b /\ r.base = form[b].base /\ r.awaited /\ r.mounted
             /\ r.revision = IF form[b].base = New THEN 0 ELSE form[b].base.row.revision
<1>1. form[b] \in Forms
  BY DEF Shapes
<1>2. form[b].base \in Documents \cup {New} /\ form[b].draft \in Draft
  BY <1>1 DEF Forms
<1>3. BaseRevision(b) \in 0..MaxRevision
  <2>1. CASE form[b].base = New
    BY <2>1, CatalogAssumption DEF BaseRevision
  <2>2. CASE form[b].base \in Documents
    <3>1. form[b].base.row \in ProductRow /\ form[b].base # New
      BY <2>2, Shaped DEF Documents
    <3>2. form[b].base.row.revision \in 1..MaxRevision
      BY <3>1 DEF ProductRow
    <3> QED BY <3>1, <3>2, CatalogAssumption DEF BaseRevision
  <2> QED BY <1>2, <2>1, <2>2
<1> QED BY <1>2, <1>3 DEF Request, Saves, BaseRevision

\* The editor of b is busy, with expired off.
LEMMA BusyForm ==
    ASSUME Shapes, NEW b \in Browsers, form[b] # Absent,
           form' = [form EXCEPT ![b].busy = TRUE, ![b].expired = FALSE]
    PROVE  /\ form' \in [Browsers -> Forms \cup {Absent}]
           /\ \A a \in Browsers \ {b} : form'[a] = form[a]
           /\ form'[b] # Absent /\ form'[b].base = form[b].base
           /\ form'[b].busy /\ ~form'[b].expired
<1>1. form[b] \in Forms
  BY DEF Shapes
<1>2. form'[b] = [form[b] EXCEPT !.busy = TRUE, !.expired = FALSE]
  <2> DEFINE g == [form EXCEPT ![b] = [form[b] EXCEPT !.busy = TRUE]]
  <2>1. g[b] = [form[b] EXCEPT !.busy = TRUE] /\ b \in DOMAIN g
    BY DEF Shapes
  <2>2. form' = [g EXCEPT ![b] = [g[b] EXCEPT !.expired = FALSE]]
    BY Zenon
  <2> QED BY <2>1, <2>2
<1>3. form'[b] \in Forms
  BY <1>1, <1>2, FormParts
<1>4. form'[b].base = form[b].base /\ form'[b].busy /\ ~form'[b].expired
  <2>1. PICK f \in Forms : f = form[b]
    BY <1>1
  <2>2. PICK g : g = form'[b]
    OBVIOUS
  <2>3. g = [f EXCEPT !.busy = TRUE, !.expired = FALSE]
    BY <1>2, <2>1, <2>2
  <2>4. g.base = f.base /\ g.busy /\ ~g.expired
    BY <2>3, FormTaken, Zenon
  <2> QED BY <2>1, <2>2, <2>4
<1> QED BY <1>3, <1>4, Shaped DEF Shapes

LEMMA SaveKept ==
    ASSUME PageInv, NEW b \in Browsers, NEW c \in Calls, Save(b, c)
    PROVE  PageInv'
<1>s. Shapes /\ Screen(b) /\ Waits(b) /\ Told
  BY DEF PageInv
<1>1. /\ form[b] # Absent /\ ~form[b].busy /\ sent[c] = Absent
      /\ sent' = [sent EXCEPT ![c] = Request(b, BaseRevision(b))]
      /\ form' = [form EXCEPT ![b].busy = TRUE, ![b].expired = FALSE]
      /\ UNCHANGED <<store, cookie, session, needsLogin, loading, rows, tab, editing,
                     reference, fetch>>
  BY DEF Save
<1>2. /\ form' \in [Browsers -> Forms \cup {Absent}]
      /\ \A a \in Browsers \ {b} : form'[a] = form[a]
      /\ form'[b] # Absent /\ form'[b].base = form[b].base
      /\ form'[b].busy /\ ~form'[b].expired
  BY <1>s, <1>1, BusyForm
<1>3. PICK r : r = Request(b, BaseRevision(b))
  OBVIOUS
<1>4. /\ r \in Saves /\ r # Absent
      /\ r.browser = b /\ r.awaited /\ r.mounted
  BY <1>s, <1>1, <1>3, RequestShaped, Shaped
<1>5. Shapes'
  BY <1>s, <1>1, <1>2, <1>3, <1>4 DEF Shapes, store
<1>6. \A a \in Browsers, d \in Calls :
         SaveAwaited(a, d)' <=> IF d = c THEN a = b ELSE SaveAwaited(a, d)
  <2>1. sent'[c] = r /\ \A d \in Calls \ {c} : sent'[d] = sent[d]
    BY <1>s, <1>1, <1>3 DEF Shapes
  <2> QED BY <1>4, <2>1 DEF SaveAwaited
<1>7. \A a \in Browsers : ~SaveAwaited(a, c)
  BY <1>1 DEF SaveAwaited
<1>8. \A s \in Slots \cup Calls, kind \in {"upload", "reference"} :
         FetchAwaited(b, s, kind)' <=> FetchAwaited(b, s, kind)
  BY <1>1 DEF FetchAwaited
<1>9. \A a \in Browsers \ {b} : Same(a)
  BY <1>s, <1>1, <1>2, <1>6, <1>7 DEF Shapes, Same
<1>10. Screen(b)'
  BY <1>s, <1>1, <1>2 DEF Screen
<1>11. Waits(b)'
  BY <1>s, <1>1, <1>2, <1>6, <1>8 DEF Waits
<1>12. Told'
  BY <1>s, <1>1, <1>3, <1>4, ToldKept DEF Shapes
<1> QED BY <1>5, <1>9, <1>10, <1>11, <1>12, StepAt

\* One request of b under way is started, replaced or over.
LEMMA SlotSet ==
    ASSUME Shapes, NEW b \in Browsers, NEW s \in Slots \cup Calls,
           NEW x \in Fetches \cup {Absent}, fetch' = [fetch EXCEPT ![b][s] = x]
    PROVE  /\ fetch' \in [Browsers -> [Slots \cup Calls -> Fetches \cup {Absent}]]
           /\ \A a \in Browsers \ {b} : fetch'[a] = fetch[a]
           /\ fetch'[b][s] = x
           /\ \A t \in (Slots \cup Calls) \ {s} : fetch'[b][t] = fetch[b][t]
  BY DEF Shapes

\* ... so that an answer of another slot is awaited as before.
LEMMA SlotAwaited ==
    ASSUME Shapes, NEW b \in Browsers, NEW s \in Slots \cup Calls,
           NEW x \in Fetches \cup {Absent}, fetch' = [fetch EXCEPT ![b][s] = x]
    PROVE  \A t \in Slots \cup Calls, kind \in {"upload", "reference"} :
              /\ t = s => (FetchAwaited(b, t, kind)' <=> x # Absent /\ x.mounted /\ x.kind = kind)
              /\ t # s => (FetchAwaited(b, t, kind)' <=> FetchAwaited(b, t, kind))
<1> SUFFICES ASSUME NEW t \in Slots \cup Calls, NEW kind \in {"upload", "reference"}
             PROVE  /\ t = s => (FetchAwaited(b, t, kind)' <=>
                                     x # Absent /\ x.mounted /\ x.kind = kind)
                    /\ t # s => (FetchAwaited(b, t, kind)' <=> FetchAwaited(b, t, kind))
  OBVIOUS
<1>1. CASE t = s
  BY <1>1, SlotSet DEF FetchAwaited
<1>2. CASE t # s
  <2>1. fetch'[b][t] = fetch[b][t]
    BY <1>2, SlotSet
  <2> QED BY <1>2, <2>1 DEF FetchAwaited
<1> QED BY <1>1, <1>2

\* Requests no form awaits come and go.
LEMMA QuietSlot ==
    ASSUME PageInv, NEW b \in Browsers, NEW s \in Slots \cup Calls,
           NEW x \in Fetches \cup {Absent}, fetch' = [fetch EXCEPT ![b][s] = x],
           ~FetchAwaited(b, s, "upload"), ~FetchAwaited(b, s, "reference"),
           x # Absent => /\ x.kind \in {"load", "login", "logout", "current"}
                         /\ s \in Calls => x.kind = "load",
           sent' = sent,
           (form'[b] # Absent /\ form'[b].busy) <=> (form[b] # Absent /\ form[b].busy),
           (reference'[b] # Absent /\ reference'[b].busy)
              <=> (reference[b] # Absent /\ reference[b].busy)
    PROVE  Waits(b)'
<1>s. Shapes /\ Waits(b)
  BY DEF PageInv
<1>1. \A t \in Slots \cup Calls, kind \in {"upload", "reference"} :
         FetchAwaited(b, t, kind)' <=> FetchAwaited(b, t, kind)
  <2>1. \A t \in Slots \cup Calls, kind \in {"upload", "reference"} :
              /\ t = s => (FetchAwaited(b, t, kind)' <=> x # Absent /\ x.mounted /\ x.kind = kind)
              /\ t # s => (FetchAwaited(b, t, kind)' <=> FetchAwaited(b, t, kind))
    BY <1>s, SlotAwaited, Zenon
  <2>2. x # Absent => x.kind # "upload" /\ x.kind # "reference"
    OBVIOUS
  <2> QED BY <2>1, <2>2
<1>2. \A c \in Calls : SaveAwaited(b, c)' <=> SaveAwaited(b, c)
  BY DEF SaveAwaited
<1>3. \A c \in Calls : fetch'[b][c] # Absent => fetch'[b][c].kind = "load"
  BY <1>s, SlotSet DEF Waits
<1> QED BY <1>s, <1>1, <1>2, <1>3 DEF Waits

LEMMA UploadKept ==
    ASSUME PageInv, NEW b \in Browsers, NEW s \in Slots, Upload(b, s)
    PROVE  PageInv'
<1>s. Shapes /\ Screen(b) /\ Waits(b) /\ Told
  BY DEF PageInv
<1>1. /\ form[b] # Absent /\ ~form[b].busy /\ fetch[b][s] = Absent
      /\ fetch' = [fetch EXCEPT ![b][s] = Fetch("upload")]
      /\ form' = [form EXCEPT ![b].busy = TRUE, ![b].expired = FALSE]
      /\ UNCHANGED <<store, cookie, session, needsLogin, loading, rows, tab, editing,
                     reference, sent>>
  BY DEF Upload, Start
<1>2. /\ form' \in [Browsers -> Forms \cup {Absent}]
      /\ \A a \in Browsers \ {b} : form'[a] = form[a]
      /\ form'[b] # Absent /\ form'[b].base = form[b].base
      /\ form'[b].busy /\ ~form'[b].expired
  BY <1>s, <1>1, BusyForm
<1>3. PICK x : x = Fetch("upload")
  OBVIOUS
<1>4. x \in Fetches /\ x # Absent /\ x.kind = "upload" /\ x.mounted
  BY <1>3, FetchIsNew, Shaped
<1>5. /\ fetch' \in [Browsers -> [Slots \cup Calls -> Fetches \cup {Absent}]]
      /\ \A a \in Browsers \ {b} : fetch'[a] = fetch[a]
      /\ fetch'[b][s] = x
      /\ \A t \in (Slots \cup Calls) \ {s} : fetch'[b][t] = fetch[b][t]
  <2>1. fetch' = [fetch EXCEPT ![b][s] = x]
    BY <1>1, <1>3
  <2>2. x \in Fetches \cup {Absent} /\ s \in Slots \cup Calls
    BY <1>4
  <2> QED BY <1>s, <2>1, <2>2, SlotSet
<1>6. Shapes'
  BY <1>s, <1>1, <1>2, <1>5 DEF Shapes, store
<1>7. \A a \in Browsers, c \in Calls : SaveAwaited(a, c)' <=> SaveAwaited(a, c)
  BY <1>1 DEF SaveAwaited
<1>8. \A t \in Slots \cup Calls, kind \in {"upload", "reference"} :
         FetchAwaited(b, t, kind)' <=>
            IF t = s THEN kind = "upload" ELSE FetchAwaited(b, t, kind)
  BY <1>4, <1>5 DEF FetchAwaited
<1>9. ~FetchAwaited(b, s, "reference")
  BY <1>1 DEF FetchAwaited
<1>10. \A c \in Calls : fetch'[b][c] # Absent => fetch'[b][c].kind = "load"
  <2>1. \A c \in Calls : c # s
    BY WorkspaceAssumption
  <2> QED BY <1>s, <1>5, <2>1 DEF Waits
<1>11. \A a \in Browsers \ {b} : Same(a)
  BY <1>s, <1>1, <1>2, <1>5, <1>7 DEF Same
<1>12. Screen(b)'
  BY <1>s, <1>1, <1>2 DEF Screen
<1>13. Waits(b)'
  BY <1>s, <1>1, <1>2, <1>7, <1>8, <1>9, <1>10 DEF Waits
<1>14. Told'
  BY <1>s, <1>1, ToldKept
<1> QED BY <1>6, <1>11, <1>12, <1>13, <1>14, StepAt

LEMMA SaveReferenceKept ==
    ASSUME PageInv, NEW b \in Browsers, NEW s \in Slots, SaveReference(b, s)
    PROVE  PageInv'
<1>s. Shapes /\ Screen(b) /\ Waits(b) /\ Told
  BY DEF PageInv
<1>1. /\ reference[b] # Absent /\ ~reference[b].busy /\ fetch[b][s] = Absent
      /\ fetch' = [fetch EXCEPT ![b][s] = Fetch("reference")]
      /\ reference' = [reference EXCEPT ![b] = [busy |-> TRUE, expired |-> FALSE]]
      /\ UNCHANGED <<store, cookie, session, needsLogin, loading, rows, tab, editing,
                     form, sent>>
  BY DEF SaveReference, Start
<1>2. PICK e : e = [busy |-> TRUE, expired |-> FALSE]
  OBVIOUS
<1>3. e \in Editors /\ e # Absent /\ e.busy
  BY <1>2, Shaped DEF Editors
<1>4. PICK x : x = Fetch("reference")
  OBVIOUS
<1>5. x \in Fetches /\ x # Absent /\ x.kind = "reference" /\ x.mounted
  BY <1>4, FetchIsNew, Shaped
<1>6. /\ fetch' \in [Browsers -> [Slots \cup Calls -> Fetches \cup {Absent}]]
      /\ \A a \in Browsers \ {b} : fetch'[a] = fetch[a]
      /\ fetch'[b][s] = x
      /\ \A t \in (Slots \cup Calls) \ {s} : fetch'[b][t] = fetch[b][t]
  <2>1. fetch' = [fetch EXCEPT ![b][s] = x]
    BY <1>1, <1>4
  <2>2. x \in Fetches \cup {Absent} /\ s \in Slots \cup Calls
    BY <1>5
  <2> QED BY <1>s, <2>1, <2>2, SlotSet
<1>7. Shapes'
  BY <1>s, <1>1, <1>2, <1>3, <1>6 DEF Shapes, store
<1>8. \A a \in Browsers, c \in Calls : SaveAwaited(a, c)' <=> SaveAwaited(a, c)
  BY <1>1 DEF SaveAwaited
<1>9. \A t \in Slots \cup Calls, kind \in {"upload", "reference"} :
         FetchAwaited(b, t, kind)' <=>
            IF t = s THEN kind = "reference" ELSE FetchAwaited(b, t, kind)
  BY <1>5, <1>6 DEF FetchAwaited
<1>10. ~FetchAwaited(b, s, "upload")
  BY <1>1 DEF FetchAwaited
<1>11. \A c \in Calls : fetch'[b][c] # Absent => fetch'[b][c].kind = "load"
  <2>1. \A c \in Calls : c # s
    BY WorkspaceAssumption
  <2> QED BY <1>s, <1>6, <2>1 DEF Waits
<1>12. reference'[b] = e /\ \A a \in Browsers \ {b} : reference'[a] = reference[a]
  BY <1>s, <1>1, <1>2 DEF Shapes
<1>13. \A a \in Browsers \ {b} : Same(a)
  BY <1>s, <1>1, <1>6, <1>8, <1>12 DEF Same
<1>14. Screen(b)'
  BY <1>s, <1>1, <1>3, <1>12 DEF Screen
<1>15. Waits(b)'
  BY <1>s, <1>1, <1>3, <1>8, <1>9, <1>10, <1>11, <1>12 DEF Waits
<1>16. Told'
  BY <1>s, <1>1, ToldKept
<1> QED BY <1>7, <1>13, <1>14, <1>15, <1>16, StepAt

\* Search, Login and Logout: requests that only loading tells of.
LEMMA LoadingKept ==
    ASSUME PageInv, NEW b \in Browsers, NEW s \in Slots, NEW kind \in {"load", "login", "logout"},
           fetch[b][s] = Absent, Start(b, s, kind), loading' = [loading EXCEPT ![b] = TRUE],
           UNCHANGED <<store, cookie, session, needsLogin, rows, tab, editing, form,
                       reference, sent>>
    PROVE  PageInv'
<1>s. Shapes /\ Screen(b) /\ Told
  BY DEF PageInv
<1>1. PICK x : x = Fetch(kind)
  OBVIOUS
<1>2. x \in Fetches /\ x.kind = kind /\ fetch' = [fetch EXCEPT ![b][s] = x]
  BY <1>1, FetchIsNew DEF Start
<1>3. /\ fetch' \in [Browsers -> [Slots \cup Calls -> Fetches \cup {Absent}]]
      /\ \A a \in Browsers \ {b} : fetch'[a] = fetch[a]
  BY <1>s, <1>2, SlotSet
<1>4. Shapes'
  BY <1>s, <1>3 DEF Shapes, store
<1>5. \A a \in Browsers \ {b} : Same(a)
  BY <1>3 DEF Same, SaveAwaited
<1>6. Screen(b)'
  BY <1>s DEF Screen
<1>7. Waits(b)'
  <2>1. ~FetchAwaited(b, s, "upload") /\ ~FetchAwaited(b, s, "reference")
    BY DEF FetchAwaited
  <2>2. s \notin Calls
    BY WorkspaceAssumption
  <2> QED BY <1>2, <2>1, <2>2, QuietSlot
<1>8. Told'
  BY <1>s, ToldKept
<1> QED BY <1>4, <1>5, <1>6, <1>7, <1>8, StepAt

LEMMA UserKept ==
    ASSUME PageInv, NEW b \in Browsers, User(b)
    PROVE  PageInv'
<1>1. CASE Edit(b) \/ Type(b) \/ Cancel(b) \/ SwitchTab(b)
  BY <1>1, EditKept, TypeKept, CancelKept, SwitchTabKept
<1>2. ASSUME NEW c \in Calls, Save(b, c) PROVE PageInv'
  BY <1>2, SaveKept
<1>3. ASSUME NEW s \in Slots, Upload(b, s) \/ SaveReference(b, s) PROVE PageInv'
  BY <1>3, UploadKept, SaveReferenceKept
<1>4. ASSUME NEW s \in Slots, Search(b, s) \/ Login(b, s) \/ Logout(b, s) PROVE PageInv'
  BY <1>4, LoadingKept DEF Search, Login, Logout
<1> QED BY <1>1, <1>2, <1>3, <1>4 DEF User
-----------------------------------------------------------------------------
(* The store.                                                              *)

\* CatalogStore has the operators of Catalog a second time.
LEMMA SameCatalog ==
    /\ Store!Requests = Requests
    /\ Store!Refusals = Refusals
    /\ \A r : /\ Store!Creates(r) <=> Creates(r)
              /\ Store!Positions(r) = Positions(r)
              /\ \A i : Store!Names(r, i) <=> Names(r, i)
    /\ \A r, ps, vs, reqs : Store!Fresh(r, ps, vs, reqs) <=> Fresh(r, ps, vs, reqs)
<1>1. Store!Requests = Requests
  BY Zenon DEF Store!Requests, Requests, Store!Ask, Ask, Store!ValidDraft, ValidDraft,
     Store!Creates, Creates, Store!Positions, Positions, Store!Names, Names
<1>2. Store!Refusals = Refusals
  BY Zenon DEF Store!Refusals, Refusals
<1>3. \A r : /\ Store!Creates(r) <=> Creates(r)
             /\ Store!Positions(r) = Positions(r)
             /\ \A i : Store!Names(r, i) <=> Names(r, i)
  BY Zenon DEF Store!Creates, Creates, Store!Positions, Positions, Store!Names, Names
<1>4. \A r, ps, vs, reqs : Store!Fresh(r, ps, vs, reqs) <=> Fresh(r, ps, vs, reqs)
  BY Zenon DEF Store!Fresh, Fresh, Store!DrawnProducts, DrawnProducts, Store!DrawnVariants,
     DrawnVariants, Store!Asking, Asking, Store!Creates, Creates, Store!Positions, Positions,
     Store!Names, Names
<1> QED
  BY <1>1, <1>2, <1>3, <1>4

\* A set of positions that is not empty has a greatest one.
LEMMA Greatest ==
    ASSUME NEW n \in Nat, NEW S \in SUBSET (1..n), S # {}
    PROVE  \E m \in S : \A i \in S : i <= m
<1>1. PICK T : T = {n - i : i \in S}
  OBVIOUS
<1>2. T \subseteq Nat
  <2>1. \A i \in S : i \in 1..n
    OBVIOUS
  <2>2. \A i \in 1..n : n - i \in Nat
    OBVIOUS
  <2> QED BY <1>1, <2>1, <2>2
<1>3. T # {}
  <2>1. PICK i : i \in S
    OBVIOUS
  <2>2. n - i \in T
    BY <1>1, <2>1
  <2> QED BY <2>2
<1>4. PICK t \in T : \A u \in T : ~(<<u, t>> \in OpToRel(<, Nat))
  BY <1>2, <1>3, NatLessThanWellFounded, WFMin
<1>5. \A u \in T : ~(u < t)
  BY <1>2, <1>4 DEF OpToRel
<1>6. PICK m \in S : t = n - m
  BY <1>1
<1>7. ASSUME NEW i \in S PROVE i <= m
  <2>1. ~(n - i < n - m)
    BY <1>1, <1>5, <1>6
  <2> QED BY <2>1
<1> QED BY <1>7

LEMMA RequestTyped ==
    ASSUME NEW r \in Requests
    PROVE  /\ r.key \in Products /\ r.draft \in Draft
           /\ r.target \in Products \cup {Absent}
           /\ Creates(r) => r.expected = 0
           /\ ~Creates(r) => r.expected >= 1 /\ r.key = r.target
           /\ Len(r.draft.items) \in Nat /\ Positions(r) = 1..Len(r.draft.items)
           /\ \A i \in Positions(r) : r.keys[i] \in Variants /\ r.draft.items[i] \in Item
<1>1. r \in Ask /\ DOMAIN r.keys = Positions(r)
  BY DEF Requests
<1>2. r.draft \in Draft
  BY <1>1, CatalogAssumption DEF Ask
<1>3. r.draft.items \in Seq(Item)
  BY <1>2 DEF Draft
<1>4. PICK n \in 1..MaxItems : r.keys \in [1..n -> Variants]
  BY <1>1 DEF Ask
<1>5. \A i \in Positions(r) : r.keys[i] \in Variants
  BY <1>1, <1>4
<1>6. \A i \in Positions(r) : r.draft.items[i] \in Item
  BY <1>3 DEF Positions
<1>7. r.key \in Products /\ r.target \in Products \cup {Absent}
  BY <1>1 DEF Ask
<1>8. /\ Creates(r) => r.expected = 0
      /\ ~Creates(r) => r.expected >= 1 /\ r.key = r.target
  BY DEF Requests
<1> QED BY <1>2, <1>3, <1>5, <1>6, <1>7, <1>8 DEF Positions

\* The row a save leaves for a variant.
LEMMA SavedShaped ==
    ASSUME Shapes, NEW r \in Requests, NEW v \in Variants
    PROVE  /\ Store!Saved(r, v) \in VariantRow \cup {Absent}
           /\ v \in Store!Written(r) =>
                Store!Saved(r, v) # Absent /\ Store!Saved(r, v).product = r.key
<1>1. CASE v \in Store!Written(r)
  <2>1. PICK S : S = {i \in Positions(r) : r.keys[i] = v}
    OBVIOUS
  <2>2. S \in SUBSET (1..Len(r.draft.items)) /\ S # {} /\ Len(r.draft.items) \in Nat
    BY <1>1, <2>1, RequestTyped, SameCatalog DEF Store!Written
  <2>3. \E m \in S : \A j \in S : j <= m
    BY <2>2, Greatest
  <2>4. \E i \in Store!Positions(r) :
           r.keys[i] = v /\ \A j \in Store!Positions(r) : r.keys[j] = v => j <= i
    BY <2>1, <2>3, SameCatalog
  <2>5. PICK i \in Store!Positions(r) :
           Store!Saved(r, v) = [product |-> r.key, sku |-> r.draft.items[i].sku,
                                active |-> r.draft.items[i].active]
    BY <1>1, <2>4 DEF Store!Saved
  <2>6. r.key \in Products /\ r.draft.items[i] \in Item
    BY <2>5, RequestTyped, SameCatalog
  <2>7. Store!Saved(r, v) \in VariantRow
    BY <2>5, <2>6 DEF VariantRow, Item
  <2> QED BY <2>5, <2>7, AbsentAssumption
<1>2. CASE v \notin Store!Written(r)
  <2>1. variants[v] \in VariantRow \cup {Absent}
    BY DEF Shapes, VariantTable
  <2>2. Store!Saved(r, v) \in {variants[v]} \cup {[variants[v] EXCEPT !.active = FALSE]}
    BY <1>2 DEF Store!Saved
  <2>3. variants[v] = Absent => Store!Saved(r, v) = Absent
    BY <1>2 DEF Store!Saved
  <2> QED BY <1>2, <2>1, <2>2, <2>3 DEF VariantRow
<1> QED BY <1>1, <1>2

LEMMA SubmitShaped ==
    ASSUME Shapes, NEW c \in Calls, Store!Submit(c)
    PROVE  /\ req' \in [Calls -> Requests \cup {Absent}]
           /\ open' = [open EXCEPT ![c] = TRUE]
           /\ reply' = [reply EXCEPT ![c] = "waiting"]
           /\ req'[c] \in Requests /\ Fresh(req'[c], products, variants, req)
           /\ \A d \in Calls \ {c} : req'[d] = req[d]
           /\ UNCHANGED <<products, variants, audit>>
  BY SameCatalog DEF Shapes, Store!Submit, Store!tables

LEMMA ToldReply ==
    ASSUME Shapes, NEW c \in Calls, NEW what \in Replies \ {"none"}, Store!Tell(c, what)
    PROVE  /\ reply' \in [Calls -> Replies]
           /\ \A d \in Calls : reply'[d] # "none" <=> reply[d] # "none"
           /\ \A d \in Calls \ {c} : reply'[d] = reply[d]
  BY DEF Shapes, Store!Tell

LEMMA ApplyShaped ==
    ASSUME Shapes, NEW c \in Calls, req[c] # Absent, Store!Apply(c)
    PROVE  products' \in ProductTable /\ variants' \in VariantTable
<1>1. PICK r \in Requests : r = req[c]
  BY DEF Shapes
<1>2. /\ Creates(r) \/ products[r.key] # Absent
      /\ Store!Current(r) < MaxRevision
      /\ products' = [products EXCEPT ![r.key] =
           [slug |-> r.draft.slug, status |-> r.draft.status,
            content |-> r.draft.content, revision |-> Store!Current(r) + 1]]
      /\ variants' = [v \in Variants |-> Store!Saved(r, v)]
  BY <1>1, SameCatalog DEF Store!Apply, Store!Savable
<1>3. r.draft \in Draft /\ r.key \in Products
  BY RequestTyped
<1>4. Store!Current(r) \in 0..MaxRevision
  <2>1. CASE Creates(r)
    BY <2>1, SameCatalog, CatalogAssumption DEF Store!Current
  <2>2. CASE ~Creates(r)
    <3>1. products[r.key] \in ProductRow
      BY <1>2, <1>3, <2>2 DEF Shapes, ProductTable
    <3>2. products[r.key].revision \in 1..MaxRevision
      BY <3>1 DEF ProductRow
    <3> QED BY <2>2, <3>2, SameCatalog, CatalogAssumption DEF Store!Current
  <2> QED BY <2>1, <2>2
<1>5. Store!Current(r) + 1 \in 1..MaxRevision
  BY <1>2, <1>4, CatalogAssumption
<1>6. [slug |-> r.draft.slug, status |-> r.draft.status, content |-> r.draft.content,
       revision |-> Store!Current(r) + 1] \in ProductRow
  BY <1>3, <1>5 DEF Draft, ProductRow
<1>7. products' \in ProductTable
  BY <1>2, <1>6 DEF Shapes, ProductTable
<1>8. variants' \in VariantTable
  BY <1>2, SavedShaped DEF VariantTable
<1> QED BY <1>7, <1>8

\* What a step of a save endpoint past its submission may do.
LEMMA ServeShaped ==
    ASSUME Shapes, NEW c \in Calls, open[c] => req[c] # Absent,
           Store!Apply(c) \/ Store!Refuse(c) \/ Store!Drop(c) \/ Store!GiveUp(c)
    PROVE  /\ open[c] /\ req' = req
           /\ products' \in ProductTable /\ variants' \in VariantTable
           /\ open' \in [Calls -> BOOLEAN] /\ reply' \in [Calls -> Replies]
           /\ \A d \in Calls : open'[d] => open[d]
           /\ \A d \in Calls \ {c} : open'[d] = open[d] /\ reply'[d] = reply[d]
           /\ ~Store!Apply(c) => UNCHANGED <<products, variants>>
<1>1. CASE Store!Apply(c)
  <2>1. /\ open[c] /\ req' = req /\ open' = [open EXCEPT ![c] = FALSE]
        /\ Store!Tell(c, "OK")
    BY <1>1 DEF Store!Apply
  <2>2. "OK" \in Replies \ {"none"}
    BY DEF Replies
  <2>3. reply' \in [Calls -> Replies] /\ \A d \in Calls \ {c} : reply'[d] = reply[d]
    BY <2>1, <2>2, ToldReply
  <2> QED BY <1>1, <2>1, <2>3, ApplyShaped DEF Shapes
<1>2. CASE ~Store!Apply(c)
  <2>1. PICK what \in Replies \ {"none"} : Store!Tell(c, what)
    <3>1. CASE Store!Refuse(c)
      <4>1. PICK why \in Store!Grounds(req[c]) : Store!Tell(c, why)
        BY <3>1 DEF Store!Refuse
      <4>2. why \in Refusals
        BY SameCatalog DEF Store!Grounds
      <4> QED BY <4>1, <4>2 DEF Replies, Refusals
    <3>2. CASE Store!Drop(c) \/ Store!GiveUp(c)
      BY <3>2 DEF Store!Drop, Store!GiveUp, Replies
    <3> QED BY <1>2, <3>1, <3>2
  <2>2. reply' \in [Calls -> Replies] /\ \A d \in Calls \ {c} : reply'[d] = reply[d]
    BY <2>1, ToldReply
  <2>3. /\ open[c] /\ req' = req /\ UNCHANGED <<products, variants>>
        /\ open' = [open EXCEPT ![c] = FALSE] \/ open' = open
    BY <1>2 DEF Store!Refuse, Store!Drop, Store!GiveUp, Store!tables
  <2> QED BY <1>2, <2>2, <2>3 DEF Shapes
<1> QED BY <1>1, <1>2
-----------------------------------------------------------------------------
(* The steps of the API.                                                   *)

LEMMA AllSame ==
    ASSUME PageInv, Shapes', \A a \in Browsers : Same(a), Told'
    PROVE  PageInv'
  BY SameKept DEF PageInv

LEMMA ArriveKept ==
    ASSUME PageInv, NEW c \in Calls, Arrive(c)
    PROVE  PageInv'
<1>s. Shapes /\ Told
  BY DEF PageInv
<1>1. sent[c] \in Saves /\ sent[c] # Absent /\ UNCHANGED <<cookie, page, fetch>>
  BY <1>s DEF Arrive, Shapes
<1>2. \/ /\ sent' = [sent EXCEPT ![c].stage = "over", ![c].answer = "AUTH_REQUIRED"]
         /\ UNCHANGED store
      \/ /\ sent' = [sent EXCEPT ![c].stage = "inside"]
         /\ Store!Reject(c) \/ Store!Submit(c)
  BY DEF Arrive
<1>3. PICK r : r = sent'[c]
  OBVIOUS
<1>4. /\ r = [sent[c] EXCEPT !.stage = "inside"]
         \/ r = [sent[c] EXCEPT !.stage = "over", !.answer = "AUTH_REQUIRED"]
      /\ sent' = [sent EXCEPT ![c] = r]
  BY <1>s, <1>2, <1>3 DEF Shapes
<1>5. /\ r \in Saves /\ r # Absent /\ r.browser = sent[c].browser
      /\ r.awaited = sent[c].awaited /\ r.mounted = sent[c].mounted
  <2>1. CASE r = [sent[c] EXCEPT !.stage = "inside"]
    BY <1>1, <2>1, SaveParts, SaveFields, Shaped
  <2>2. CASE r = [sent[c] EXCEPT !.stage = "over", !.answer = "AUTH_REQUIRED"]
    BY <1>1, <2>2, SaveParts, SaveFields, Shaped
  <2> QED BY <1>4, <2>1, <2>2
<1>6. sent' \in [Calls -> Saves \cup {Absent}] /\ \A d \in Calls \ {c} : sent'[d] = sent[d]
  BY <1>s, <1>4, <1>5 DEF Shapes
<1>7. /\ products' = products /\ variants' = variants
      /\ req' \in [Calls -> Requests \cup {Absent}]
      /\ open' \in [Calls -> BOOLEAN] /\ reply' \in [Calls -> Replies]
      /\ \A d \in Calls \ {c} : /\ open'[d] = open[d] /\ reply'[d] = reply[d]
                                /\ req'[d] = req[d]
      /\ open'[c] => req'[c] # Absent
  <2>1. CASE UNCHANGED store
    BY <1>s, <2>1 DEF store, Shapes, Told
  <2>2. CASE Store!Reject(c)
    BY <1>s, <2>2 DEF Store!Reject, Store!tables, Shapes, Told, Replies, Refusals
  <2>3. CASE Store!Submit(c)
    <3>1. /\ req' \in [Calls -> Requests \cup {Absent}]
          /\ open' = [open EXCEPT ![c] = TRUE]
          /\ reply' = [reply EXCEPT ![c] = "waiting"]
          /\ req'[c] \in Requests
          /\ \A d \in Calls \ {c} : req'[d] = req[d]
          /\ UNCHANGED <<products, variants>>
      BY <1>s, <2>3, SubmitShaped
    <3>2. "waiting" \in Replies
      BY DEF Replies
    <3> QED BY <1>s, <3>1, <3>2, AbsentAssumption DEF Shapes
  <2> QED BY <1>2, <2>1, <2>2, <2>3
<1>8. Shapes'
  BY <1>s, <1>1, <1>6, <1>7 DEF Shapes, page
<1>9. \A a \in Browsers : Same(a)
  BY <1>1, <1>3, <1>5, <1>6 DEF Same, SaveAwaited, page
<1>10. Told'
  BY <1>s, <1>3, <1>5, <1>6, <1>7 DEF Told
<1> QED BY <1>8, <1>9, <1>10, AllSame

LEMMA ServeKept ==
    ASSUME PageInv, NEW c \in Calls, Serve(c)
    PROVE  PageInv'
<1>s. Shapes /\ Told
  BY DEF PageInv
<1>1. UNCHANGED <<cookie, page, sent, fetch>>
  BY DEF Serve
<1>2. /\ open[c] /\ req' = req
      /\ products' \in ProductTable /\ variants' \in VariantTable
      /\ open' \in [Calls -> BOOLEAN] /\ reply' \in [Calls -> Replies]
      /\ \A d \in Calls : open'[d] => open[d]
      /\ \A d \in Calls \ {c} : open'[d] = open[d] /\ reply'[d] = reply[d]
  BY <1>s, ServeShaped DEF Serve, Told
<1>3. Shapes'
  BY <1>s, <1>1, <1>2 DEF Shapes, page
<1>4. \A a \in Browsers : Same(a)
  BY <1>1 DEF Same, SaveAwaited, page
<1>5. Told'
  BY <1>s, <1>1, <1>2 DEF Told
<1> QED BY <1>3, <1>4, <1>5, AllSame

LEMMA AnswerKept ==
    ASSUME PageInv, NEW b \in Browsers, NEW s \in Slots \cup Calls, Answer(b, s)
    PROVE  PageInv'
<1>s. Shapes /\ Screen(b) /\ Waits(b) /\ Told
  BY DEF PageInv
<1>1. PICK f \in Fetches : f = fetch[b][s] /\ f # Absent
  BY <1>s DEF Answer, Shapes
<1>2. PICK what \in {"OK", "REFUSED", "AUTH_REQUIRED"} :
         fetch' = [fetch EXCEPT ![b][s].answer = what,
                                ![b][s].docs = IF f.kind = "load" THEN Listed ELSE {}]
  BY <1>1 DEF Answer
<1>3. cookie' = [cookie EXCEPT ![b] = @ /\ f.kind # "logout"] /\ UNCHANGED <<store, page, sent>>
  BY <1>1 DEF Answer
<1>4. PICK docs \in SUBSET Documents : docs = IF f.kind = "load" THEN Listed ELSE {}
  BY <1>s, ListedShaped
<1>5. PICK x : x = [f EXCEPT !.answer = what, !.docs = docs]
  OBVIOUS
<1>6. fetch' = [fetch EXCEPT ![b][s] = x]
  <2> DEFINE g == [fetch EXCEPT ![b] = [fetch[b] EXCEPT ![s] = [f EXCEPT !.answer = what]]]
  <2>1. /\ b \in DOMAIN g /\ s \in DOMAIN g[b] /\ g[b][s] = [f EXCEPT !.answer = what]
        /\ b \in DOMAIN fetch /\ s \in DOMAIN fetch[b]
    BY <1>s, <1>1 DEF Shapes
  <2>2. fetch' = [g EXCEPT ![b] = [g[b] EXCEPT ![s] = [g[b][s] EXCEPT !.docs = docs]]]
    BY <1>1, <1>2, <1>4, <2>1
  <2> QED BY <1>1, <1>5, <2>1, <2>2
<1>7. /\ x \in Fetches /\ x # Absent /\ x.kind = f.kind /\ x.mounted = f.mounted
  BY <1>5, AnswerParts, Shaped DEF Fetches
<1>8. /\ fetch' \in [Browsers -> [Slots \cup Calls -> Fetches \cup {Absent}]]
      /\ \A a \in Browsers \ {b} : fetch'[a] = fetch[a]
      /\ fetch'[b][s] = x
      /\ \A t \in (Slots \cup Calls) \ {s} : fetch'[b][t] = fetch[b][t]
  <2>1. x \in Fetches \cup {Absent}
    BY <1>7
  <2> QED BY <1>s, <1>6, <2>1, SlotSet
<1>9. cookie' \in [Browsers -> BOOLEAN]
  <2>1. PICK k \in BOOLEAN : k <=> cookie[b] /\ f.kind # "logout"
    OBVIOUS
  <2>2. cookie' = [cookie EXCEPT ![b] = k]
    BY <1>3, <2>1, Zenon
  <2> QED BY <1>s, <2>2 DEF Shapes
<1>10. Shapes'
  BY <1>s, <1>3, <1>8, <1>9 DEF Shapes, store, page
<1>11. \A a \in Browsers \ {b} : Same(a)
  BY <1>3, <1>8 DEF Same, SaveAwaited, page
<1>12. Screen(b)'
  BY <1>s, <1>3 DEF Screen, page
<1>13. \A t \in Slots \cup Calls, kind \in {"upload", "reference"} :
          FetchAwaited(b, t, kind)' <=> FetchAwaited(b, t, kind)
  BY <1>1, <1>7, <1>8 DEF FetchAwaited
<1>14. \A c \in Calls : SaveAwaited(b, c)' <=> SaveAwaited(b, c)
  BY <1>3 DEF SaveAwaited
<1>15. \A c \in Calls : fetch'[b][c] # Absent => fetch'[b][c].kind = "load"
  BY <1>s, <1>1, <1>7, <1>8 DEF Waits
<1>16. Waits(b)'
  BY <1>s, <1>3, <1>13, <1>14, <1>15 DEF Waits, page
<1>17. Told'
  BY <1>s, <1>3, ToldKept
<1> QED BY <1>10, <1>11, <1>12, <1>16, <1>17, StepAt

LEMMA ExpireKept ==
    ASSUME PageInv, NEW b \in Browsers, Expire(b)
    PROVE  PageInv'
<1>s. Shapes /\ Told
  BY DEF PageInv
<1>1. cookie' = [cookie EXCEPT ![b] = FALSE] /\ UNCHANGED <<store, page, sent, fetch>>
  BY DEF Expire
<1>2. Shapes'
  BY <1>s, <1>1 DEF Shapes, store, page
<1>3. \A a \in Browsers : Same(a)
  BY <1>1 DEF Same, SaveAwaited, page
<1>4. Told'
  BY <1>s, <1>1, ToldKept
<1> QED BY <1>2, <1>3, <1>4, AllSame
-----------------------------------------------------------------------------
(* The answers that are heard.                                             *)

\* The form of b is told expired: it is busy no more.
LEMMA FreedForm ==
    ASSUME Shapes, NEW b \in Browsers, form[b] # Absent, NEW expired \in BOOLEAN,
           form' = [form EXCEPT ![b].busy = FALSE, ![b].expired = expired]
    PROVE  /\ form' \in [Browsers -> Forms \cup {Absent}]
           /\ \A a \in Browsers \ {b} : form'[a] = form[a]
           /\ form'[b] # Absent /\ form'[b].base = form[b].base
           /\ ~form'[b].busy /\ form'[b].expired = expired
<1>1. form[b] \in Forms
  BY DEF Shapes
<1>2. form'[b] = [form[b] EXCEPT !.busy = FALSE, !.expired = expired]
  <2> DEFINE g == [form EXCEPT ![b] = [form[b] EXCEPT !.busy = FALSE]]
  <2>1. g[b] = [form[b] EXCEPT !.busy = FALSE] /\ b \in DOMAIN g
    BY DEF Shapes
  <2>2. form' = [g EXCEPT ![b] = [g[b] EXCEPT !.expired = expired]]
    BY Zenon
  <2> QED BY <2>1, <2>2
<1>3. form'[b] \in Forms
  BY <1>1, <1>2, FormParts, Zenon
<1>4. form'[b].base = form[b].base /\ ~form'[b].busy /\ form'[b].expired = expired
  <2>1. PICK f \in Forms : f = form[b]
    BY <1>1
  <2>2. PICK g : g = form'[b]
    OBVIOUS
  <2>3. PICK h : h = [f EXCEPT !.busy = FALSE]
    OBVIOUS
  <2>4. h \in Forms
    BY <2>3, FormParts, Zenon
  <2>5. h.base = f.base /\ ~h.busy
    BY <2>3, FormFreed, Zenon
  <2>6. g = [h EXCEPT !.expired = expired]
    BY <1>2, <2>1, <2>2, <2>3, Zenon
  <2>7. g.base = h.base /\ g.busy = h.busy /\ g.expired = expired
    BY <2>4, <2>6, FormExpired
  <2> QED BY <2>1, <2>2, <2>5, <2>7
<1> QED BY <1>3, <1>4, Shaped DEF Shapes

LEMMA ReleasedKept ==
    ASSUME PageInv, NEW c \in Calls, NEW b \in Browsers, NEW expired \in BOOLEAN,
           sent[c] # Absent, sent[c].awaited, b = sent[c].browser, Released(c, expired),
           needsLogin' \in [Browsers -> BOOLEAN],
           \A a \in Browsers \ {b} : needsLogin'[a] = needsLogin[a],
           needsLogin[b] \/ expired => needsLogin'[b],
           UNCHANGED <<store, cookie, session, loading, rows, tab, editing, reference, fetch>>
    PROVE  PageInv'
<1>s. Shapes /\ Screen(b) /\ Waits(b) /\ Told
  BY DEF PageInv
<1>1. PICK r : r = [sent[c] EXCEPT !.awaited = FALSE]
  OBVIOUS
<1>2. sent[c] \in Saves
  BY <1>s DEF Shapes
<1>3. sent' = [sent EXCEPT ![c] = r]
  BY <1>1 DEF Released
<1>4. r \in Saves /\ r # Absent /\ ~r.awaited
  BY <1>1, <1>2, SaveParts, SaveFields, Shaped
<1>5. /\ sent' \in [Calls -> Saves \cup {Absent}]
      /\ sent'[c] = r /\ \A d \in Calls \ {c} : sent'[d] = sent[d]
  BY <1>s, <1>3, <1>4 DEF Shapes
<1>6. \A a \in Browsers, d \in Calls : SaveAwaited(a, d)' <=> SaveAwaited(a, d) /\ d # c
  BY <1>4, <1>5 DEF SaveAwaited
<1>7. \A a \in Browsers \ {b} : ~SaveAwaited(a, c)
  BY DEF SaveAwaited
<1>8. \A t \in Slots \cup Calls, kind \in {"upload", "reference"} :
         FetchAwaited(b, t, kind)' <=> FetchAwaited(b, t, kind)
  BY DEF FetchAwaited
<1>9. Told'
  BY <1>s, <1>4, <1>5, ToldKept
<1>10. CASE sent[c].mounted
  <2>1. SaveAwaited(b, c)
    BY <1>10 DEF SaveAwaited
  <2>2. form[b] # Absent
    BY <1>s, <2>1 DEF Waits
  <2>3. form' = [form EXCEPT ![b].busy = FALSE, ![b].expired = expired]
    BY <1>10 DEF Released
  <2>4. /\ form' \in [Browsers -> Forms \cup {Absent}]
        /\ \A a \in Browsers \ {b} : form'[a] = form[a]
        /\ form'[b] # Absent /\ form'[b].base = form[b].base
        /\ ~form'[b].busy /\ form'[b].expired = expired
    BY <1>s, <2>2, <2>3, FreedForm
  <2>5. Shapes'
    BY <1>s, <1>5, <2>4 DEF Shapes, store
  <2>6. \A a \in Browsers \ {b} : Same(a)
    BY <1>6, <1>7, <2>4 DEF Same
  <2>7. Screen(b)'
    BY <1>s, <2>2, <2>4 DEF Screen
  <2>8. Waits(b)'
    BY <1>s, <1>6, <1>8, <2>1, <2>4 DEF Waits
  <2> QED BY <1>9, <2>5, <2>6, <2>7, <2>8, StepAt
<1>11. CASE ~sent[c].mounted
  <2>1. form' = form
    BY <1>11 DEF Released
  <2>2. \A a \in Browsers, d \in Calls : SaveAwaited(a, d)' <=> SaveAwaited(a, d)
    BY <1>6, <1>11 DEF SaveAwaited
  <2>3. Shapes'
    BY <1>s, <1>5, <2>1 DEF Shapes, store
  <2>4. \A a \in Browsers \ {b} : Same(a)
    BY <2>1, <2>2 DEF Same
  <2>5. Screen(b)'
    BY <1>s, <2>1 DEF Screen
  <2>6. Waits(b)'
    BY <1>s, <1>8, <2>1, <2>2 DEF Waits
  <2> QED BY <1>9, <2>3, <2>4, <2>5, <2>6, StepAt
<1> QED BY <1>10, <1>11

LEMMA RefusedKept ==
    ASSUME PageInv, NEW c \in Calls, Refused(c)
    PROVE  PageInv'
<1>s. Shapes
  BY DEF PageInv
<1>1. PICK e \in BOOLEAN : e = (AnswerTo(c) = "AUTH_REQUIRED")
  OBVIOUS
<1>2. PICK b \in Browsers : b = sent[c].browser
  BY <1>s DEF Shapes, Saves, Refused, Hears
<1>3. PICK k \in BOOLEAN : k = (needsLogin[b] \/ AnswerTo(c) = "AUTH_REQUIRED")
  OBVIOUS
<1>4. needsLogin' = [needsLogin EXCEPT ![b] = k]
  BY <1>2, <1>3, Zenon DEF Refused
<1>5. Released(c, e)
  BY <1>1, Zenon DEF Refused
<1>6. /\ needsLogin' \in [Browsers -> BOOLEAN] /\ needsLogin'[b] = k
      /\ \A a \in Browsers \ {b} : needsLogin'[a] = needsLogin[a]
  BY <1>s, <1>4 DEF Shapes
<1>7. needsLogin[b] \/ e => k
  BY <1>1, <1>3
<1>8. /\ sent[c] # Absent /\ sent[c].awaited
      /\ UNCHANGED <<store, cookie, session, loading, rows, tab, editing, reference, fetch>>
  BY DEF Refused, Hears
<1> QED BY <1>2, <1>5, <1>6, <1>7, <1>8, ReleasedKept

LEMMA GivenUpKept ==
    ASSUME PageInv, NEW c \in Calls, GivenUp(c)
    PROVE  PageInv'
<1>s. Shapes
  BY DEF PageInv
<1>1. PICK b \in Browsers : b = sent[c].browser
  BY <1>s DEF Shapes, Saves, GivenUp
<1>2. needsLogin' = needsLogin /\ needsLogin \in [Browsers -> BOOLEAN]
  BY <1>s DEF GivenUp, Shapes
<1>3. /\ sent[c] # Absent /\ sent[c].awaited /\ Released(c, FALSE)
      /\ UNCHANGED <<store, cookie, session, loading, rows, tab, editing, reference, fetch>>
  BY DEF GivenUp
<1> QED BY <1>1, <1>2, <1>3, ReleasedKept

LEMMA SavedKept ==
    ASSUME PageInv, NEW c \in Calls, Saved(c)
    PROVE  PageInv'
<1>s. Shapes /\ Told
  BY DEF PageInv
<1>1. PICK b \in Browsers : b = sent[c].browser
  BY <1>s DEF Shapes, Saves, Saved, Hears
<1>t. Screen(b) /\ Waits(b)
  BY DEF PageInv
<1>2. PICK x : x = Fetch("load")
  OBVIOUS
<1>3. x \in Fetches /\ x # Absent /\ x.kind = "load" /\ x.mounted
  BY <1>2, FetchIsNew, Shaped
<1>4. /\ sent[c] # Absent
      /\ editing' = [editing EXCEPT ![b] = Absent]
      /\ form' = [form EXCEPT ![b] = Absent]
      /\ sent' = [Orphaned(sent, b) EXCEPT ![c].awaited = FALSE]
      /\ fetch' = [fetch EXCEPT ![b] = [Orphans(fetch[b], {"upload"}) EXCEPT ![c] = x]]
      /\ loading' = [loading EXCEPT ![b] = TRUE]
      /\ UNCHANGED <<store, cookie, session, needsLogin, rows, tab, reference>>
  BY <1>1, <1>2 DEF Saved, Hears
<1>5. PICK o : o = Orphaned(sent, b)
  OBVIOUS
<1>6. /\ o \in [Calls -> Saves \cup {Absent}]
      /\ \A d \in Calls : /\ o[d] # Absent <=> sent[d] # Absent
                          /\ sent[d] # Absent =>
                                /\ o[d].browser = sent[d].browser
                                /\ o[d].awaited = sent[d].awaited
                                /\ o[d].mounted <=> sent[d].mounted /\ sent[d].browser # b
  BY <1>s, <1>5, OrphanedSaves DEF Shapes
<1>7. PICK r : r = [o[c] EXCEPT !.awaited = FALSE]
  OBVIOUS
<1>8. r \in Saves /\ r # Absent /\ ~r.awaited
  <2>1. o[c] \in Saves
    BY <1>4, <1>6
  <2> QED BY <1>7, <2>1, SaveParts, SaveFields, Shaped
<1>9. /\ sent' \in [Calls -> Saves \cup {Absent}]
      /\ sent'[c] = r /\ \A d \in Calls \ {c} : sent'[d] = o[d]
  BY <1>4, <1>5, <1>6, <1>7, <1>8
<1>10. \A a \in Browsers, d \in Calls : SaveAwaited(a, d)' <=> a # b /\ SaveAwaited(a, d)
  BY <1>1, <1>6, <1>8, <1>9 DEF SaveAwaited
<1>11. PICK g : g = Orphans(fetch[b], {"upload"})
  OBVIOUS
<1>12. fetch[b] \in [Slots \cup Calls -> Fetches \cup {Absent}]
  BY <1>s DEF Shapes
<1>13. /\ g \in [Slots \cup Calls -> Fetches \cup {Absent}]
       /\ \A s \in Slots \cup Calls :
             /\ g[s] # Absent <=> fetch[b][s] # Absent
             /\ fetch[b][s] # Absent =>
                   /\ g[s].kind = fetch[b][s].kind
                   /\ g[s].mounted <=> fetch[b][s].mounted /\ fetch[b][s].kind # "upload"
  BY <1>11, <1>12, OrphansFetches
<1>14. /\ fetch' \in [Browsers -> [Slots \cup Calls -> Fetches \cup {Absent}]]
       /\ \A a \in Browsers \ {b} : fetch'[a] = fetch[a]
       /\ fetch'[b][c] = x
       /\ \A t \in (Slots \cup Calls) \ {c} : fetch'[b][t] = g[t]
  BY <1>s, <1>3, <1>4, <1>11, <1>13 DEF Shapes
<1>15. \A t \in Slots \cup Calls, kind \in {"upload", "reference"} :
          FetchAwaited(b, t, kind)' <=> FetchAwaited(b, t, kind) /\ kind # "upload"
  <2>1. fetch[b][c] # Absent => fetch[b][c].kind = "load"
    BY <1>t DEF Waits
  <2>2. \A t \in (Slots \cup Calls) \ {c}, kind \in {"upload", "reference"} :
          FetchAwaited(b, t, kind)' <=> FetchAwaited(b, t, kind) /\ kind # "upload"
    BY <1>13, <1>14 DEF FetchAwaited
  <2>3. \A kind \in {"upload", "reference"} :
           ~FetchAwaited(b, c, kind)' /\ ~FetchAwaited(b, c, kind)
    BY <1>3, <1>14, <2>1 DEF FetchAwaited
  <2> QED BY <2>2, <2>3
<1>16. \A d \in Calls : fetch'[b][d] # Absent => fetch'[b][d].kind = "load"
  BY <1>t, <1>3, <1>13, <1>14 DEF Waits
<1>17. Shapes'
  BY <1>s, <1>4, <1>9, <1>14 DEF Shapes, store
<1>18. form'[b] = Absent /\ editing'[b] = Absent
  BY <1>s, <1>4 DEF Shapes
<1>19. \A a \in Browsers \ {b} : Same(a)
  BY <1>s, <1>4, <1>10, <1>14 DEF Same, Shapes
<1>20. Screen(b)'
  BY <1>t, <1>4, <1>18 DEF Screen
<1>21. Waits(b)'
  BY <1>t, <1>4, <1>10, <1>15, <1>16, <1>18 DEF Waits
<1>22. Told'
  BY <1>s, <1>4, <1>6, <1>8, <1>9, ToldKept
<1> QED BY <1>17, <1>19, <1>20, <1>21, <1>22, StepAt

\* Loaded: the list, or the login when the session is over.
LEMMA LoadedKept ==
    ASSUME PageInv, NEW b \in Browsers, NEW s \in Slots \cup Calls, Loaded(b, s)
    PROVE  PageInv'
<1>s. Shapes /\ Screen(b) /\ Told
  BY DEF PageInv
<1>1. PICK f \in Fetches : f = fetch[b][s] /\ f # Absent /\ f.kind = "load"
  BY <1>s DEF Loaded, Ready, Shapes
<1>2. /\ fetch' = [fetch EXCEPT ![b][s] = Absent]
      /\ loading' = [loading EXCEPT ![b] = FALSE]
      /\ \/ needsLogin' = [needsLogin EXCEPT ![b] = TRUE] /\ UNCHANGED rows
         \/ rows' = [rows EXCEPT ![b] = f.docs] /\ UNCHANGED needsLogin
      /\ UNCHANGED <<store, cookie, session, tab, editing, form, reference, sent>>
  BY <1>1 DEF Loaded, Done
<1>3. f.docs \in SUBSET Documents
  BY DEF Fetches
<1>4. /\ fetch' \in [Browsers -> [Slots \cup Calls -> Fetches \cup {Absent}]]
      /\ \A a \in Browsers \ {b} : fetch'[a] = fetch[a]
  BY <1>s, <1>2, SlotSet
<1>5. Shapes'
  BY <1>s, <1>2, <1>3, <1>4 DEF Shapes, store
<1>6. \A a \in Browsers \ {b} : Same(a)
  BY <1>s, <1>2, <1>4 DEF Same, SaveAwaited, Shapes
<1>7. Screen(b)'
  BY <1>s, <1>2 DEF Screen, Shapes
<1>8. Waits(b)'
  <2>1. ~FetchAwaited(b, s, "upload") /\ ~FetchAwaited(b, s, "reference")
    BY <1>1 DEF FetchAwaited
  <2> QED BY <1>2, <2>1, QuietSlot
<1>9. Told'
  BY <1>s, <1>2, ToldKept
<1> QED BY <1>5, <1>6, <1>7, <1>8, <1>9, StepAt

\* A login is answered: current() goes on in its slot, or nothing does.
LEMMA LoggedInKept ==
    ASSUME PageInv, NEW b \in Browsers, NEW s \in Slots \cup Calls, LoggedIn(b, s)
    PROVE  PageInv'
<1>s. Shapes /\ Screen(b) /\ Waits(b) /\ Told
  BY DEF PageInv
<1>1. fetch[b][s] # Absent /\ fetch[b][s].kind = "login"
  BY DEF LoggedIn, Ready
<1>2. s \notin Calls
  BY <1>s, <1>1 DEF Waits
<1>3. PICK x \in Fetches \cup {Absent} :
        /\ fetch' = [fetch EXCEPT ![b][s] = x]
        /\ x # Absent => x.kind = "current"
  BY FetchIsNew DEF LoggedIn, Start, Done
<1>4. /\ cookie' = [cookie EXCEPT ![b] = TRUE] \/ cookie' = cookie
      /\ loading' = [loading EXCEPT ![b] = FALSE] \/ loading' = loading
      /\ UNCHANGED <<store, session, needsLogin, rows, tab, editing, form, reference, sent>>
  BY DEF LoggedIn
<1>5. /\ fetch' \in [Browsers -> [Slots \cup Calls -> Fetches \cup {Absent}]]
      /\ \A a \in Browsers \ {b} : fetch'[a] = fetch[a]
  BY <1>s, <1>3, SlotSet
<1>6. Shapes'
  BY <1>s, <1>4, <1>5 DEF Shapes, store
<1>7. \A a \in Browsers \ {b} : Same(a)
  BY <1>4, <1>5 DEF Same, SaveAwaited
<1>8. Screen(b)'
  BY <1>s, <1>4 DEF Screen
<1>9. Waits(b)'
  <2>1. ~FetchAwaited(b, s, "upload") /\ ~FetchAwaited(b, s, "reference")
    BY <1>1 DEF FetchAwaited
  <2> QED BY <1>2, <1>3, <1>4, <2>1, QuietSlot
<1>10. Told'
  BY <1>s, <1>4, ToldKept
<1> QED BY <1>6, <1>7, <1>8, <1>9, <1>10, StepAt

\* Forms that were told to sign in are told so no more.
LEMMA ForgivenForms ==
    /\ Forgiven(Absent) = Absent
    /\ \A f \in Forms : /\ Forgiven(f) \in Forms
                        /\ Forgiven(f).base = f.base /\ Forgiven(f).busy = f.busy
                        /\ ~Forgiven(f).expired
    /\ \A e \in Editors : /\ Forgiven(e) \in Editors /\ Forgiven(e).busy = e.busy
<1>1. ASSUME NEW f \in Forms
      PROVE  /\ Forgiven(f) \in Forms
             /\ Forgiven(f).base = f.base /\ Forgiven(f).busy = f.busy
             /\ ~Forgiven(f).expired
  BY Shaped DEF Forgiven, Forms
<1>2. ASSUME NEW e \in Editors
      PROVE  Forgiven(e) \in Editors /\ Forgiven(e).busy = e.busy
  BY Shaped DEF Forgiven, Editors
<1> QED BY <1>1, <1>2 DEF Forgiven

LEMMA CurrentKept ==
    ASSUME PageInv, NEW b \in Browsers, NEW s \in Slots \cup Calls, Current(b, s)
    PROVE  PageInv'
<1>s. Shapes /\ Screen(b) /\ Waits(b) /\ Told
  BY DEF PageInv
<1>1. fetch[b][s] # Absent /\ fetch[b][s].kind = "current"
  BY DEF Current, Ready
<1>2. s \notin Calls
  BY <1>s, <1>1 DEF Waits
<1>3. ~FetchAwaited(b, s, "upload") /\ ~FetchAwaited(b, s, "reference")
  BY <1>1 DEF FetchAwaited
<1>4. UNCHANGED <<store, cookie, rows, tab, editing, sent>>
  BY DEF Current
<1>5. Told'
  BY <1>s, <1>4, ToldKept
<1>6. CASE fetch[b][s].answer = "OK"
  <2>1. PICK x : x = Fetch("load")
    OBVIOUS
  <2>2. x \in Fetches /\ x # Absent /\ x.kind = "load"
    BY <2>1, FetchIsNew, Shaped
  <2>3. PICK g, e :
          /\ g = Forgiven(form[b])
          /\ e = IF session[b] \/ tab[b] = "products" THEN Forgiven(reference[b]) ELSE Editor
    OBVIOUS
  <2>4. /\ session' = [session EXCEPT ![b] = TRUE]
        /\ needsLogin' = [needsLogin EXCEPT ![b] = FALSE]
        /\ form' = [form EXCEPT ![b] = g] /\ reference' = [reference EXCEPT ![b] = e]
        /\ fetch' = [fetch EXCEPT ![b][s] = x]
        /\ loading' = [loading EXCEPT ![b] = TRUE]
    BY <1>6, <2>1, <2>3 DEF Current, Start
  <2>5. /\ g \in Forms \cup {Absent}
        /\ g # Absent <=> form[b] # Absent
        /\ g # Absent => g.base = form[b].base /\ g.busy = form[b].busy /\ ~g.expired
    BY <1>s, <2>3, ForgivenForms, Shaped DEF Shapes
  <2>6. /\ e \in Editors \cup {Absent}
        /\ e # Absent <=> tab[b] = "references"
        /\ (e # Absent /\ e.busy) <=> (reference[b] # Absent /\ reference[b].busy)
    <3>1. reference[b] \in Editors \cup {Absent} /\ tab[b] \in {"products", "references"}
      BY <1>s, WorkspaceAssumption DEF Shapes
    <3>2. Editor \in Editors /\ Editor # Absent /\ ~Editor.busy
      BY Shaped DEF Editor, Editors
    <3>3. reference[b] # Absent <=> session[b] /\ tab[b] = "references"
      BY <1>s DEF Screen
    <3>4. CASE session[b] \/ tab[b] = "products"
      BY <2>3, <3>1, <3>3, <3>4, ForgivenForms, Shaped
    <3>5. CASE ~(session[b] \/ tab[b] = "products")
      BY <2>3, <3>1, <3>2, <3>3, <3>5
    <3> QED BY <3>4, <3>5
  <2>7. /\ fetch' \in [Browsers -> [Slots \cup Calls -> Fetches \cup {Absent}]]
        /\ \A a \in Browsers \ {b} : fetch'[a] = fetch[a]
    BY <1>s, <2>2, <2>4, SlotSet
  <2>8. Shapes'
    BY <1>s, <1>4, <2>4, <2>5, <2>6, <2>7 DEF Shapes, store
  <2>9. \A a \in Browsers \ {b} : Same(a)
    BY <1>s, <1>4, <2>4, <2>7 DEF Same, SaveAwaited, Shapes
  <2>10. /\ session'[b] /\ ~needsLogin'[b] /\ form'[b] = g /\ reference'[b] = e
    BY <1>s, <2>4 DEF Shapes
  <2>11. Screen(b)'
    BY <1>s, <1>4, <2>5, <2>6, <2>10 DEF Screen
  <2>12. Waits(b)'
    <3>1. (form'[b] # Absent /\ form'[b].busy) <=> (form[b] # Absent /\ form[b].busy)
      BY <2>5, <2>10
    <3>2. (reference'[b] # Absent /\ reference'[b].busy)
             <=> (reference[b] # Absent /\ reference[b].busy)
      BY <2>6, <2>10
    <3> QED BY <1>2, <1>3, <1>4, <2>2, <2>4, <3>1, <3>2, QuietSlot
  <2> QED BY <1>5, <2>8, <2>9, <2>11, <2>12, StepAt
<1>7. CASE fetch[b][s].answer # "OK"
  <2>1. /\ fetch' = [fetch EXCEPT ![b][s] = Absent]
        /\ loading' = [loading EXCEPT ![b] = FALSE]
        /\ UNCHANGED <<session, needsLogin, form, reference>>
    BY <1>7 DEF Current, Done
  <2>2. /\ fetch' \in [Browsers -> [Slots \cup Calls -> Fetches \cup {Absent}]]
        /\ \A a \in Browsers \ {b} : fetch'[a] = fetch[a]
    BY <1>s, <2>1, SlotSet
  <2>3. Shapes'
    BY <1>s, <1>4, <2>1, <2>2 DEF Shapes, store
  <2>4. \A a \in Browsers \ {b} : Same(a)
    BY <1>4, <2>1, <2>2 DEF Same, SaveAwaited
  <2>5. Screen(b)'
    BY <1>s, <1>4, <2>1 DEF Screen
  <2>6. Waits(b)'
    BY <1>3, <1>4, <2>1, QuietSlot
  <2> QED BY <1>5, <2>3, <2>4, <2>5, <2>6, StepAt
<1> QED BY <1>6, <1>7

LEMMA LoggedOutKept ==
    ASSUME PageInv, NEW b \in Browsers, NEW s \in Slots \cup Calls, LoggedOut(b, s)
    PROVE  PageInv'
<1> DEFINE kinds == {"upload", "reference"}
<1>s. Shapes /\ Screen(b) /\ Waits(b) /\ Told
  BY DEF PageInv
<1>1. /\ session' = [session EXCEPT ![b] = FALSE]
      /\ editing' = [editing EXCEPT ![b] = Absent]
      /\ form' = [form EXCEPT ![b] = Absent]
      /\ reference' = [reference EXCEPT ![b] = Absent]
      /\ rows' = [rows EXCEPT ![b] = {}]
      /\ sent' = Orphaned(sent, b)
      /\ fetch' = [fetch EXCEPT ![b] = [Orphans(fetch[b], kinds) EXCEPT ![s] = Absent]]
      /\ loading' = [loading EXCEPT ![b] = FALSE]
      /\ UNCHANGED <<store, cookie, needsLogin, tab>>
  BY DEF LoggedOut
<1>2. Orphaned(sent, b) \in [Calls -> Saves \cup {Absent}]
  BY <1>s, OrphanedSaves DEF Shapes
<1>3. PICK g : g = Orphans(fetch[b], kinds)
  OBVIOUS
<1>4. fetch[b] \in [Slots \cup Calls -> Fetches \cup {Absent}]
  BY <1>s DEF Shapes
<1>5. /\ g \in [Slots \cup Calls -> Fetches \cup {Absent}]
      /\ \A t \in Slots \cup Calls :
            /\ g[t] # Absent <=> fetch[b][t] # Absent
            /\ fetch[b][t] # Absent =>
                  /\ g[t].kind = fetch[b][t].kind
                  /\ g[t].mounted <=> fetch[b][t].mounted /\ fetch[b][t].kind \notin kinds
  BY <1>3, <1>4, OrphansFetches
<1>6. /\ fetch' \in [Browsers -> [Slots \cup Calls -> Fetches \cup {Absent}]]
      /\ \A a \in Browsers \ {b} : fetch'[a] = fetch[a]
      /\ fetch'[b][s] = Absent
      /\ \A t \in (Slots \cup Calls) \ {s} : fetch'[b][t] = g[t]
  BY <1>s, <1>1, <1>3, <1>5 DEF Shapes
<1>7. \A a \in Browsers, c \in Calls : SaveAwaited(a, c)' <=> a # b /\ SaveAwaited(a, c)
  BY <1>s, <1>1, OrphanedAwaited DEF Shapes
<1>8. \A t \in Slots \cup Calls, kind \in kinds : ~FetchAwaited(b, t, kind)'
  BY <1>5, <1>6 DEF FetchAwaited
<1>9. \A c \in Calls : fetch'[b][c] # Absent => fetch'[b][c].kind = "load"
  BY <1>s, <1>5, <1>6 DEF Waits
<1>10. Shapes'
  BY <1>s, <1>1, <1>2, <1>6 DEF Shapes, store
<1>11. ~session'[b] /\ editing'[b] = Absent /\ form'[b] = Absent /\ reference'[b] = Absent
  BY <1>s, <1>1 DEF Shapes
<1>12. \A a \in Browsers \ {b} : Same(a)
  BY <1>s, <1>1, <1>6, <1>7 DEF Same, Shapes
<1>13. Screen(b)'
  BY <1>11 DEF Screen
<1>14. Waits(b)'
  BY <1>7, <1>8, <1>9, <1>11 DEF Waits
<1>15. Told'
  BY <1>s, <1>1, OrphanedSaves, ToldKept DEF Shapes
<1> QED BY <1>10, <1>12, <1>13, <1>14, <1>15, StepAt

\* The one answer the ProductEditor of b awaits is that of an upload.
LEMMA UploadOver ==
    ASSUME PageInv, NEW b \in Browsers, NEW s \in Slots \cup Calls,
           FetchAwaited(b, s, "upload"), fetch' = [fetch EXCEPT ![b][s] = Absent],
           sent' = sent, reference' = reference, form'[b] # Absent => ~form'[b].busy
    PROVE  Waits(b)'
<1>s. Shapes /\ Waits(b)
  BY DEF PageInv
<1>1. fetch'[b][s] = Absent /\ \A t \in (Slots \cup Calls) \ {s} : fetch'[b][t] = fetch[b][t]
  BY <1>s DEF Shapes
<1>2. \A t \in Slots \cup Calls, kind \in {"upload", "reference"} :
         FetchAwaited(b, t, kind)' <=> FetchAwaited(b, t, kind) /\ t # s
  BY <1>1 DEF FetchAwaited
<1>3. ~FetchAwaited(b, s, "reference")
  BY DEF FetchAwaited
<1>4. \A c \in Calls : SaveAwaited(b, c)' <=> SaveAwaited(b, c)
  BY DEF SaveAwaited
<1>5. \A c \in Calls : fetch'[b][c] # Absent => fetch'[b][c].kind = "load"
  BY <1>s, <1>1 DEF Waits
<1> QED BY <1>s, <1>2, <1>3, <1>4, <1>5 DEF Waits

\* ... or the one its ReferenceEditor awaits is there, and a load may follow.
LEMMA ReferenceOver ==
    ASSUME PageInv, NEW b \in Browsers, NEW s \in Slots \cup Calls,
           FetchAwaited(b, s, "reference"), NEW x \in Fetches \cup {Absent},
           x # Absent => x.kind = "load", fetch' = [fetch EXCEPT ![b][s] = x],
           sent' = sent, form' = form, reference'[b] # Absent => ~reference'[b].busy
    PROVE  Waits(b)'
<1>s. Shapes /\ Waits(b)
  BY DEF PageInv
<1>1. fetch'[b][s] = x /\ \A t \in (Slots \cup Calls) \ {s} : fetch'[b][t] = fetch[b][t]
  BY <1>s DEF Shapes
<1>2. \A t \in Slots \cup Calls, kind \in {"upload", "reference"} :
         FetchAwaited(b, t, kind)' <=> FetchAwaited(b, t, kind) /\ t # s
  BY <1>1 DEF FetchAwaited
<1>3. ~FetchAwaited(b, s, "upload")
  BY DEF FetchAwaited
<1>4. \A c \in Calls : SaveAwaited(b, c)' <=> SaveAwaited(b, c)
  BY DEF SaveAwaited
<1>5. \A c \in Calls : fetch'[b][c] # Absent => fetch'[b][c].kind = "load"
  BY <1>s, <1>1 DEF Waits
<1> QED BY <1>s, <1>2, <1>3, <1>4, <1>5 DEF Waits

LEMMA ReferenceSavedKept ==
    ASSUME PageInv, NEW b \in Browsers, NEW s \in Slots \cup Calls, ReferenceSaved(b, s)
    PROVE  PageInv'
<1>s. Shapes /\ Screen(b) /\ Waits(b) /\ Told
  BY DEF PageInv
<1>1. PICK f \in Fetches : f = fetch[b][s] /\ f # Absent /\ f.kind = "reference"
  BY <1>s DEF ReferenceSaved, Ready, Shapes
<1>2. PICK k \in BOOLEAN : k = (f.answer = "AUTH_REQUIRED")
  OBVIOUS
<1>3. PICK e : e = [busy |-> FALSE, expired |-> k]
  OBVIOUS
<1>4. e \in Editors /\ e # Absent /\ ~e.busy
  BY <1>3, Shaped DEF Editors
<1>5. reference' = IF f.mounted THEN [reference EXCEPT ![b] = e] ELSE reference
  BY <1>1, <1>2, <1>3, Zenon DEF ReferenceSaved
<1>6. PICK x \in Fetches \cup {Absent} :
        /\ fetch' = [fetch EXCEPT ![b][s] = x]
        /\ x # Absent => x.kind = "load"
  BY FetchIsNew DEF ReferenceSaved, Start, Done
<1>7. /\ loading' = [loading EXCEPT ![b] = TRUE] \/ loading' = loading
      /\ UNCHANGED <<store, cookie, session, needsLogin, rows, tab, editing, form, sent>>
  BY DEF ReferenceSaved
<1>8. /\ fetch' \in [Browsers -> [Slots \cup Calls -> Fetches \cup {Absent}]]
      /\ \A a \in Browsers \ {b} : fetch'[a] = fetch[a]
  BY <1>s, <1>6, SlotSet
<1>9. Told'
  BY <1>s, <1>7, ToldKept
<1>10. CASE f.mounted
  <2>1. FetchAwaited(b, s, "reference")
    BY <1>1, <1>10 DEF FetchAwaited
  <2>2. reference[b] # Absent
    BY <1>s, <2>1 DEF Waits
  <2>3. /\ reference' \in [Browsers -> Editors \cup {Absent}] /\ reference'[b] = e
        /\ \A a \in Browsers \ {b} : reference'[a] = reference[a]
    BY <1>s, <1>4, <1>5, <1>10 DEF Shapes
  <2>4. Shapes'
    BY <1>s, <1>7, <1>8, <2>3 DEF Shapes, store
  <2>5. \A a \in Browsers \ {b} : Same(a)
    BY <1>7, <1>8, <2>3 DEF Same, SaveAwaited
  <2>6. Screen(b)'
    BY <1>s, <1>4, <1>7, <2>2, <2>3 DEF Screen
  <2>7. Waits(b)'
    BY <1>4, <1>6, <1>7, <2>1, <2>3, ReferenceOver
  <2> QED BY <1>9, <2>4, <2>5, <2>6, <2>7, StepAt
<1>11. CASE ~f.mounted
  <2>1. reference' = reference
    BY <1>5, <1>11
  <2>2. Shapes'
    BY <1>s, <1>7, <1>8, <2>1 DEF Shapes, store
  <2>3. \A a \in Browsers \ {b} : Same(a)
    BY <1>7, <1>8, <2>1 DEF Same, SaveAwaited
  <2>4. Screen(b)'
    BY <1>s, <1>7, <2>1 DEF Screen
  <2>5. Waits(b)'
    <3>1. ~FetchAwaited(b, s, "upload") /\ ~FetchAwaited(b, s, "reference")
      BY <1>1, <1>11 DEF FetchAwaited
    <3> QED BY <1>6, <1>7, <2>1, <3>1, QuietSlot
  <2> QED BY <1>9, <2>2, <2>3, <2>4, <2>5, StepAt
<1> QED BY <1>10, <1>11

\* The form of b is busy no more; its draft is d.
LEMMA FreedDraft ==
    ASSUME Shapes, NEW b \in Browsers, form[b] # Absent, NEW d \in Draft,
           \/ form' = [form EXCEPT ![b].busy = FALSE]
           \/ form' = [form EXCEPT ![b].busy = FALSE, ![b].draft = d]
    PROVE  /\ form' \in [Browsers -> Forms \cup {Absent}]
           /\ \A a \in Browsers \ {b} : form'[a] = form[a]
           /\ form'[b] # Absent /\ form'[b].base = form[b].base
           /\ ~form'[b].busy /\ form'[b].expired = form[b].expired
<1>1. form[b] \in Forms
  BY DEF Shapes
<1>2. \/ form'[b] = [form[b] EXCEPT !.busy = FALSE]
      \/ form'[b] = [form[b] EXCEPT !.busy = FALSE, !.draft = d]
  <2>1. CASE form' = [form EXCEPT ![b].busy = FALSE]
    BY <2>1 DEF Shapes
  <2>2. CASE form' = [form EXCEPT ![b].busy = FALSE, ![b].draft = d]
    <3> DEFINE g == [form EXCEPT ![b] = [form[b] EXCEPT !.busy = FALSE]]
    <3>1. g[b] = [form[b] EXCEPT !.busy = FALSE] /\ b \in DOMAIN g
      BY DEF Shapes
    <3>2. form' = [g EXCEPT ![b] = [g[b] EXCEPT !.draft = d]]
      BY <2>2, Zenon
    <3> QED BY <3>1, <3>2
  <2> QED BY <2>1, <2>2
<1>3. /\ form'[b] \in Forms /\ form'[b].base = form[b].base
      /\ ~form'[b].busy /\ form'[b].expired = form[b].expired
  <2>1. CASE form'[b] = [form[b] EXCEPT !.busy = FALSE]
    <3>1. form'[b] \in Forms
      BY <1>1, <2>1, FormParts
    <3> QED BY <1>1, <2>1, <3>1, FormFreed
  <2>2. CASE form'[b] = [form[b] EXCEPT !.busy = FALSE, !.draft = d]
    <3>1. form'[b] \in Forms
      BY <1>1, <2>2, DraftParts
    <3>2. PICK f \in Forms : f = form[b]
      BY <1>1
    <3>3. PICK h : h = [f EXCEPT !.busy = FALSE]
      OBVIOUS
    <3>4. h \in Forms
      BY <3>3, FormParts, Zenon
    <3>5. h.base = f.base /\ ~h.busy /\ h.expired = f.expired
      BY <3>3, FormFreed, Zenon
    <3>6. PICK g : g = form'[b]
      OBVIOUS
    <3>7. g = [h EXCEPT !.draft = d]
      BY <2>2, <3>2, <3>3, <3>6, Zenon
    <3>8. g.base = h.base /\ g.busy = h.busy /\ g.expired = h.expired
      BY <3>4, <3>7, FormDrafted, Zenon
    <3> QED BY <3>1, <3>2, <3>5, <3>6, <3>8
  <2> QED BY <1>2, <2>1, <2>2
<1>4. \A a \in Browsers \ {b} : form'[a] = form[a]
  BY DEF Shapes
<1>5. form' \in [Browsers -> Forms \cup {Absent}]
  <2>1. DOMAIN form' = Browsers /\ form' = [a \in Browsers |-> form'[a]]
    BY DEF Shapes
  <2> QED BY <1>3, <1>4, <2>1 DEF Shapes
<1> QED BY <1>3, <1>4, <1>5, Shaped

LEMMA UploadedKept ==
    ASSUME PageInv, NEW b \in Browsers, NEW s \in Slots \cup Calls, Uploaded(b, s)
    PROVE  PageInv'
<1>s. Shapes /\ Screen(b) /\ Waits(b) /\ Told
  BY DEF PageInv
<1>1. PICK f \in Fetches : f = fetch[b][s] /\ f # Absent /\ f.kind = "upload"
  BY <1>s DEF Uploaded, Ready, Shapes
<1>2. PICK k \in BOOLEAN : k = (f.answer = "AUTH_REQUIRED")
  OBVIOUS
<1>3. PICK n \in BOOLEAN : n = (needsLogin[b] \/ f.answer = "AUTH_REQUIRED")
  OBVIOUS
<1>4. needsLogin' = [needsLogin EXCEPT ![b] = n]
  BY <1>1, <1>3, Zenon DEF Uploaded
<1>5. /\ needsLogin' \in [Browsers -> BOOLEAN] /\ needsLogin'[b] = n
      /\ \A a \in Browsers \ {b} : needsLogin'[a] = needsLogin[a]
  BY <1>s, <1>4 DEF Shapes
<1>6. /\ fetch' = [fetch EXCEPT ![b][s] = Absent]
      /\ UNCHANGED <<store, cookie, session, loading, rows, tab, editing, reference, sent>>
  BY DEF Uploaded, Done
<1>7. /\ fetch' \in [Browsers -> [Slots \cup Calls -> Fetches \cup {Absent}]]
      /\ \A a \in Browsers \ {b} : fetch'[a] = fetch[a]
  BY <1>s, <1>6, SlotSet
<1>8. Told'
  BY <1>s, <1>6, ToldKept
<1>9. needsLogin[b] \/ k => n
  BY <1>2, <1>3
<1>10. CASE f.mounted
  <2>1. FetchAwaited(b, s, "upload")
    BY <1>1, <1>10 DEF FetchAwaited
  <2>2. form[b] # Absent
    BY <1>s, <2>1 DEF Waits
  <2>3. /\ form' \in [Browsers -> Forms \cup {Absent}]
        /\ \A a \in Browsers \ {b} : form'[a] = form[a]
        /\ form'[b] # Absent /\ form'[b].base = form[b].base
        /\ ~form'[b].busy
        /\ form'[b].expired => form[b].expired \/ k
    <3>1. CASE f.answer # "OK"
      <4>1. form' = [form EXCEPT ![b].busy = FALSE, ![b].expired = k]
        BY <1>1, <1>2, <1>10, <3>1, Zenon DEF Uploaded
      <4> QED BY <1>s, <2>2, <4>1, FreedForm
    <3>2. CASE f.answer = "OK"
      <4>1. PICK d \in Drafts : form' = [form EXCEPT ![b].busy = FALSE, ![b].draft = d]
        BY <1>1, <1>10, <3>2 DEF Uploaded, Typed
      <4>2. d \in Draft
        BY CatalogAssumption
      <4> QED BY <1>s, <2>2, <4>1, <4>2, FreedDraft
    <3> QED BY <3>1, <3>2
  <2>4. Shapes'
    BY <1>s, <1>5, <1>6, <1>7, <2>3 DEF Shapes, store
  <2>5. \A a \in Browsers \ {b} : Same(a)
    BY <1>5, <1>6, <1>7, <2>3 DEF Same, SaveAwaited
  <2>6. Screen(b)'
    BY <1>s, <1>5, <1>6, <1>9, <2>2, <2>3 DEF Screen
  <2>7. Waits(b)'
    BY <1>6, <2>1, <2>3, UploadOver
  <2> QED BY <1>8, <2>4, <2>5, <2>6, <2>7, StepAt
<1>11. CASE ~f.mounted
  <2>1. form' = form
    BY <1>1, <1>11 DEF Uploaded
  <2>2. Shapes'
    BY <1>s, <1>5, <1>6, <1>7, <2>1 DEF Shapes, store
  <2>3. \A a \in Browsers \ {b} : Same(a)
    BY <1>5, <1>6, <1>7, <2>1 DEF Same, SaveAwaited
  <2>4. Screen(b)'
    BY <1>s, <1>5, <1>6, <1>9, <2>1 DEF Screen
  <2>5. Waits(b)'
    <3>1. ~FetchAwaited(b, s, "upload") /\ ~FetchAwaited(b, s, "reference")
      BY <1>1, <1>11 DEF FetchAwaited
    <3> QED BY <1>6, <2>1, <3>1, QuietSlot
  <2> QED BY <1>8, <2>2, <2>3, <2>4, <2>5, StepAt
<1> QED BY <1>10, <1>11

LEMMA FailedKept ==
    ASSUME PageInv, NEW b \in Browsers, NEW s \in Slots \cup Calls, Failed(b, s)
    PROVE  PageInv'
<1>s. Shapes /\ Screen(b) /\ Waits(b) /\ Told
  BY DEF PageInv
<1>1. PICK f \in Fetches : f = fetch[b][s] /\ f # Absent
  BY <1>s DEF Failed, Shapes
<1>2. PICK k \in BOOLEAN : k = (loading[b] /\ f.kind \in {"reference", "upload"})
  OBVIOUS
<1>3. loading' = [loading EXCEPT ![b] = k]
  BY <1>1, <1>2, Zenon DEF Failed
<1>4. /\ fetch' = [fetch EXCEPT ![b][s] = Absent]
      /\ form' = IF f.kind = "upload" /\ f.mounted
                   THEN [form EXCEPT ![b].busy = FALSE] ELSE form
      /\ reference' = IF f.kind = "reference" /\ f.mounted
                        THEN [reference EXCEPT ![b].busy = FALSE] ELSE reference
      /\ UNCHANGED <<store, cookie, session, needsLogin, rows, tab, editing, sent>>
  BY <1>1 DEF Failed, Done
<1>5. /\ fetch' \in [Browsers -> [Slots \cup Calls -> Fetches \cup {Absent}]]
      /\ \A a \in Browsers \ {b} : fetch'[a] = fetch[a]
  BY <1>s, <1>4, SlotSet
<1>6. loading' \in [Browsers -> BOOLEAN]
  BY <1>s, <1>3 DEF Shapes
<1>7. Told'
  BY <1>s, <1>4, ToldKept
<1>8. CASE f.kind = "upload" /\ f.mounted
  <2>1. FetchAwaited(b, s, "upload")
    BY <1>1, <1>8 DEF FetchAwaited
  <2>2. form[b] # Absent
    BY <1>s, <2>1 DEF Waits
  <2>3. reference' = reference /\ form' = [form EXCEPT ![b].busy = FALSE]
    BY <1>4, <1>8
  <2>4. form[b].draft \in Draft
    BY <1>s, <2>2 DEF Shapes, Forms
  <2>5. /\ form' \in [Browsers -> Forms \cup {Absent}]
        /\ \A a \in Browsers \ {b} : form'[a] = form[a]
        /\ form'[b] # Absent /\ form'[b].base = form[b].base
        /\ ~form'[b].busy /\ form'[b].expired = form[b].expired
    BY <1>s, <2>2, <2>3, <2>4, FreedDraft
  <2>6. Shapes'
    BY <1>s, <1>4, <1>5, <1>6, <2>3, <2>5 DEF Shapes, store
  <2>7. \A a \in Browsers \ {b} : Same(a)
    BY <1>4, <1>5, <2>3, <2>5 DEF Same, SaveAwaited
  <2>8. Screen(b)'
    BY <1>s, <1>4, <2>2, <2>3, <2>5 DEF Screen
  <2>9. Waits(b)'
    BY <1>4, <2>1, <2>3, <2>5, UploadOver
  <2> QED BY <1>7, <2>6, <2>7, <2>8, <2>9, StepAt
<1>9. CASE f.kind = "reference" /\ f.mounted
  <2>1. FetchAwaited(b, s, "reference")
    BY <1>1, <1>9 DEF FetchAwaited
  <2>2. reference[b] # Absent
    BY <1>s, <2>1 DEF Waits
  <2>3. form' = form /\ reference' = [reference EXCEPT ![b].busy = FALSE]
    BY <1>4, <1>9
  <2>4. PICK e : e = [reference[b] EXCEPT !.busy = FALSE]
    OBVIOUS
  <2>5. e \in Editors /\ e # Absent /\ ~e.busy
    <3>1. reference[b] \in Editors
      BY <1>s, <2>2 DEF Shapes
    <3> QED BY <2>4, <3>1, Shaped DEF Editors
  <2>6. /\ reference' \in [Browsers -> Editors \cup {Absent}] /\ reference'[b] = e
        /\ \A a \in Browsers \ {b} : reference'[a] = reference[a]
    BY <1>s, <2>3, <2>4, <2>5 DEF Shapes
  <2>7. Shapes'
    BY <1>s, <1>4, <1>5, <1>6, <2>3, <2>6 DEF Shapes, store
  <2>8. \A a \in Browsers \ {b} : Same(a)
    BY <1>4, <1>5, <2>3, <2>6 DEF Same, SaveAwaited
  <2>9. Screen(b)'
    BY <1>s, <1>4, <2>2, <2>3, <2>5, <2>6 DEF Screen
  <2>10. Waits(b)'
    <3>1. Absent \in Fetches \cup {Absent}
      OBVIOUS
    <3> QED BY <1>4, <2>1, <2>3, <2>5, <2>6, <3>1, ReferenceOver
  <2> QED BY <1>7, <2>7, <2>8, <2>9, <2>10, StepAt
<1>10. CASE ~(f.mounted /\ f.kind \in {"upload", "reference"})
  <2>1. form' = form /\ reference' = reference
    BY <1>4, <1>10
  <2>2. Shapes'
    BY <1>s, <1>4, <1>5, <1>6, <2>1 DEF Shapes, store
  <2>3. \A a \in Browsers \ {b} : Same(a)
    BY <1>4, <1>5, <2>1 DEF Same, SaveAwaited
  <2>4. Screen(b)'
    BY <1>s, <1>4, <2>1 DEF Screen
  <2>5. Waits(b)'
    <3>1. ~FetchAwaited(b, s, "upload") /\ ~FetchAwaited(b, s, "reference")
      BY <1>1, <1>10 DEF FetchAwaited
    <3> QED BY <1>4, <2>1, <3>1, QuietSlot
  <2> QED BY <1>7, <2>2, <2>3, <2>4, <2>5, StepAt
<1> QED BY <1>8, <1>9, <1>10
-----------------------------------------------------------------------------
(* The page: what is shown, and what is waited for.                        *)

LEMMA PageInit ==
    ASSUME Init
    PROVE  PageInv
<1>1. /\ products \in ProductTable /\ variants \in VariantTable
      /\ req = [c \in Calls |-> Absent] /\ open = [c \in Calls |-> FALSE]
      /\ reply = [c \in Calls |-> "none"]
  BY DatabasesAssumption DEF Init, Store!Init
<1>2. "none" \in Replies /\ "products" \in Tabs
  BY WorkspaceAssumption DEF Replies
<1>3. Shapes
  <2>1. /\ req \in [Calls -> Requests \cup {Absent}]
        /\ open \in [Calls -> BOOLEAN] /\ reply \in [Calls -> Replies]
    BY <1>1, <1>2
  <2>2. rows \in [Browsers -> SUBSET Documents]
    <3>1. ASSUME NEW p \in Products, products[p] # Absent PROVE Document(p) \in Documents
      BY <1>1, <3>1, DocumentShaped
    <3> QED BY <3>1 DEF Init, Listed
  <2> QED BY <1>1, <1>2, <2>1, <2>2 DEF Init, Shapes
<1>4. \A b \in Browsers : Screen(b) /\ Waits(b)
  BY DEF Init, Screen, Waits, SaveAwaited, FetchAwaited
<1>5. Told
  BY <1>1 DEF Told
<1> QED BY <1>3, <1>4, <1>5 DEF PageInv

LEMMA PageStep ==
    ASSUME PageInv, [Next]_vars
    PROVE  PageInv'
<1>1. ASSUME NEW b \in Browsers, User(b) PROVE PageInv'
  BY <1>1, UserKept
<1>2. ASSUME NEW b \in Browsers, Expire(b) PROVE PageInv'
  BY <1>2, ExpireKept
<1>3. ASSUME NEW b \in Browsers, NEW s \in Slots \cup Calls, Answer(b, s) \/ Receive(b, s)
      PROVE  PageInv'
  BY <1>3, AnswerKept, LoadedKept, LoggedInKept, CurrentKept, LoggedOutKept,
     ReferenceSavedKept, UploadedKept, FailedKept DEF Receive
<1>4. ASSUME NEW c \in Calls, Arrive(c) \/ Serve(c) \/ Hear(c) PROVE PageInv'
  BY <1>4, ArriveKept, ServeKept, SavedKept, RefusedKept, GivenUpKept DEF Hear
<1>5. CASE UNCHANGED vars
  <2>1. UNCHANGED <<store, cookie, page, sent, fetch>>
    BY <1>5 DEF vars
  <2>2. Shapes' /\ Told'
    BY <2>1 DEF PageInv, Shapes, Told, store, page
  <2>3. \A a \in Browsers : Same(a)
    BY <2>1 DEF Same, SaveAwaited, page
  <2> QED BY <2>2, <2>3, AllSame
<1> QED BY <1>1, <1>2, <1>3, <1>4, <1>5 DEF Next

\* What each browser shows and whose answers it awaits agree in every state,
\* whatever the user does while requests are under way.
THEOREM PageHolds == Spec => []PageInv
  BY PageInit, PageStep, PTL DEF Spec

LEMMA OneOrNone ==
    ASSUME NEW S, \A x, y \in S : x = y
    PROVE  Cardinality(S) = IF S = {} THEN 0 ELSE 1
<1>1. CASE S = {}
  <2>1. Cardinality({}) = 0
    BY FS_EmptySet
  <2> QED BY <1>1, <2>1
<1>2. CASE S # {}
  <2>1. PICK x \in S : S = {x}
    BY <1>2
  <2>2. Cardinality({x}) = 1
    BY FS_Singleton
  <2> QED BY <1>2, <2>1, <2>2
<1> QED BY <1>1, <1>2

\* A form is busy exactly when it awaits the answer to one request of its own,
\* whatever was closed, opened and answered meanwhile.
LEMMA OneAnswerAwaited ==
    ASSUME PageInv, NEW b \in Browsers
    PROVE  /\ Cardinality(Waiting(b)) = IF form[b] # Absent /\ form[b].busy THEN 1 ELSE 0
           /\ Cardinality(Asked(b, "reference")) =
                 IF reference[b] # Absent /\ reference[b].busy THEN 1 ELSE 0
<1>s. Waits(b)
  BY DEF PageInv
<1>1. \A c : c \in Waiting(b) <=> \/ c \in Calls /\ SaveAwaited(b, c)
                                  \/ c \in Slots \cup Calls /\ FetchAwaited(b, c, "upload")
  BY DEF Waiting, Asked, SaveAwaited, FetchAwaited
<1>2. \A x, y \in Waiting(b) : x = y
  BY <1>s, <1>1 DEF Waits
<1>3. Waiting(b) = {} <=> ~(form[b] # Absent /\ form[b].busy)
  BY <1>s, <1>1 DEF Waits
<1>4. \A s : s \in Asked(b, "reference") <=>
                s \in Slots \cup Calls /\ FetchAwaited(b, s, "reference")
  BY DEF Asked, FetchAwaited
<1>5. \A x, y \in Asked(b, "reference") : x = y
  BY <1>s, <1>4 DEF Waits
<1>6. Asked(b, "reference") = {} <=> ~(reference[b] # Absent /\ reference[b].busy)
  BY <1>s, <1>4 DEF Waits
<1> QED BY <1>2, <1>3, <1>5, <1>6, OneOrNone

\* TypeOK: each variable has its type, the editors are on the page exactly when
\* the session, the tab and the product say so, and a form is busy exactly when
\* it waits for the answer to one request of its own.
THEOREM TypeCorrect == Spec => []TypeOK
<1>1. ASSUME PageInv PROVE TypeOK
  <2>1. ASSUME NEW b \in Browsers
        PROVE  /\ {cookie[b], session[b], needsLogin[b], loading[b]} \subseteq BOOLEAN
               /\ tab[b] \in Tabs
               /\ form[b] # Absent => form[b] \in Forms
               /\ reference[b] # Absent => reference[b] \in Editors
    BY <1>1 DEF PageInv, Shapes
  <2>2. \A b \in Browsers : Screen(b)
    BY <1>1 DEF PageInv
  <2>3. \A c \in Calls : reply[c] # "none" => sent[c] # Absent
    BY <1>1 DEF PageInv, Told
  <2> QED BY <1>1, <2>1, <2>2, <2>3, OneAnswerAwaited DEF TypeOK, Screen
<1> QED BY <1>1, PageHolds, PTL

\* The product editor that was told to sign in has the login beside it until
\* the user has signed in.
THEOREM EditorsOfferSignIn == Spec => []EditorOffersSignIn
<1>1. ASSUME PageInv PROVE EditorOffersSignIn
  BY <1>1 DEF PageInv, Screen, EditorOffersSignIn, LoginShown
<1> QED BY <1>1, PageHolds, PTL
-----------------------------------------------------------------------------
(* Documents.                                                              *)

\* The catalog has what d says, or a later revision of it.
Seen(d) ==
    /\ products[d.key] # Absent
    /\ d.row.revision <= products[d.key].revision
    /\ d.row.revision = products[d.key].revision => d = Document(d.key)

\* So it is with every document a browser keeps, edits or is being sent, and
\* with those that saves under way started from.
Known ==
    /\ \A b \in Browsers : \A d \in rows[b] : Seen(d)
    /\ \A b \in Browsers : editing[b] \in Documents => Seen(editing[b])
    /\ \A b \in Browsers, s \in Slots \cup Calls :
          fetch[b][s] # Absent => \A d \in fetch[b][s].docs : Seen(d)
    /\ \A c \in Calls : (sent[c] # Absent /\ sent[c].base # New) => Seen(sent[c].base)

Revisions ==
    \A c \in Calls : sent[c] # Absent =>
        sent[c].revision = IF sent[c].base = New THEN 0 ELSE sent[c].base.row.revision

\* A call that updates asks for the document its editor was opened on.
Forwarded ==
    \A c \in Calls : (open[c] /\ ~Creates(req[c])) =>
        /\ sent[c].base # New
        /\ req[c].key = sent[c].base.key
        /\ req[c].expected = sent[c].revision

\* The identities a call has drawn are no row's until it takes effect, and no
\* other call's.
DrawnApart ==
    \A c, d \in Calls : (c # d /\ req[c] # Absent /\ req[d] # Absent) =>
        /\ (Creates(req[c]) /\ Creates(req[d])) => req[c].key # req[d].key
        /\ \A i \in Positions(req[c]), j \in Positions(req[d]) :
              (~Names(req[c], i) /\ ~Names(req[d], j)) => req[c].keys[i] # req[d].keys[j]

DrawnFree ==
    \A c \in Calls : open[c] =>
        /\ Creates(req[c]) => products[req[c].key] = Absent
        /\ \A i \in Positions(req[c]) : ~Names(req[c], i) => variants[req[c].keys[i]] = Absent

EditInv == PageInv /\ Known /\ Revisions /\ Forwarded /\ DrawnApart /\ DrawnFree

\* A step hands documents on: from the catalog to an answer, from there to the
\* table, from the table to the editor, and from the editor to a save.
RowsHanded ==
    \A b \in Browsers :
        \/ rows'[b] \in {rows[b], {}}
        \/ \E s \in Slots \cup Calls :
              fetch[b][s] # Absent /\ rows'[b] = fetch[b][s].docs

EditingHanded ==
    \A b \in Browsers : editing'[b] \in {editing[b], New, Absent} \cup rows[b]

AnswersHanded ==
    \A b \in Browsers, s \in Slots \cup Calls : fetch'[b][s] # Absent =>
        \/ fetch'[b][s].docs \in {{}, Listed}
        \/ fetch[b][s] # Absent /\ fetch'[b][s].docs = fetch[b][s].docs

SavesHanded ==
    \A c \in Calls : sent'[c] # Absent =>
        \/ /\ sent[c] # Absent /\ sent'[c].base = sent[c].base
           /\ sent'[c].revision = sent[c].revision
        \/ /\ sent[c] = Absent
           /\ \E b \in Browsers : form[b] # Absent /\ sent'[c].base = form[b].base
           /\ sent'[c].revision = IF sent'[c].base = New THEN 0
                                  ELSE sent'[c].base.row.revision

HandedOn == RowsHanded /\ EditingHanded /\ AnswersHanded /\ SavesHanded

LEMMA ListedSeen ==
    ASSUME PageInv, NEW d \in Listed
    PROVE  Seen(d)
<1>1. PICK p \in Products : products[p] # Absent /\ d = Document(p)
  BY DEF Listed
<1>2. d.key = p /\ d.row = products[p]
  BY <1>1 DEF Document
<1>3. products[p].revision \in 1..MaxRevision
  BY <1>1 DEF PageInv, Shapes, ProductTable, ProductRow
<1> QED BY <1>1, <1>2, <1>3, CatalogAssumption DEF Seen

\* What was true of a document stays so while the catalog does not change.
LEMMA HandedOnKept ==
    ASSUME EditInv, HandedOn, UNCHANGED <<products, variants>>
    PROVE  Known' /\ Revisions'
<1>p. PageInv
  BY DEF EditInv
<1>1. \A d : Seen(d)' <=> Seen(d)
  BY DEF Seen, Document
<1>2. ASSUME NEW b \in Browsers, NEW d \in rows'[b] PROVE Seen(d)
  BY <1>2 DEF HandedOn, RowsHanded, EditInv, Known
<1>3. ASSUME NEW b \in Browsers, editing'[b] \in Documents PROVE Seen(editing'[b])
  <2>1. editing'[b] # New /\ editing'[b] # Absent
    BY <1>3, Shaped
  <2> QED BY <1>3, <2>1 DEF HandedOn, EditingHanded, EditInv, Known
<1>4. ASSUME NEW b \in Browsers, NEW s \in Slots \cup Calls, fetch'[b][s] # Absent,
             NEW d \in fetch'[b][s].docs
      PROVE  Seen(d)
  <2>1. CASE fetch'[b][s].docs \in {{}, Listed}
    BY <1>p, <1>4, <2>1, ListedSeen
  <2>2. CASE fetch[b][s] # Absent /\ fetch'[b][s].docs = fetch[b][s].docs
    BY <1>4, <2>2 DEF EditInv, Known
  <2> QED BY <1>4, <2>1, <2>2 DEF HandedOn, AnswersHanded
<1>5. ASSUME NEW c \in Calls, sent'[c] # Absent
      PROVE  /\ sent'[c].base # New => Seen(sent'[c].base)
             /\ sent'[c].revision = IF sent'[c].base = New THEN 0
                                    ELSE sent'[c].base.row.revision
  <2>1. CASE /\ sent[c] # Absent /\ sent'[c].base = sent[c].base
             /\ sent'[c].revision = sent[c].revision
    BY <2>1 DEF EditInv, Known, Revisions
  <2>2. CASE /\ \E b \in Browsers : form[b] # Absent /\ sent'[c].base = form[b].base
             /\ sent'[c].revision = IF sent'[c].base = New THEN 0
                                    ELSE sent'[c].base.row.revision
    <3>1. PICK b \in Browsers : form[b] # Absent /\ sent'[c].base = form[b].base
      BY <2>2
    <3>2. form[b].base = editing[b] /\ form[b].base \in Documents \cup {New}
      BY <1>p, <3>1 DEF PageInv, Screen, Shapes, Forms
    <3> QED BY <2>2, <3>1, <3>2 DEF EditInv, Known
  <2> QED BY <1>5, <2>1, <2>2 DEF HandedOn, SavesHanded
<1>6. Known'
  BY <1>1, <1>2, <1>3, <1>4, <1>5 DEF Known
<1>7. Revisions'
  BY <1>5 DEF Revisions
<1> QED BY <1>6, <1>7

\* The catalog as it was, save that calls may be over.
LEMMA CatalogSame ==
    ASSUME EditInv, PageInv', HandedOn, UNCHANGED <<products, variants, req>>,
           \A c \in Calls : open'[c] => open[c]
    PROVE  EditInv'
<1>1. Known' /\ Revisions'
  BY HandedOnKept
<1>2. ASSUME NEW c \in Calls, open'[c] PROVE sent'[c].base = sent[c].base /\ sent'[c].revision = sent[c].revision
  <2>1. sent[c] # Absent /\ sent'[c] # Absent
    BY <1>2 DEF EditInv, PageInv, Told
  <2> QED BY <2>1 DEF HandedOn, SavesHanded
<1>3. Forwarded'
  BY <1>2 DEF EditInv, Forwarded, Creates
<1>4. DrawnApart'
  <2>1. \A c \in Calls : req'[c] = req[c]
    OBVIOUS
  <2>2. DrawnApart
    BY DEF EditInv
  <2> QED BY <2>1, <2>2, SMT DEF DrawnApart, Creates, Names, Positions
<1>5. DrawnFree'
  BY DEF EditInv, DrawnFree, Creates, Names, Positions
<1> QED BY <1>1, <1>3, <1>4, <1>5 DEF EditInv

LEMMA SlotHanded ==
    ASSUME Shapes, NEW b \in Browsers, NEW s \in Slots \cup Calls,
           NEW x \in Fetches \cup {Absent}, fetch' = [fetch EXCEPT ![b][s] = x],
           x # Absent => \/ x.docs \in {{}, Listed}
                         \/ fetch[b][s] # Absent /\ x.docs = fetch[b][s].docs
    PROVE  AnswersHanded
<1>1. /\ \A a \in Browsers \ {b} : fetch'[a] = fetch[a]
      /\ fetch'[b][s] = x
      /\ \A t \in (Slots \cup Calls) \ {s} : fetch'[b][t] = fetch[b][t]
  BY SlotSet
<1> QED BY <1>1 DEF AnswersHanded

LEMMA StartHanded ==
    ASSUME Shapes, NEW b \in Browsers, NEW s \in Slots \cup Calls,
           NEW kind \in {"load", "login", "logout", "current", "upload", "reference"},
           Start(b, s, kind) \/ Done(b, s)
    PROVE  AnswersHanded
<1>1. CASE Start(b, s, kind)
  <2>1. PICK x : x = Fetch(kind)
    OBVIOUS
  <2>2. x \in Fetches \cup {Absent} /\ x.docs = {} /\ fetch' = [fetch EXCEPT ![b][s] = x]
    BY <1>1, <2>1, FetchIsNew DEF Start
  <2> QED BY <2>2, SlotHanded
<1>2. CASE Done(b, s)
  <2>1. PICK x : x = Absent
    OBVIOUS
  <2>2. x \in Fetches \cup {Absent} /\ fetch' = [fetch EXCEPT ![b][s] = x]
    BY <1>2, <2>1 DEF Done
  <2> QED BY <2>1, <2>2, SlotHanded
<1> QED BY <1>1, <1>2

LEMMA OrphansHanded ==
    ASSUME Shapes, NEW b \in Browsers, NEW kinds,
           \A a \in Browsers \ {b} : fetch'[a] = fetch[a],
           \A s \in Slots \cup Calls :
              fetch'[b][s] \in {Orphans(fetch[b], kinds)[s], Absent, Fetch("load")}
    PROVE  AnswersHanded
<1>1. fetch[b] \in [Slots \cup Calls -> Fetches \cup {Absent}]
  BY DEF Shapes
<1>2. PICK g \in [Slots \cup Calls -> Fetches \cup {Absent}] : g = Orphans(fetch[b], kinds)
  BY <1>1, OrphansFetches
<1>3. \A s \in Slots \cup Calls : g[s] # Absent =>
         fetch[b][s] # Absent /\ g[s].docs = fetch[b][s].docs
  <2>1. PICK fs \in [Slots \cup Calls -> Fetches \cup {Absent}] : fs = fetch[b]
    BY <1>1
  <2>2. g = Orphans(fs, kinds)
    BY <1>2, <2>1
  <2>3. \A s \in Slots \cup Calls : g[s] # Absent => fs[s] # Absent /\ g[s].docs = fs[s].docs
    BY <2>2, OrphansFetches
  <2> QED BY <2>1, <2>3
<1>4. PICK x : x = Fetch("load")
  OBVIOUS
<1>5. x.docs = {}
  BY <1>4, FetchIsNew
<1>6. \A s \in Slots \cup Calls : fetch'[b][s] \in {g[s], Absent, x}
  BY <1>2, <1>4
<1> QED BY <1>3, <1>5, <1>6 DEF AnswersHanded

\* Who waits changes, what was sent does not.
LEMMA OrphanedHanded ==
    ASSUME Shapes, NEW b \in Browsers, sent' = Orphaned(sent, b)
    PROVE  SavesHanded
  BY OrphanedSaves DEF Shapes, SavesHanded

LEMMA UnheardHanded ==
    ASSUME Shapes, NEW c \in Calls, sent[c] # Absent,
           NEW g \in [Calls -> Saves \cup {Absent}],
           \A d \in Calls : /\ g[d] # Absent <=> sent[d] # Absent
                            /\ g[d] # Absent => /\ g[d].base = sent[d].base
                                                /\ g[d].revision = sent[d].revision,
           sent' = [g EXCEPT ![c].awaited = FALSE]
    PROVE  SavesHanded
<1>1. g[c] \in Saves
  OBVIOUS
<1>2. sent'[c] = [g[c] EXCEPT !.awaited = FALSE] /\ \A d \in Calls \ {c} : sent'[d] = g[d]
  OBVIOUS
<1>3. sent'[c].base = g[c].base /\ sent'[c].revision = g[c].revision
  BY <1>1, <1>2 DEF Saves
<1> QED BY <1>1, <1>2, <1>3, Shaped DEF SavesHanded

LEMMA UserHanded ==
    ASSUME Shapes, NEW b \in Browsers, User(b)
    PROVE  HandedOn /\ UNCHANGED store
<1>1. CASE Edit(b)
  <2>1. PICK product \in rows[b] \cup {New} : editing' = [editing EXCEPT ![b] = product]
    BY <1>1 DEF Edit
  <2>2. /\ sent' = Orphaned(sent, b) /\ UNCHANGED <<store, rows>>
        /\ fetch' = [fetch EXCEPT ![b] = Orphans(fetch[b], {"upload"})]
    BY <1>1 DEF Edit
  <2>3. EditingHanded
    BY <2>1 DEF EditingHanded, Shapes
  <2>4. AnswersHanded
    BY <2>2, OrphansHanded DEF Shapes
  <2> QED BY <2>2, <2>3, <2>4, OrphanedHanded DEF HandedOn, RowsHanded
<1>2. CASE Type(b)
  BY <1>2 DEF Type, HandedOn, RowsHanded, EditingHanded, AnswersHanded, SavesHanded
<1>3. CASE Cancel(b)
  <2>1. /\ editing' = [editing EXCEPT ![b] = Absent] /\ sent' = Orphaned(sent, b)
        /\ UNCHANGED <<store, rows, fetch>>
    BY <1>3 DEF Cancel
  <2>2. EditingHanded
    BY <2>1 DEF EditingHanded, Shapes
  <2> QED BY <2>1, <2>2, OrphanedHanded DEF HandedOn, RowsHanded, AnswersHanded
<1>4. CASE SwitchTab(b)
  <2>1. /\ sent' = Orphaned(sent, b) /\ UNCHANGED <<store, rows, editing>>
        /\ fetch' = [fetch EXCEPT ![b] = Orphans(fetch[b], {"upload", "reference"})]
    BY <1>4 DEF SwitchTab
  <2>2. AnswersHanded
    BY <2>1, OrphansHanded DEF Shapes
  <2> QED BY <2>1, <2>2, OrphanedHanded DEF HandedOn, RowsHanded, EditingHanded
<1>5. ASSUME NEW c \in Calls, Save(b, c) PROVE HandedOn /\ UNCHANGED store
  <2>1. /\ form[b] # Absent /\ sent[c] = Absent
        /\ sent' = [sent EXCEPT ![c] = Request(b, BaseRevision(b))]
        /\ UNCHANGED <<store, rows, editing, fetch>>
    BY <1>5 DEF Save
  <2>2. PICK r : r = Request(b, BaseRevision(b))
    OBVIOUS
  <2>3. /\ r.base = form[b].base
        /\ r.revision = IF form[b].base = New THEN 0 ELSE form[b].base.row.revision
    BY <2>1, <2>2, RequestShaped
  <2>4. sent'[c] = r /\ \A d \in Calls \ {c} : sent'[d] = sent[d]
    BY <2>1, <2>2 DEF Shapes
  <2>5. SavesHanded
    BY <2>1, <2>3, <2>4 DEF SavesHanded
  <2> QED BY <2>1, <2>5 DEF HandedOn, RowsHanded, EditingHanded, AnswersHanded
<1>6. ASSUME NEW s \in Slots,
             \/ Upload(b, s) \/ SaveReference(b, s)
             \/ Search(b, s) \/ Login(b, s) \/ Logout(b, s)
      PROVE  HandedOn /\ UNCHANGED store
  <2>1. /\ \E kind \in {"load", "login", "logout", "upload", "reference"} : Start(b, s, kind)
        /\ UNCHANGED <<store, rows, editing, sent>>
    BY <1>6 DEF Upload, SaveReference, Search, Login, Logout
  <2>2. AnswersHanded
    BY <2>1, StartHanded
  <2> QED BY <2>1, <2>2 DEF HandedOn, RowsHanded, EditingHanded, SavesHanded
<1> QED BY <1>1, <1>2, <1>3, <1>4, <1>5, <1>6 DEF User

LEMMA AnswerHanded ==
    ASSUME Shapes, NEW b \in Browsers, NEW s \in Slots \cup Calls, Answer(b, s)
    PROVE  HandedOn /\ UNCHANGED store
<1>1. fetch[b][s] \in Fetches /\ fetch[b][s] # Absent
  BY DEF Answer, Shapes
<1>2. PICK what \in {"OK", "REFUSED", "AUTH_REQUIRED"} :
        fetch' = [fetch EXCEPT ![b][s].answer = what,
                               ![b][s].docs = IF fetch[b][s].kind = "load" THEN Listed ELSE {}]
  BY DEF Answer
<1>3. PICK docs \in SUBSET Documents :
        docs \in {{}, Listed} /\ docs = IF fetch[b][s].kind = "load" THEN Listed ELSE {}
  BY ListedShaped
<1>4. fetch' = [fetch EXCEPT ![b][s].answer = what, ![b][s].docs = docs]
  BY <1>2, <1>3, Zenon
<1>5. PICK x : x = [fetch[b][s] EXCEPT !.answer = what, !.docs = docs]
  OBVIOUS
<1>6. x \in Fetches /\ x.docs = docs
  BY <1>1, <1>5, AnswerParts DEF Fetches
<1>7. fetch' = [fetch EXCEPT ![b][s] = x]
  <2> DEFINE g == [fetch EXCEPT ![b][s] = [fetch[b][s] EXCEPT !.answer = what]]
  <2>1. fetch' = [g EXCEPT ![b][s] = [g[b][s] EXCEPT !.docs = docs]]
    BY <1>4, Zenon
  <2>2. g[b][s] = [fetch[b][s] EXCEPT !.answer = what]
    BY DEF Shapes
  <2>3. x = [g[b][s] EXCEPT !.docs = docs]
    BY <1>1, <1>5, <2>2
  <2> HIDE DEF g
  <2>4. g = [fetch EXCEPT ![b][s] = [fetch[b][s] EXCEPT !.answer = what]]
    BY DEF g
  <2> QED BY <2>1, <2>3, <2>4 DEF Shapes
<1>8. AnswersHanded
  <2>1. x \in Fetches \cup {Absent}
    BY <1>6
  <2> QED BY <1>3, <1>6, <1>7, <2>1, SlotHanded
<1>9. UNCHANGED <<store, rows, editing, sent>>
  BY DEF Answer, page
<1> QED BY <1>8, <1>9 DEF HandedOn, RowsHanded, EditingHanded, SavesHanded

LEMMA ReceiveHanded ==
    ASSUME Shapes, NEW b \in Browsers, NEW s \in Slots \cup Calls, Receive(b, s)
    PROVE  HandedOn /\ UNCHANGED store
<1>1. CASE Loaded(b, s)
  <2>1. /\ Done(b, s) /\ fetch[b][s] # Absent
        /\ rows' = rows \/ rows' = [rows EXCEPT ![b] = fetch[b][s].docs]
        /\ UNCHANGED <<store, editing, sent>>
    BY <1>1 DEF Loaded, Ready
  <2>2. RowsHanded
    BY <2>1 DEF RowsHanded, Shapes
  <2>3. AnswersHanded
    BY <2>1, StartHanded
  <2> QED BY <2>1, <2>2, <2>3 DEF HandedOn, EditingHanded, SavesHanded
<1>2. CASE LoggedIn(b, s) \/ Current(b, s) \/ ReferenceSaved(b, s) \/ Uploaded(b, s)
           \/ Failed(b, s)
  <2>1. /\ Start(b, s, "current") \/ Start(b, s, "load") \/ Done(b, s)
        /\ UNCHANGED <<store, rows, editing, sent>>
    BY <1>2 DEF LoggedIn, Current, ReferenceSaved, Uploaded, Failed
  <2>2. AnswersHanded
    BY <2>1, StartHanded
  <2> QED BY <2>1, <2>2 DEF HandedOn, RowsHanded, EditingHanded, SavesHanded
<1>3. CASE LoggedOut(b, s)
  <2> DEFINE gone == Orphans(fetch[b], {"upload", "reference"})
  <2>1. /\ editing' = [editing EXCEPT ![b] = Absent] /\ rows' = [rows EXCEPT ![b] = {}]
        /\ sent' = Orphaned(sent, b)
        /\ fetch' = [fetch EXCEPT ![b] = [gone EXCEPT ![s] = Absent]]
        /\ UNCHANGED store
    BY <1>3 DEF LoggedOut
  <2>2. RowsHanded /\ EditingHanded
    BY <2>1 DEF RowsHanded, EditingHanded, Shapes
  <2>3. AnswersHanded
    <3>1. \A a \in Browsers \ {b} : fetch'[a] = fetch[a]
      BY <2>1 DEF Shapes
    <3>2. fetch'[b] = [gone EXCEPT ![s] = Absent]
      BY <2>1 DEF Shapes
    <3>3. \A t \in Slots \cup Calls : fetch'[b][t] \in {gone[t], Absent}
      BY <3>2 DEF Orphans
    <3> QED BY <3>1, <3>3, OrphansHanded
  <2> QED BY <2>1, <2>2, <2>3, OrphanedHanded DEF HandedOn
<1> QED BY <1>1, <1>2, <1>3 DEF Receive

LEMMA HearHanded ==
    ASSUME Shapes, NEW c \in Calls, Hear(c)
    PROVE  HandedOn /\ UNCHANGED store
<1>1. sent[c] # Absent
  BY DEF Hear, Saved, Refused, GivenUp, Hears
<1>2. PICK b \in Browsers : b = sent[c].browser
  BY <1>1 DEF Shapes, Saves
<1>3. CASE Saved(c)
  <2> DEFINE gone == Orphans(fetch[b], {"upload"})
  <2>1. /\ editing' = [editing EXCEPT ![b] = Absent] /\ UNCHANGED <<store, rows>>
        /\ sent' = [Orphaned(sent, b) EXCEPT ![c].awaited = FALSE]
        /\ fetch' = [fetch EXCEPT ![b] = [gone EXCEPT ![c] = Fetch("load")]]
    BY <1>2, <1>3 DEF Saved
  <2>2. EditingHanded
    BY <2>1 DEF EditingHanded, Shapes
  <2>3. AnswersHanded
    <3>1. \A a \in Browsers \ {b} : fetch'[a] = fetch[a]
      BY <2>1 DEF Shapes
    <3>2. fetch'[b] = [gone EXCEPT ![c] = Fetch("load")]
      BY <2>1 DEF Shapes
    <3>3. \A t \in Slots \cup Calls : fetch'[b][t] \in {gone[t], Fetch("load")}
      BY <3>2 DEF Orphans
    <3> QED BY <3>1, <3>3, OrphansHanded
  <2>4. SavesHanded
    <3>1. PICK g \in [Calls -> Saves \cup {Absent}] : g = Orphaned(sent, b)
      BY OrphanedSaves DEF Shapes
    <3>2. \A d \in Calls : /\ g[d] # Absent <=> sent[d] # Absent
                           /\ g[d] # Absent => /\ g[d].base = sent[d].base
                                               /\ g[d].revision = sent[d].revision
      BY <3>1, OrphanedSaves DEF Shapes
    <3> QED BY <1>1, <2>1, <3>1, <3>2, UnheardHanded
  <2> QED BY <2>1, <2>2, <2>3, <2>4 DEF HandedOn, RowsHanded
<1>4. CASE Refused(c) \/ GivenUp(c)
  <2>1. sent' = [sent EXCEPT ![c].awaited = FALSE] /\ UNCHANGED <<store, rows, editing, fetch>>
    BY <1>4 DEF Refused, GivenUp, Released
  <2>2. SavesHanded
    BY <1>1, <2>1, UnheardHanded DEF Shapes
  <2> QED BY <2>1, <2>2 DEF HandedOn, RowsHanded, EditingHanded, AnswersHanded
<1> QED BY <1>3, <1>4 DEF Hear

LEMMA IdleHanded ==
    ASSUME UNCHANGED <<rows, editing, fetch, sent>>
    PROVE  HandedOn
  BY DEF HandedOn, RowsHanded, EditingHanded, AnswersHanded, SavesHanded

LEMMA ArriveHanded ==
    ASSUME Shapes, NEW c \in Calls, Arrive(c)
    PROVE  /\ HandedOn
           /\ sent'[c].base = sent[c].base /\ sent'[c].revision = sent[c].revision
<1>1. sent[c] \in Saves /\ UNCHANGED <<rows, editing, fetch>>
  BY DEF Arrive, Shapes, page
<1>2. \/ sent' = [sent EXCEPT ![c].stage = "over", ![c].answer = "AUTH_REQUIRED"]
      \/ sent' = [sent EXCEPT ![c].stage = "inside"]
  BY DEF Arrive
<1>3. \/ sent'[c] = [sent[c] EXCEPT !.stage = "inside"]
      \/ sent'[c] = [sent[c] EXCEPT !.stage = "over", !.answer = "AUTH_REQUIRED"]
  BY <1>2 DEF Shapes
<1>4. sent'[c].base = sent[c].base /\ sent'[c].revision = sent[c].revision
  BY <1>1, <1>3 DEF Saves
<1>5. \A d \in Calls \ {c} : sent'[d] = sent[d]
  BY <1>2 DEF Shapes
<1>6. SavesHanded
  BY <1>1, <1>4, <1>5, Shaped DEF SavesHanded
<1> QED BY <1>1, <1>4, <1>6 DEF HandedOn, RowsHanded, EditingHanded, AnswersHanded

\* What a new call draws is no row's and no other call's.
LEMMA FreshApart ==
    ASSUME NEW r, Fresh(r, products, variants, req)
    PROVE  /\ Creates(r) => products[r.key] = Absent
           /\ \A i \in Positions(r) : ~Names(r, i) => variants[r.keys[i]] = Absent
           /\ \A d \in Calls : req[d] # Absent =>
                /\ Creates(r) => r.key # req[d].key
                /\ \A i \in Positions(r), j \in Positions(req[d]) :
                      ~Names(r, i) => r.keys[i] # req[d].keys[j]
<1>1. \A d \in Calls : req[d] # Absent => req[d].key \in DrawnProducts(req)
  BY DEF DrawnProducts, Asking
<1>2. \A d \in Calls : req[d] # Absent =>
         \A j \in Positions(req[d]) : req[d].keys[j] \in DrawnVariants(req)
  BY DEF DrawnVariants, Asking
<1> QED BY <1>1, <1>2 DEF Fresh

LEMMA ArriveEdit ==
    ASSUME EditInv, NEW c \in Calls, Arrive(c)
    PROVE  EditInv'
<1>p. PageInv /\ Shapes /\ PageInv'
  BY ArriveKept DEF EditInv, PageInv
<1>1. HandedOn /\ sent'[c].base = sent[c].base /\ sent'[c].revision = sent[c].revision
  BY <1>p, ArriveHanded
<1>2. CASE UNCHANGED store \/ Store!Reject(c)
  <2>1. UNCHANGED <<products, variants, req, open>>
    BY <1>2 DEF store, Store!Reject, Store!tables
  <2> QED BY <1>p, <1>1, <2>1, CatalogSame
<1>3. CASE ~(UNCHANGED store \/ Store!Reject(c))
  <2>1. PICK key \in IF sent[c].base = New THEN Products ELSE {sent[c].base.key} :
          \E keys \in [1..Len(sent[c].draft.items) -> Variants] :
             /\ req' = [req EXCEPT ![c] =
                  [target |-> IF sent[c].base = New THEN Absent ELSE key,
                   expected |-> sent[c].revision, key |-> key,
                   draft |-> sent[c].draft, keys |-> keys]]
             /\ Store!Submit(c)
    BY <1>3 DEF Arrive
  <2>2. PICK r : r = req'[c]
    OBVIOUS
  <2>3. /\ r.target = IF sent[c].base = New THEN Absent ELSE key
        /\ r.expected = sent[c].revision /\ r.key = key
    BY <1>p, <2>1, <2>2 DEF Shapes
  <2>4. /\ open' = [open EXCEPT ![c] = TRUE]
        /\ Fresh(r, products, variants, req)
        /\ \A d \in Calls \ {c} : req'[d] = req[d]
        /\ UNCHANGED <<products, variants>>
    BY <1>p, <2>1, <2>2, SubmitShaped
  <2>5. \A d \in Calls \ {c} : open'[d] = open[d]
    BY <1>p, <2>4 DEF Shapes
  <2>6. Known' /\ Revisions'
    BY <1>1, <2>4, HandedOnKept
  <2>7. Forwarded'
    <3>1. ASSUME NEW d \in Calls, open'[d], ~Creates(req'[d])
          PROVE  /\ sent'[d].base # New /\ req'[d].key = sent'[d].base.key
                 /\ req'[d].expected = sent'[d].revision
      <4>1. CASE d = c
        BY <1>1, <2>1, <2>2, <2>3, <3>1, <4>1 DEF Creates
      <4>2. CASE d # c
        <5>1. open[d] /\ req'[d] = req[d]
          BY <2>4, <2>5, <3>1, <4>2
        <5>2. sent[d] # Absent /\ sent'[d] # Absent
          BY <1>p, <3>1, <5>1 DEF PageInv, Told
        <5>3. sent'[d].base = sent[d].base /\ sent'[d].revision = sent[d].revision
          BY <1>1, <5>2 DEF HandedOn, SavesHanded
        <5> QED BY <3>1, <5>1, <5>3 DEF EditInv, Forwarded
      <4> QED BY <4>1, <4>2
    <3> QED BY <3>1 DEF Forwarded, Creates
  <2>8. \A d \in Calls : req[d] # Absent =>
           /\ Creates(r) => r.key # req[d].key
           /\ \A i \in Positions(r), j \in Positions(req[d]) :
                 ~Names(r, i) => r.keys[i] # req[d].keys[j]
    BY <2>4, FreshApart
  <2>9. DrawnApart'
    <3>1. ASSUME NEW d \in Calls, NEW e \in Calls, d # e,
                 req'[d] # Absent, req'[e] # Absent
          PROVE  /\ (Creates(req'[d]) /\ Creates(req'[e])) => req'[d].key # req'[e].key
                 /\ \A i \in Positions(req'[d]), j \in Positions(req'[e]) :
                       (~Names(req'[d], i) /\ ~Names(req'[e], j)) =>
                          req'[d].keys[i] # req'[e].keys[j]
      <4>1. CASE d = c
        <5>1. req'[d] = r /\ req'[e] = req[e]
          BY <2>2, <2>4, <3>1, <4>1
        <5> QED BY <2>8, <3>1, <5>1
      <4>2. CASE e = c
        <5>1. req'[e] = r /\ req'[d] = req[d]
          BY <2>2, <2>4, <3>1, <4>2
        <5> QED BY <2>8, <3>1, <5>1
      <4>3. CASE d # c /\ e # c
        <5>1. req'[d] = req[d] /\ req'[e] = req[e]
          BY <2>4, <4>3
        <5> QED BY <3>1, <5>1 DEF EditInv, DrawnApart
      <4> QED BY <4>1, <4>2, <4>3
    <3> QED BY <3>1 DEF DrawnApart, Creates, Names, Positions
  <2>10. DrawnFree'
    <3>1. ASSUME NEW d \in Calls, open'[d]
          PROVE  /\ Creates(req'[d]) => products[req'[d].key] = Absent
                 /\ \A i \in Positions(req'[d]) :
                       ~Names(req'[d], i) => variants[req'[d].keys[i]] = Absent
      <4>1. CASE d = c
        BY <2>2, <2>4, <4>1, FreshApart
      <4>2. CASE d # c
        <5>1. open[d] /\ req'[d] = req[d]
          BY <2>4, <2>5, <3>1, <4>2
        <5> QED BY <5>1 DEF EditInv, DrawnFree
      <4> QED BY <4>1, <4>2
    <3> QED BY <2>4, <3>1 DEF DrawnFree, Creates, Names, Positions
  <2> QED BY <1>p, <2>6, <2>7, <2>9, <2>10 DEF EditInv
<1> QED BY <1>2, <1>3
-----------------------------------------------------------------------------
(* A save takes effect.                                                    *)

LEMMA Applied ==
    ASSUME EditInv, NEW c \in Calls, Store!Apply(c)
    PROVE  LET r == req[c] IN
           /\ r \in Requests /\ r.key \in Products /\ open[c] /\ ~open'[c]
           /\ \A d \in Calls \ {c} : open'[d] = open[d]
           /\ req' = req
           /\ products'[r.key] # Absent
           /\ ~Creates(r) => /\ products[r.key] # Absent
                             /\ products[r.key].revision = r.expected
                             /\ products'[r.key].revision = r.expected + 1
           /\ \A p \in Products \ {r.key} : products'[p] = products[p]
           /\ \A v \in Variants : variants'[v] = Store!Saved(r, v)
           /\ \A i \in Positions(r) : Names(r, i) =>
                 variants[r.keys[i]] # Absent /\ variants[r.keys[i]].product = r.key
<1>s. Shapes /\ Told
  BY DEF EditInv, PageInv
<1>1. open[c] /\ req[c] # Absent /\ req' = req
  BY <1>s DEF Told, Store!Apply
<1>2. PICK r \in Requests : r = req[c]
  BY <1>s, <1>1 DEF Shapes
<1>3. r.key \in Products
  BY RequestTyped
<1>4. /\ Creates(r) \/ products[r.key] # Absent
      /\ Store!Current(r) = r.expected
      /\ ~Store!Stranger(r)
      /\ products' = [products EXCEPT ![r.key] =
           [slug |-> r.draft.slug, status |-> r.draft.status,
            content |-> r.draft.content, revision |-> Store!Current(r) + 1]]
      /\ variants' = [v \in Variants |-> Store!Saved(r, v)]
      /\ open' = [open EXCEPT ![c] = FALSE]
  BY <1>2, SameCatalog DEF Store!Apply, Store!Savable
<1>5. products'[r.key] # Absent
  <2>1. products' \in ProductTable
    BY <1>s, <1>1, ApplyShaped
  <2>2. products'[r.key] = [slug |-> r.draft.slug, status |-> r.draft.status,
            content |-> r.draft.content, revision |-> Store!Current(r) + 1]
    BY <1>s, <1>3, <1>4 DEF Shapes, ProductTable
  <2>3. r.draft \in Draft
    BY RequestTyped
  <2>4. r.expected + 1 \in 1..MaxRevision
    <3>1. r.expected \in 0..MaxRevision
      BY DEF Requests, Ask
    <3>2. r.expected < MaxRevision
      BY <1>2, <1>4 DEF Store!Apply, Store!Savable
    <3> QED BY <3>1, <3>2, CatalogAssumption
  <2>5. products'[r.key] \in ProductRow
    BY <1>4, <2>2, <2>3, <2>4 DEF Draft, ProductRow
  <2> QED BY <2>5, AbsentAssumption
<1>6. ~Creates(r) => /\ products[r.key] # Absent
                     /\ products[r.key].revision = r.expected
                     /\ products'[r.key].revision = r.expected + 1
  BY <1>s, <1>3, <1>4, SameCatalog DEF Store!Current, Shapes, ProductTable
<1>7. \A p \in Products \ {r.key} : products'[p] = products[p]
  BY <1>s, <1>4 DEF Shapes, ProductTable
<1>8. /\ ~open'[c] /\ \A d \in Calls \ {c} : open'[d] = open[d]
      /\ \A v \in Variants : variants'[v] = Store!Saved(r, v)
  BY <1>s, <1>4 DEF Shapes
<1>9. \A i \in Positions(r) : Names(r, i) =>
         variants[r.keys[i]] # Absent /\ variants[r.keys[i]].product = r.key
  BY <1>4, SameCatalog DEF Store!Stranger
<1> QED BY <1>1, <1>2, <1>3, <1>5, <1>6, <1>7, <1>8, <1>9

\* A save changes no document but its own.
LEMMA OthersUntouched ==
    ASSUME EditInv, NEW c \in Calls, Store!Apply(c),
           NEW p \in Products, p # req[c].key
    PROVE  products'[p] = products[p] /\ Document(p)' = Document(p)
<1>s. Shapes
  BY DEF EditInv, PageInv
<1>1. PICK r \in Requests : r = req[c]
  BY Applied
<1>2. products'[p] = products[p]
  BY <1>1, Applied
<1>3. \A v \in Variants : variants'[v] = Store!Saved(r, v)
  BY <1>1, Applied
<1>4. ASSUME NEW v \in Variants
      PROVE  /\ (variants'[v] # Absent /\ variants'[v].product = p)
                   <=> (variants[v] # Absent /\ variants[v].product = p)
             /\ (variants[v] # Absent /\ variants[v].product = p) => variants'[v] = variants[v]
  <2>1. CASE v \in Store!Written(r)
    <3>1. variants'[v].product = r.key
      BY <1>s, <1>3, <2>1, SavedShaped
    <3>2. PICK i \in Positions(r) : v = r.keys[i]
      BY <2>1, SameCatalog DEF Store!Written
    <3>3. CASE Names(r, i)
      <4>1. variants[v].product = r.key
        BY <1>1, <3>2, <3>3, Applied
      <4> QED BY <1>1, <3>1, <4>1
    <3>4. CASE ~Names(r, i)
      <4>1. open[c]
        BY Applied
      <4>2. variants[v] = Absent
        BY <1>1, <3>2, <3>4, <4>1 DEF EditInv, DrawnFree
      <4> QED BY <1>1, <3>1, <4>2
    <3> QED BY <3>3, <3>4
  <2>2. CASE v \notin Store!Written(r)
    <3>1. variants[v] \in VariantRow \cup {Absent}
      BY <1>s DEF Shapes, VariantTable
    <3>2. CASE variants[v] # Absent /\ variants[v].product = r.key
      <4>1. variants'[v] = [variants[v] EXCEPT !.active = FALSE]
        BY <1>3, <2>2, <3>2 DEF Store!Saved
      <4>2. variants'[v].product = r.key
        BY <3>1, <3>2, <4>1 DEF VariantRow
      <4> QED BY <1>1, <3>2, <4>2
    <3>3. CASE ~(variants[v] # Absent /\ variants[v].product = r.key)
      <4>1. variants'[v] = variants[v]
        BY <1>3, <2>2, <3>3 DEF Store!Saved
      <4> QED BY <4>1
    <3> QED BY <3>2, <3>3
  <2> QED BY <2>1, <2>2
<1>5. PICK own : own = {w \in Variants : variants[w] # Absent /\ variants[w].product = p}
  OBVIOUS
<1>6. own = {w \in Variants : variants'[w] # Absent /\ variants'[w].product = p}
  BY <1>4, <1>5
<1>7. \A v \in own : variants'[v] = variants[v]
  BY <1>4, <1>5
<1>8. {[id |-> Text[v], sku |-> variants'[v].sku, active |-> variants'[v].active] : v \in own}
        = {[id |-> Text[v], sku |-> variants[v].sku, active |-> variants[v].active] : v \in own}
  BY <1>7
<1>9. Document(p)' = Document(p)
  BY <1>2, <1>5, <1>6, <1>8 DEF Document
<1> QED BY <1>2, <1>9

\* So every document is still what the catalog has, or a revision older.
LEMMA SeenKept ==
    ASSUME EditInv, NEW c \in Calls, Store!Apply(c), NEW d \in Documents, Seen(d)
    PROVE  Seen(d)'
<1>1. d.key \in Products /\ d.row.revision \in 1..MaxRevision
  BY DEF Documents, ProductRow
<1>2. CASE d.key # req[c].key
  <2>1. products'[d.key] = products[d.key] /\ Document(d.key)' = Document(d.key)
    BY <1>1, <1>2, OthersUntouched
  <2> QED BY <2>1 DEF Seen
<1>3. CASE d.key = req[c].key
  <2>1. products[d.key] # Absent
    BY DEF Seen
  <2>2. ~Creates(req[c])
    <3>1. open[c]
      BY Applied
    <3> QED BY <1>3, <2>1, <3>1 DEF EditInv, DrawnFree
  <2>3. /\ products'[d.key] # Absent
        /\ products'[d.key].revision = products[d.key].revision + 1
    BY <1>3, <2>2, Applied
  <2>4. products[d.key].revision \in 1..MaxRevision
    BY <1>1, <2>1 DEF EditInv, PageInv, Shapes, ProductTable, ProductRow
  <2>5. d.row.revision <= products[d.key].revision
    BY DEF Seen
  <2>6. d.row.revision < products'[d.key].revision
    BY <1>1, <2>3, <2>4, <2>5, CatalogAssumption
  <2>7. /\ d.row.revision <= products'[d.key].revision
        /\ d.row.revision # products'[d.key].revision
    BY <1>1, <2>3, <2>4, <2>6, CatalogAssumption
  <2> QED BY <2>3, <2>7 DEF Seen
<1> QED BY <1>2, <1>3

\* What the calls still open have drawn stays free.
LEMMA DrawnKept ==
    ASSUME EditInv, NEW c \in Calls, Store!Apply(c)
    PROVE  DrawnFree'
<1>s. Shapes /\ Told
  BY DEF EditInv, PageInv
<1>1. PICK r \in Requests : r = req[c]
  BY Applied
<1>2. ASSUME NEW d \in Calls, open'[d]
      PROVE  /\ Creates(req[d]) => products'[req[d].key] = Absent
             /\ \A i \in Positions(req[d]) :
                   ~Names(req[d], i) => variants'[req[d].keys[i]] = Absent
  <2>1. d # c /\ open[d]
    BY <1>2, Applied
  <2>2. req[d] \in Requests /\ req[d] # Absent /\ r # Absent
    BY <1>s, <2>1, AbsentAssumption DEF Told, Shapes
  <2>3. req[d].key \in Products
    BY <2>2, RequestTyped
  <2>4. Creates(req[d]) => products'[req[d].key] = Absent
    <3>1. SUFFICES ASSUME Creates(req[d]) PROVE products'[req[d].key] = Absent
      OBVIOUS
    <3>2. products[req[d].key] = Absent
      BY <2>1, <3>1 DEF EditInv, DrawnFree
    <3>3. req[d].key # r.key
      <4>1. CASE Creates(r)
        BY <1>1, <2>1, <2>2, <3>1, <4>1 DEF EditInv, DrawnApart
      <4>2. CASE ~Creates(r)
        BY <1>1, <3>2, <4>2, Applied
      <4> QED BY <4>1, <4>2
    <3> QED BY <1>1, <2>3, <3>2, <3>3, Applied
  <2>5. ASSUME NEW i \in Positions(req[d]), ~Names(req[d], i)
        PROVE  variants'[req[d].keys[i]] = Absent
    <3>1. PICK v \in Variants : v = req[d].keys[i]
      BY <2>2, RequestTyped
    <3>2. variants[v] = Absent
      BY <2>1, <2>5, <3>1 DEF EditInv, DrawnFree
    <3>3. \A j \in Positions(r) : r.keys[j] # v
      <4> SUFFICES ASSUME NEW j \in Positions(r) PROVE r.keys[j] # v
        OBVIOUS
      <4>1. CASE Names(r, j)
        BY <1>1, <3>2, <4>1, Applied
      <4>2. CASE ~Names(r, j)
        BY <1>1, <2>1, <2>2, <2>5, <3>1, <4>2 DEF EditInv, DrawnApart
      <4> QED BY <4>1, <4>2
    <3>4. v \notin Store!Written(r)
      BY <3>3, SameCatalog DEF Store!Written
    <3>5. Store!Saved(r, v) = Absent
      BY <3>2, <3>4 DEF Store!Saved
    <3> QED BY <1>1, <3>1, <3>5, Applied
  <2> QED BY <2>4, <2>5
<1>3. req' = req
  BY Applied
<1> QED BY <1>2, <1>3 DEF DrawnFree, Creates, Names, Positions

LEMMA ServeEdit ==
    ASSUME EditInv, NEW c \in Calls, Serve(c)
    PROVE  EditInv'
<1>p. PageInv /\ Shapes /\ Told /\ PageInv'
  BY ServeKept DEF EditInv, PageInv
<1>1. UNCHANGED <<rows, editing, fetch, sent>>
  BY DEF Serve, page
<1>2. /\ req' = req /\ \A d \in Calls : open'[d] => open[d]
      /\ ~Store!Apply(c) => UNCHANGED <<products, variants>>
  BY <1>p, ServeShaped DEF Serve, Told
<1>3. CASE ~Store!Apply(c)
  BY <1>p, <1>1, <1>2, <1>3, IdleHanded, CatalogSame
<1>4. CASE Store!Apply(c)
  <2>1. \A d \in Documents : Seen(d) => Seen(d)'
    BY <1>4, SeenKept
  <2>2. Known'
    <3>1. \A b \in Browsers : \A d \in rows[b] : Seen(d)'
      BY <1>p, <2>1 DEF EditInv, Known, Shapes
    <3>2. \A b \in Browsers : editing[b] \in Documents => Seen(editing[b])'
      BY <1>1, <2>1 DEF EditInv, Known
    <3>3. \A b \in Browsers, s \in Slots \cup Calls :
             fetch[b][s] # Absent => \A d \in fetch[b][s].docs : Seen(d)'
      <4> SUFFICES ASSUME NEW b \in Browsers, NEW s \in Slots \cup Calls,
                          fetch[b][s] # Absent, NEW d \in fetch[b][s].docs
                   PROVE  Seen(d)'
        OBVIOUS
      <4>1. fetch[b][s] \in Fetches
        BY <1>p DEF Shapes
      <4>2. d \in Documents
        BY <4>1 DEF Fetches
      <4> QED BY <2>1, <4>2 DEF EditInv, Known
    <3>4. \A d \in Calls : (sent[d] # Absent /\ sent[d].base # New) => Seen(sent[d].base)'
      <4> SUFFICES ASSUME NEW d \in Calls, sent[d] # Absent, sent[d].base # New
                   PROVE  Seen(sent[d].base)'
        OBVIOUS
      <4>1. sent[d] \in Saves
        BY <1>p DEF Shapes
      <4>2. sent[d].base \in Documents
        BY <4>1 DEF Saves
      <4>3. Seen(sent[d].base)
        BY DEF EditInv, Known
      <4> QED BY <1>1, <2>1, <4>2, <4>3
    <3> QED BY <1>1, <3>1, <3>2, <3>3, <3>4 DEF Known
  <2>3. Revisions' /\ Forwarded'
    BY <1>1, <1>2 DEF EditInv, Revisions, Forwarded, Creates
  <2>4. DrawnApart'
    <3>1. \A d \in Calls : req'[d] = req[d]
      BY <1>2
    <3>2. DrawnApart
      BY DEF EditInv
    <3> QED BY <3>1, <3>2, SMT DEF DrawnApart, Creates, Names, Positions
  <2> QED BY <1>p, <1>4, <2>2, <2>3, <2>4, DrawnKept DEF EditInv
<1> QED BY <1>3, <1>4

LEMMA EditInit ==
    ASSUME Init
    PROVE  EditInv
<1>1. PageInv
  BY PageInit
<1>2. Known
  <2>1. \A b \in Browsers : rows[b] = Listed /\ editing[b] = Absent
    BY DEF Init
  <2>2. \A b \in Browsers, s \in Slots \cup Calls : fetch[b][s] = Absent
    BY DEF Init
  <2>3. \A c \in Calls : sent[c] = Absent
    BY DEF Init
  <2> QED BY <1>1, <2>1, <2>2, <2>3, ListedSeen, Shaped DEF Known
<1>3. Revisions
  BY DEF Init, Revisions
<1>4. Forwarded /\ DrawnApart /\ DrawnFree
  BY DEF Init, Store!Init, Forwarded, DrawnApart, DrawnFree
<1> QED BY <1>1, <1>2, <1>3, <1>4 DEF EditInv

\* The steps that leave the catalog and its calls alone.
LEMMA PageEdit ==
    ASSUME EditInv, [Next]_vars, HandedOn, UNCHANGED store
    PROVE  EditInv'
<1>1. PageInv'
  BY PageStep DEF EditInv
<1> QED BY <1>1, CatalogSame DEF store

LEMMA EditStep ==
    ASSUME EditInv, [Next]_vars
    PROVE  EditInv'
<1>s. Shapes
  BY DEF EditInv, PageInv
<1>1. ASSUME NEW b \in Browsers, User(b) PROVE EditInv'
  BY <1>s, <1>1, UserHanded, PageEdit
<1>2. ASSUME NEW b \in Browsers, Expire(b) PROVE EditInv'
  BY <1>2, IdleHanded, PageEdit DEF Expire, page
<1>3. ASSUME NEW b \in Browsers, NEW s \in Slots \cup Calls, Answer(b, s) \/ Receive(b, s)
      PROVE  EditInv'
  BY <1>s, <1>3, AnswerHanded, ReceiveHanded, PageEdit
<1>4. ASSUME NEW c \in Calls, Hear(c) PROVE EditInv'
  BY <1>s, <1>4, HearHanded, PageEdit
<1>5. ASSUME NEW c \in Calls, Arrive(c) \/ Serve(c) PROVE EditInv'
  BY <1>5, ArriveEdit, ServeEdit
<1>6. CASE UNCHANGED vars
  BY <1>6, IdleHanded, PageEdit DEF vars, page
<1> QED BY <1>1, <1>2, <1>3, <1>4, <1>5, <1>6 DEF Next

\* No document that is kept anywhere is one the catalog never had or has
\* forgotten: it has that very document or a later revision of it.
THEOREM EditHolds == Spec => []EditInv
  BY EditInit, EditStep, PTL DEF Spec

\* NoLostEdit: what an update replaces is the very document its editor was
\* opened on, how stale the list, how late the save and how often it was
\* repeated.
THEOREM NoEditIsLost == Spec => NoLostEdit
<1> DEFINE Replaced ==
      \A p \in Products : (products[p] # Absent /\ products'[p] # products[p]) =>
          \E c \in Calls : /\ open[c] /\ ~open'[c]
                           /\ sent[c].base = Document(p)
<1>1. ASSUME EditInv, [Next]_vars PROVE [Replaced]_vars
  <2> SUFFICES ASSUME NEW p \in Products, products[p] # Absent, products'[p] # products[p]
               PROVE  \E c \in Calls : /\ open[c] /\ ~open'[c]
                                       /\ sent[c].base = Document(p)
    OBVIOUS
  <2>s. Shapes /\ Told
    BY <1>1 DEF EditInv, PageInv
  <2>1. \E c \in Calls : Store!Apply(c)
    <3>1. ASSUME NEW b \in Browsers, User(b) PROVE FALSE
      BY <2>s, <3>1, UserHanded DEF store
    <3>2. ASSUME NEW b \in Browsers, Expire(b) PROVE FALSE
      BY <3>2 DEF Expire, store
    <3>3. ASSUME NEW b \in Browsers, NEW s \in Slots \cup Calls, Answer(b, s) \/ Receive(b, s)
          PROVE  FALSE
      BY <2>s, <3>3, AnswerHanded, ReceiveHanded DEF store
    <3>4. ASSUME NEW c \in Calls, Hear(c) PROVE FALSE
      BY <2>s, <3>4, HearHanded DEF store
    <3>5. ASSUME NEW c \in Calls, Arrive(c) PROVE FALSE
      BY <2>s, <3>5, SubmitShaped DEF Arrive, store, Store!Reject, Store!tables
    <3>6. ASSUME NEW c \in Calls, Serve(c) PROVE Store!Apply(c)
      BY <2>s, <3>6, ServeShaped DEF Serve, Told
    <3>7. ~UNCHANGED vars
      BY DEF vars, store
    <3> QED BY <1>1, <3>1, <3>2, <3>3, <3>4, <3>5, <3>6, <3>7 DEF Next
  <2>2. PICK c \in Calls : Store!Apply(c)
    BY <2>1
  <2>3. open[c] /\ ~open'[c] /\ p = req[c].key
    BY <1>1, <2>2, Applied
  <2>4. ~Creates(req[c])
    BY <1>1, <2>3 DEF EditInv, DrawnFree
  <2>5. products[p].revision = req[c].expected
    BY <1>1, <2>2, <2>3, <2>4, Applied
  <2>6. /\ sent[c].base # New /\ p = sent[c].base.key
        /\ req[c].expected = sent[c].revision
    BY <1>1, <2>3, <2>4 DEF EditInv, Forwarded
  <2>7. sent[c] # Absent
    BY <2>s, <2>3 DEF Told
  <2>8. sent[c].revision = sent[c].base.row.revision /\ Seen(sent[c].base)
    BY <1>1, <2>6, <2>7 DEF EditInv, Revisions, Known
  <2>9. sent[c].base = Document(p)
    BY <2>5, <2>6, <2>8 DEF Seen
  <2> QED BY <2>3, <2>9
<1>2. EditInv /\ [Next]_vars => [Replaced]_vars
  BY <1>1
<1>3. NoLostEdit <=> [][Replaced]_vars
  BY DEF NoLostEdit
<1> QED BY <1>2, <1>3, EditHolds, PTL DEF Spec
-----------------------------------------------------------------------------
(* The store under the workspace.                                          *)

\* A step of the workspace is one of CatalogStore, or leaves its variables alone.
LEMMA StoreStep ==
    ASSUME Shapes, [Next]_vars
    PROVE  [Store!Next]_(Store!vars)
<1>1. ASSUME NEW b \in Browsers, User(b) PROVE UNCHANGED store
  BY <1>1, UserHanded
<1>2. ASSUME NEW b \in Browsers, Expire(b) PROVE UNCHANGED store
  BY <1>2 DEF Expire
<1>3. ASSUME NEW b \in Browsers, NEW s \in Slots \cup Calls, Answer(b, s) \/ Receive(b, s)
      PROVE  UNCHANGED store
  BY <1>3, AnswerHanded, ReceiveHanded
<1>4. ASSUME NEW c \in Calls, Hear(c) PROVE UNCHANGED store
  BY <1>4, HearHanded
<1>5. ASSUME NEW c \in Calls, Arrive(c) PROVE UNCHANGED store \/ Store!Next
  <2>1. UNCHANGED store \/ Store!Reject(c) \/ Store!Submit(c)
    BY <1>5 DEF Arrive
  <2> QED BY <2>1 DEF Store!Next
<1>6. ASSUME NEW c \in Calls, Serve(c) PROVE Store!Next
  BY <1>6 DEF Serve, Store!Next
<1>7. UNCHANGED vars => UNCHANGED store
  BY DEF vars
<1>8. UNCHANGED store => UNCHANGED Store!vars
  BY DEF store, Store!vars
<1> QED BY <1>1, <1>2, <1>3, <1>4, <1>5, <1>6, <1>7, <1>8 DEF Next

\* Whatever the browsers do, the catalog sees nothing but what CatalogStore
\* allows its clients: identities are new, requests are valid, answers are final.
THEOREM WorkspaceUsesStore == Spec => Store!Spec
<1>1. Init => Store!Init
  BY DEF Init
<1>2. PageInv /\ [Next]_vars => [Store!Next]_(Store!vars)
  BY StoreStep DEF PageInv
<1> QED BY <1>1, <1>2, PageHolds, PTL DEF Spec, Store!Spec
-----------------------------------------------------------------------------
(* The audit log.                                                          *)

\* Who has an entry is over, and the entry says what was asked for.
LogOver ==
    \A p \in Products : \A i \in 1..Len(audit[p]) :
        LET c == audit[p][i].request IN
        c # Absent => /\ req[c] # Absent /\ ~open[c]
                      /\ p = req[c].key /\ audit[p][i].old = req[c].expected

LogAnswers ==
    \A c \in Calls : reply[c] = "OK" =>
        \E p \in Products : \E i \in 1..Len(audit[p]) : audit[p][i].request = c

\* What a call asks for is what its browser sent.
Carried ==
    \A c \in Calls : req[c] # Absent =>
        /\ reply[c] # "none"
        /\ req[c].expected = sent[c].revision
        /\ sent[c].base # New => req[c].key = sent[c].base.key

LogInv ==
    /\ audit \in AuditTable
    /\ AuditComplete(products, audit)
    /\ LogOver /\ LogAnswers /\ Carried

LEMMA LogInit ==
    ASSUME Init
    PROVE  LogInv
<1>1. PICK db \in Databases : products = db.products /\ audit = db.audit
  BY DEF Init, Store!Init
<1>2. /\ audit \in AuditTable
      /\ Consistent(products, db.variants, audit)
      /\ \A p \in Products : \A i \in 1..Len(audit[p]) : audit[p][i].request = Absent
  BY <1>1, DatabasesAssumption
<1>3. \A c \in Calls : req[c] = Absent /\ reply[c] = "none"
  BY DEF Init, Store!Init
<1> QED BY <1>2, <1>3 DEF LogInv, LogOver, LogAnswers, Carried, Consistent

LEMMA SentKept ==
    ASSUME Told, Told', SavesHanded, NEW c \in Calls, reply[c] # "none", reply'[c] # "none"
    PROVE  sent'[c].base = sent[c].base /\ sent'[c].revision = sent[c].revision
  BY DEF Told, SavesHanded

\* The steps that write no entry and tell nobody OK.
LEMMA LogSame ==
    ASSUME LogInv, Told, Told', SavesHanded,
           UNCHANGED <<products, audit, req>>,
           \A c \in Calls : /\ open'[c] => open[c]
                            /\ reply'[c] = "OK" => reply[c] = "OK"
                            /\ reply[c] # "none" => reply'[c] # "none"
    PROVE  LogInv'
<1>1. audit' \in AuditTable /\ AuditComplete(products, audit)'
  <2>1. audit' = audit /\ products' = products
    OBVIOUS
  <2>2. AuditComplete(products, audit) => AuditComplete(products', audit')
    BY <2>1
  <2> QED BY <2>1, <2>2 DEF LogInv
<1>2. LogOver'
  <2> SUFFICES ASSUME NEW p \in Products, NEW i \in 1..Len(audit[p]),
                      NEW c, c = audit[p][i].request, c # Absent
               PROVE  /\ req[c] # Absent /\ ~open'[c]
                      /\ p = req[c].key /\ audit[p][i].old = req[c].expected
    BY DEF LogOver
  <2>1. /\ req[c] # Absent /\ ~open[c]
        /\ p = req[c].key /\ audit[p][i].old = req[c].expected
    BY DEF LogInv, LogOver
  <2>2. c \in Calls
    <3>1. audit[p] \in Seq(AuditEntry)
      BY DEF LogInv, AuditTable
    <3>2. audit[p][i] \in AuditEntry
      BY <3>1
    <3> QED BY <3>2 DEF AuditEntry
  <2> QED BY <2>1, <2>2
<1>3. LogAnswers'
  BY DEF LogInv, LogAnswers
<1>4. Carried'
  <2> SUFFICES ASSUME NEW c \in Calls, req[c] # Absent
               PROVE  /\ reply'[c] # "none"
                      /\ req[c].expected = sent'[c].revision
                      /\ sent'[c].base # New => req[c].key = sent'[c].base.key
    BY DEF Carried
  <2>1. reply[c] # "none" /\ reply'[c] # "none"
    BY DEF LogInv, Carried
  <2>2. sent'[c].base = sent[c].base /\ sent'[c].revision = sent[c].revision
    BY <2>1, SentKept
  <2> QED BY <2>1, <2>2 DEF LogInv, Carried
<1> QED BY <1>1, <1>2, <1>3, <1>4 DEF LogInv

LEMMA QuietServe ==
    ASSUME Shapes, NEW c \in Calls, Store!Refuse(c) \/ Store!Drop(c) \/ Store!GiveUp(c)
    PROVE  /\ UNCHANGED <<products, audit, req>>
           /\ \A d \in Calls : /\ open'[d] => open[d]
                               /\ reply'[d] = "OK" => reply[d] = "OK"
                               /\ reply[d] # "none" => reply'[d] # "none"
<1>1. PICK what \in Replies \ {"none", "OK"} : Store!Tell(c, what)
  <2>1. CASE Store!Refuse(c)
    <3>1. PICK why \in Store!Grounds(req[c]) : Store!Tell(c, why)
      BY <2>1 DEF Store!Refuse
    <3>2. why \in Refusals
      BY SameCatalog DEF Store!Grounds
    <3> QED BY <3>1, <3>2 DEF Replies, Refusals
  <2>2. CASE Store!Drop(c) \/ Store!GiveUp(c)
    BY <2>2 DEF Store!Drop, Store!GiveUp, Replies
  <2> QED BY <2>1, <2>2
<1>2. /\ UNCHANGED <<products, audit, req>>
      /\ open' = [open EXCEPT ![c] = FALSE] \/ open' = open
  BY DEF Store!Refuse, Store!Drop, Store!GiveUp, Store!tables
<1>3. \A d \in Calls : /\ reply'[d] = "OK" => reply[d] = "OK"
                       /\ reply[d] # "none" => reply'[d] # "none"
  BY <1>1 DEF Shapes, Store!Tell
<1>4. \A d \in Calls : open'[d] => open[d]
  BY <1>2 DEF Shapes
<1> QED BY <1>2, <1>3, <1>4

\* A request that begins has no entry yet.
LEMMA ArriveLog ==
    ASSUME PageInv, PageInv', LogInv, NEW c \in Calls, Arrive(c)
    PROVE  LogInv'
<1>s. Shapes /\ Told /\ Told'
  BY DEF PageInv
<1>1. SavesHanded /\ sent'[c].base = sent[c].base /\ sent'[c].revision = sent[c].revision
  BY <1>s, ArriveHanded DEF HandedOn
<1>2. CASE UNCHANGED store
  BY <1>s, <1>1, <1>2, LogSame DEF store
<1>3. CASE Store!Reject(c)
  <2>1. UNCHANGED <<products, audit, req>> /\ open' = open
    BY <1>3 DEF Store!Reject, Store!tables
  <2>2. \A d \in Calls : /\ reply'[d] = "OK" => reply[d] = "OK"
                         /\ reply[d] # "none" => reply'[d] # "none"
    BY <1>s, <1>3 DEF Shapes, Store!Reject
  <2> QED BY <1>s, <1>1, <2>1, <2>2, LogSame
<1>4. CASE ~(UNCHANGED store \/ Store!Reject(c))
  <2>1. PICK key \in IF sent[c].base = New THEN Products ELSE {sent[c].base.key} :
          \E keys \in [1..Len(sent[c].draft.items) -> Variants] :
             /\ req' = [req EXCEPT ![c] =
                  [target |-> IF sent[c].base = New THEN Absent ELSE key,
                   expected |-> sent[c].revision, key |-> key,
                   draft |-> sent[c].draft, keys |-> keys]]
             /\ Store!Submit(c)
    BY <1>4 DEF Arrive
  <2>2. req'[c].expected = sent[c].revision /\ req'[c].key = key
    BY <1>s, <2>1 DEF Shapes
  <2>3. /\ open' = [open EXCEPT ![c] = TRUE] /\ reply' = [reply EXCEPT ![c] = "waiting"]
        /\ \A d \in Calls \ {c} : req'[d] = req[d]
        /\ UNCHANGED <<products, audit>>
    BY <1>s, <2>1, SubmitShaped
  <2>4. /\ \A d \in Calls \ {c} : open'[d] = open[d] /\ reply'[d] = reply[d]
        /\ reply'[c] = "waiting"
    BY <1>s, <2>3 DEF Shapes
  <2>5. req[c] = Absent
    <3>1. reply[c] = "none"
      BY <2>1 DEF Store!Submit
    <3> QED BY <3>1 DEF LogInv, Carried
  <2>6. audit' \in AuditTable /\ AuditComplete(products, audit)'
    <3>1. AuditComplete(products, audit) => AuditComplete(products', audit')
      BY <2>3
    <3> QED BY <2>3, <3>1 DEF LogInv
  <2>7. LogOver'
    <3> SUFFICES ASSUME NEW p \in Products, NEW i \in 1..Len(audit[p]),
                        NEW d, d = audit[p][i].request, d # Absent
                 PROVE  /\ req'[d] # Absent /\ ~open'[d]
                        /\ p = req'[d].key /\ audit[p][i].old = req'[d].expected
      BY <2>3 DEF LogOver
    <3>1. /\ req[d] # Absent /\ ~open[d]
          /\ p = req[d].key /\ audit[p][i].old = req[d].expected
      BY DEF LogInv, LogOver
    <3>2. d \in Calls
      <4>1. audit[p] \in Seq(AuditEntry)
        BY DEF LogInv, AuditTable
      <4>2. audit[p][i] \in AuditEntry
        BY <4>1
      <4> QED BY <4>2 DEF AuditEntry
    <3>3. d # c
      BY <2>5, <3>1
    <3> QED BY <2>3, <2>4, <3>1, <3>2, <3>3
  <2>8. LogAnswers'
    BY <2>3, <2>4 DEF LogInv, LogAnswers
  <2>9. Carried'
    <3> SUFFICES ASSUME NEW d \in Calls, req'[d] # Absent
                 PROVE  /\ reply'[d] # "none"
                        /\ req'[d].expected = sent'[d].revision
                        /\ sent'[d].base # New => req'[d].key = sent'[d].base.key
      BY DEF Carried
    <3>1. CASE d = c
      <4>1. sent'[c].base # New => key = sent'[c].base.key
        BY <1>1, <2>1
      <4> QED BY <1>1, <2>2, <2>4, <3>1, <4>1
    <3>2. CASE d # c
      <4>1. req[d] # Absent /\ req'[d] = req[d] /\ reply'[d] = reply[d]
        BY <2>3, <2>4, <3>2
      <4>2. /\ reply[d] # "none" /\ req[d].expected = sent[d].revision
            /\ sent[d].base # New => req[d].key = sent[d].base.key
        BY <4>1 DEF LogInv, Carried
      <4>3. sent'[d].base = sent[d].base /\ sent'[d].revision = sent[d].revision
        BY <1>s, <1>1, <4>1, <4>2, SentKept
      <4> QED BY <4>1, <4>2, <4>3
    <3> QED BY <3>1, <3>2
  <2> QED BY <2>6, <2>7, <2>8, <2>9 DEF LogInv
<1> QED BY <1>2, <1>3, <1>4

\* A save that takes effect adds the entry of its revision, and no other.
LEMMA Logged ==
    ASSUME EditInv, LogInv, NEW c \in Calls, Store!Apply(c)
    PROVE  LET p == req[c].key
               n == req[c].expected
           IN  /\ p \in Products /\ n \in 0..MaxRevision /\ n < MaxRevision
               /\ Len(audit[p]) = n
               /\ products'[p] # Absent /\ products'[p].revision = n + 1
               /\ audit' = [audit EXCEPT ![p] =
                               Append(@, [request |-> c, old |-> n, new |-> n + 1])]
<1>s. Shapes
  BY DEF EditInv, PageInv
<1>1. PICK r \in Requests : r = req[c]
  BY Applied
<1>2. /\ r.key \in Products /\ open[c] /\ products'[r.key] # Absent
      /\ ~Creates(r) => /\ products[r.key] # Absent
                        /\ products[r.key].revision = r.expected
  BY <1>1, Applied
<1>3. /\ Store!Current(r) = r.expected /\ Store!Current(r) < MaxRevision
      /\ products' = [products EXCEPT ![r.key] =
           [slug |-> r.draft.slug, status |-> r.draft.status,
            content |-> r.draft.content, revision |-> Store!Current(r) + 1]]
      /\ audit' = [audit EXCEPT ![r.key] =
            Append(@, [request |-> c, old |-> Store!Current(r), new |-> Store!Current(r) + 1])]
  BY <1>1 DEF Store!Apply, Store!Savable
<1>4. products'[r.key].revision = r.expected + 1
  <2>1. products'[r.key] = [slug |-> r.draft.slug, status |-> r.draft.status,
            content |-> r.draft.content, revision |-> Store!Current(r) + 1]
    BY <1>s, <1>2, <1>3 DEF Shapes, ProductTable
  <2> QED BY <1>3, <2>1
<1>5. r.expected \in 0..MaxRevision /\ r.expected < MaxRevision
  BY <1>3 DEF Requests, Ask
<1>6. Len(audit[r.key]) = r.expected
  <2>1. Len(audit[r.key]) = IF products[r.key] = Absent THEN 0 ELSE products[r.key].revision
    BY <1>2 DEF LogInv, AuditComplete
  <2>2. CASE Creates(r)
    <3>1. products[r.key] = Absent
      BY <1>1, <1>2, <2>2 DEF EditInv, DrawnFree
    <3> QED BY <2>1, <2>2, <3>1, RequestTyped
  <2>3. CASE ~Creates(r)
    BY <1>2, <2>1, <2>3
  <2> QED BY <2>2, <2>3
<1> QED BY <1>1, <1>2, <1>3, <1>4, <1>5, <1>6

LEMMA ApplyLog ==
    ASSUME EditInv, LogInv, Told', NEW c \in Calls, Store!Apply(c), sent' = sent
    PROVE  LogInv'
<1>s. Shapes /\ Told
  BY DEF EditInv, PageInv
<1>1. PICK r \in Requests : r = req[c]
  BY Applied
<1>2. /\ open[c] /\ ~open'[c] /\ req' = req
      /\ \A d \in Calls \ {c} : open'[d] = open[d]
      /\ \A p \in Products \ {r.key} : products'[p] = products[p]
  BY <1>1, Applied
<1>3. PICK n \in 0..MaxRevision : n = r.expected
  BY <1>1, Logged
<1>4. PICK e : e = [request |-> c, old |-> n, new |-> n + 1]
  OBVIOUS
<1>5. /\ r.key \in Products /\ n < MaxRevision /\ Len(audit[r.key]) = n
      /\ products'[r.key] # Absent /\ products'[r.key].revision = n + 1
      /\ audit' = [audit EXCEPT ![r.key] = Append(@, e)]
  BY <1>1, <1>3, <1>4, Logged
<1>6. e \in AuditEntry /\ e.request = c /\ e.old = n /\ e.new = n + 1
  <2>1. n + 1 \in 1..MaxRevision
    BY <1>3, <1>5, CatalogAssumption
  <2> QED BY <1>4, <2>1 DEF AuditEntry
<1>7. audit \in [Products -> Seq(AuditEntry)]
  BY DEF LogInv, AuditTable
<1>8. /\ audit'[r.key] = Append(audit[r.key], e) /\ audit[r.key] \in Seq(AuditEntry)
      /\ \A p \in Products \ {r.key} : audit'[p] = audit[p]
  BY <1>5, <1>7
<1>9. /\ Len(audit'[r.key]) = n + 1 /\ audit'[r.key][n + 1] = e
      /\ audit'[r.key] \in Seq(AuditEntry)
      /\ \A i \in 1..n : audit'[r.key][i] = audit[r.key][i]
  BY <1>5, <1>6, <1>8
<1>10. audit' \in AuditTable
  BY <1>5, <1>7, <1>8, <1>9 DEF AuditTable
<1>11. AuditComplete(products, audit)'
  <2> SUFFICES ASSUME NEW p \in Products
               PROVE  /\ Len(audit'[p]) = IF products'[p] = Absent THEN 0
                                          ELSE products'[p].revision
                      /\ \A i \in 1..Len(audit'[p]) :
                            audit'[p][i].old = i - 1 /\ audit'[p][i].new = i
    BY DEF AuditComplete
  <2>1. /\ Len(audit[p]) = IF products[p] = Absent THEN 0 ELSE products[p].revision
        /\ \A i \in 1..Len(audit[p]) : audit[p][i].old = i - 1 /\ audit[p][i].new = i
    BY DEF LogInv, AuditComplete
  <2>2. CASE p # r.key
    BY <1>2, <1>8, <2>1, <2>2
  <2>3. CASE p = r.key
    <3>1. ASSUME NEW i \in 1..(n + 1)
          PROVE  audit'[p][i].old = i - 1 /\ audit'[p][i].new = i
      <4>1. CASE i = n + 1
        BY <1>3, <1>6, <1>9, <2>3, <4>1
      <4>2. CASE i # n + 1
        <5>1. i \in 1..n
          BY <1>3, <4>2
        <5> QED BY <1>5, <1>9, <2>1, <2>3, <5>1
      <4> QED BY <4>1, <4>2
    <3> QED BY <1>5, <1>9, <2>3, <3>1
  <2> QED BY <2>2, <2>3
<1>12. LogOver'
  <2> SUFFICES ASSUME NEW p \in Products, NEW i \in 1..Len(audit'[p]),
                      NEW d, d = audit'[p][i].request, d # Absent
               PROVE  /\ req[d] # Absent /\ ~open'[d]
                      /\ p = req[d].key /\ audit'[p][i].old = req[d].expected
    BY <1>2 DEF LogOver
  <2>1. ASSUME i \in 1..Len(audit[p]), audit'[p][i] = audit[p][i]
        PROVE  /\ req[d] # Absent /\ ~open'[d]
               /\ p = req[d].key /\ audit'[p][i].old = req[d].expected
    <3>1. /\ req[d] # Absent /\ ~open[d]
          /\ p = req[d].key /\ audit[p][i].old = req[d].expected
      BY <2>1 DEF LogInv, LogOver
    <3>2. audit[p][i] \in AuditEntry
      BY <1>7, <2>1
    <3>3. d \in Calls
      BY <2>1, <3>2 DEF AuditEntry
    <3> QED BY <1>2, <2>1, <3>1, <3>3
  <2>2. CASE p # r.key
    BY <1>8, <2>1, <2>2
  <2>3. CASE p = r.key /\ i \in 1..n
    BY <1>5, <1>9, <2>1, <2>3
  <2>4. CASE p = r.key /\ i \notin 1..n
    <3>1. i = n + 1
      BY <1>3, <1>9, <2>4
    <3>2. d = c /\ audit'[p][i].old = n
      BY <1>6, <1>9, <2>4, <3>1
    <3>3. r # Absent
      BY AbsentAssumption
    <3> QED BY <1>1, <1>2, <1>3, <2>4, <3>2, <3>3
  <2> QED BY <2>2, <2>3, <2>4
<1>13. Store!Tell(c, "OK")
  BY DEF Store!Apply
<1>14. LogAnswers'
  <2> SUFFICES ASSUME NEW d \in Calls, reply'[d] = "OK"
               PROVE  \E p \in Products : \E i \in 1..Len(audit'[p]) : audit'[p][i].request = d
    BY DEF LogAnswers
  <2>1. CASE d = c
    <3>1. n + 1 \in 1..Len(audit'[r.key])
      BY <1>3, <1>9
    <3> QED BY <1>5, <1>6, <1>9, <2>1, <3>1
  <2>2. CASE d # c
    <3>1. reply[d] = "OK"
      BY <1>s, <1>13, <2>2 DEF Shapes, Store!Tell
    <3>2. PICK p \in Products : \E i \in 1..Len(audit[p]) : audit[p][i].request = d
      BY <3>1 DEF LogInv, LogAnswers
    <3>3. PICK i \in 1..Len(audit[p]) : audit[p][i].request = d
      BY <3>2
    <3>4. i \in 1..Len(audit'[p]) /\ audit'[p][i] = audit[p][i]
      <4>1. CASE p # r.key
        BY <1>8, <4>1
      <4>2. CASE p = r.key
        <5>1. i \in 1..n /\ i \in 1..(n + 1)
          BY <1>3, <1>5, <4>2
        <5> QED BY <1>9, <4>2, <5>1
      <4> QED BY <4>1, <4>2
    <3> QED BY <3>3, <3>4
  <2> QED BY <2>1, <2>2
<1>15. Carried'
  <2>1. \A d \in Calls : reply[d] # "none" => reply'[d] # "none"
    BY <1>s, <1>13 DEF Shapes, Store!Tell
  <2> QED BY <1>2, <2>1 DEF LogInv, Carried
<1> QED BY <1>10, <1>11, <1>12, <1>14, <1>15 DEF LogInv

LEMMA LogStep ==
    ASSUME EditInv, LogInv, EditInv', [Next]_vars
    PROVE  LogInv'
<1>s. PageInv /\ PageInv' /\ Shapes /\ Told /\ Told'
  BY DEF EditInv, PageInv
<1>1. ASSUME HandedOn, UNCHANGED store PROVE LogInv'
  BY <1>s, <1>1, LogSame DEF HandedOn, store
<1>2. ASSUME NEW b \in Browsers, User(b) PROVE LogInv'
  BY <1>s, <1>1, <1>2, UserHanded
<1>3. ASSUME NEW b \in Browsers, Expire(b) PROVE LogInv'
  BY <1>1, <1>3, IdleHanded DEF Expire, page
<1>4. ASSUME NEW b \in Browsers, NEW s \in Slots \cup Calls, Answer(b, s) \/ Receive(b, s)
      PROVE  LogInv'
  BY <1>s, <1>1, <1>4, AnswerHanded, ReceiveHanded
<1>5. ASSUME NEW c \in Calls, Hear(c) PROVE LogInv'
  BY <1>s, <1>1, <1>5, HearHanded
<1>6. ASSUME NEW c \in Calls, Arrive(c) PROVE LogInv'
  BY <1>s, <1>6, ArriveLog
<1>7. ASSUME NEW c \in Calls, Serve(c) PROVE LogInv'
  <2>1. sent' = sent /\ SavesHanded
    BY <1>7, IdleHanded DEF Serve, page, HandedOn
  <2>2. CASE Store!Apply(c)
    BY <1>s, <2>1, <2>2, ApplyLog
  <2>3. CASE ~Store!Apply(c)
    <3>1. Store!Refuse(c) \/ Store!Drop(c) \/ Store!GiveUp(c)
      BY <1>7, <2>3 DEF Serve
    <3> QED BY <1>s, <2>1, <3>1, QuietServe, LogSame
  <2> QED BY <2>2, <2>3
<1>8. CASE UNCHANGED vars
  BY <1>1, <1>8, IdleHanded DEF vars, page
<1> QED BY <1>2, <1>3, <1>4, <1>5, <1>6, <1>7, <1>8 DEF Next

\* The log of each product is complete, and each entry is that of a save that
\* was sent from a browser for the revision the entry replaces.
THEOREM LogHolds == Spec => [](EditInv /\ LogInv)
<1>1. Init => EditInv /\ LogInv
  BY EditInit, LogInit
<1>2. EditInv /\ LogInv /\ [Next]_vars => EditInv' /\ LogInv'
  BY EditStep, LogStep
<1> QED BY <1>1, <1>2, PTL DEF Spec

Entered(c, p, i) == i \in 1..Len(audit[p]) /\ audit[p][i].request = c

\* The entry of a save is that of the document it was sent for.
LEMMA EntryOf ==
    ASSUME PageInv, LogInv, NEW c \in Calls, NEW p \in Products,
           NEW i \in 1..Len(audit[p]), Entered(c, p, i)
    PROVE  /\ p = req[c].key /\ sent[c].revision = i - 1
           /\ audit[p][i].old = sent[c].revision
           /\ sent[c].base # New => p = sent[c].base.key
<1>1. c # Absent
  BY CatalogAssumption
<1>2. req[c] # Absent /\ p = req[c].key /\ audit[p][i].old = req[c].expected
  BY <1>1 DEF LogInv, LogOver, Entered
<1>3. audit[p][i].old = i - 1
  BY DEF LogInv, AuditComplete
<1>4. /\ req[c].expected = sent[c].revision
      /\ sent[c].base # New => req[c].key = sent[c].base.key
  BY <1>2 DEF LogInv, Carried
<1> QED BY <1>2, <1>3, <1>4

\* saved() closes the editor: the change is then in the catalog, once, as the
\* revision after that of the very document the editor was opened on.
SavedIsKept ==
    \A c \in Calls : (sent[c] # Absent /\ AnswerTo(c) = "OK") =>
        \E p \in Products : \E i \in 1..Len(audit[p]) :
            /\ Entered(c, p, i)
            /\ audit[p][i].old = sent[c].revision
            /\ sent[c].base # New => p = sent[c].base.key
            /\ \A q \in Products : \A j \in 1..Len(audit[q]) :
                  Entered(c, q, j) => q = p /\ j = i

\* No editor is closed as saved without its change being in the catalog: what
\* the page is told survives lost answers, sign-ins and all other saves.
THEOREM SavedChangesAreKept == Spec => []SavedIsKept
<1>1. ASSUME EditInv, LogInv PROVE SavedIsKept
  <2> SUFFICES ASSUME NEW c \in Calls, sent[c] # Absent, AnswerTo(c) = "OK"
               PROVE  \E p \in Products : \E i \in 1..Len(audit[p]) :
                        /\ Entered(c, p, i)
                        /\ audit[p][i].old = sent[c].revision
                        /\ sent[c].base # New => p = sent[c].base.key
                        /\ \A q \in Products : \A j \in 1..Len(audit[q]) :
                              Entered(c, q, j) => q = p /\ j = i
    BY DEF SavedIsKept
  <2>s. PageInv /\ Shapes
    BY <1>1 DEF EditInv, PageInv
  <2>1. reply[c] = "OK"
    <3>1. sent[c] \in Saves
      BY <2>s DEF Shapes
    <3>2. sent[c].answer # "OK"
      BY <3>1 DEF Saves
    <3> QED BY <3>2 DEF AnswerTo
  <2>2. PICK p \in Products : \E i \in 1..Len(audit[p]) : audit[p][i].request = c
    BY <1>1, <2>1 DEF LogInv, LogAnswers
  <2>3. PICK i \in 1..Len(audit[p]) : audit[p][i].request = c
    BY <2>2
  <2>4. Entered(c, p, i)
    BY <2>3 DEF Entered
  <2>5. ASSUME NEW q \in Products, NEW j \in 1..Len(audit[q]), Entered(c, q, j)
        PROVE  q = p /\ j = i
    <3>1. /\ p = req[c].key /\ sent[c].revision = i - 1
          /\ q = req[c].key /\ sent[c].revision = j - 1
      BY <1>1, <2>s, <2>4, <2>5, EntryOf
    <3> QED BY <3>1
  <2>6. audit[p][i].old = sent[c].revision /\ (sent[c].base # New => p = sent[c].base.key)
    BY <1>1, <2>s, <2>4, EntryOf
  <2> QED BY <2>4, <2>5, <2>6
<1> QED BY <1>1, LogHolds, PTL

\* Of the saves sent for one document, by one employee or by many, one at most
\* ever takes effect.
OneSaveWins ==
    \A c, d \in Calls :
        (/\ sent[c].base = sent[d].base /\ sent[c].base # New
         /\ \E p \in Products : \E i \in 1..Len(audit[p]) : Entered(c, p, i)
         /\ \E p \in Products : \E i \in 1..Len(audit[p]) : Entered(d, p, i)) => c = d

\* So a save that is repeated after a lost answer, or made by a colleague from
\* the same list, is not made twice.
THEOREM SavesAreNotRepeated == Spec => []OneSaveWins
<1>1. ASSUME EditInv, LogInv PROVE OneSaveWins
  <2> SUFFICES ASSUME NEW c \in Calls, NEW d \in Calls,
                      sent[c].base = sent[d].base, sent[c].base # New,
                      NEW p \in Products, NEW i \in 1..Len(audit[p]), Entered(c, p, i),
                      NEW q \in Products, NEW j \in 1..Len(audit[q]), Entered(d, q, j)
               PROVE  c = d
    BY DEF OneSaveWins
  <2>s. PageInv
    BY <1>1 DEF EditInv
  <2>1. /\ p = sent[c].base.key /\ sent[c].revision = i - 1 /\ p = req[c].key
        /\ q = sent[d].base.key /\ sent[d].revision = j - 1 /\ q = req[d].key
    BY <1>1, <2>s, EntryOf
  <2>2. sent[c] # Absent /\ sent[d] # Absent
    <3>1. c # Absent /\ d # Absent
      BY CatalogAssumption
    <3>2. req[c] # Absent /\ req[d] # Absent
      BY <1>1, <3>1 DEF LogInv, LogOver, Entered
    <3>3. reply[c] # "none" /\ reply[d] # "none"
      BY <1>1, <3>2 DEF LogInv, Carried
    <3> QED BY <2>s, <3>3 DEF PageInv, Told
  <2>3. /\ sent[c].revision = sent[c].base.row.revision
        /\ sent[d].revision = sent[d].base.row.revision
    BY <1>1, <2>2 DEF EditInv, Revisions
  <2>4. p = q /\ i = j
    BY <2>1, <2>3
  <2> QED BY <2>4 DEF Entered
<1> QED BY <1>1, LogHolds, PTL
=============================================================================
