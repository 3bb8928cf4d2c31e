-------------------------- MODULE Storefront_proofs --------------------------
(***************************************************************************)
(* Proofs about Storefront, for every number of products, images, sizes    *)
(* and viewers: images are whole, uploads are told the truth, images stay  *)
(* private until an active product shows them, pages partition a list, and *)
(* a crawl misses a product only because a newer one moved.                *)
(***************************************************************************)
EXTENDS Storefront, TLAPS, FiniteSetTheorems

ViewSteps == {"published", "require", "get"}

ShelfTypes ==
    /\ products \in [Products -> Row \cup {Absent}]
    /\ media \subseteq Images

MediaTypes ==
    /\ objects \in [Images -> SUBSET Sizes]
    /\ upload \in [Images -> {"idle", "put", "row", "done"}]
    /\ told \in [Images -> {"none", "INVALID_IMAGE", "STORAGE_UNAVAILABLE",
                            "DATABASE_UNAVAILABLE", "CREATED"}]
    /\ log \in [Images -> Nat]

ViewRow ==
    [at: {"idle", "published", "require", "get", "done"},
     image: Images \cup {Absent}, size: Sizes \cup {Absent}, signed: BOOLEAN,
     reply: {"none", "OK", "NOT_FOUND", "AUTH_REQUIRED", "STORAGE_UNAVAILABLE"},
     known: BOOLEAN, shown: BOOLEAN, gone: BOOLEAN]

CrawlTypes ==
    /\ left \in (SUBSET Nat) \cup {Absent}
    /\ listed \in [Products -> Nat]
    /\ stayed \subseteq Products
    /\ moved \subseteq Products

\* How far each upload is: the loop leaves no size out, and no row comes early.
Uploads ==
    \A m \in Images :
        /\ upload[m] \in {"idle", "put"} => told[m] = "none"
        /\ upload[m] = "idle" => objects[m] = {}
        /\ upload[m] = "put" => objects[m] \cup Missing(m) = Sizes
        /\ upload[m] = "row" => objects[m] = Sizes
                                /\ told[m] \in {"none", "DATABASE_UNAVAILABLE"}
        /\ m \in media => /\ upload[m] = "done" /\ objects[m] = Sizes /\ log[m] = 1
                          /\ told[m] \in {"CREATED", "DATABASE_UNAVAILABLE"}
        /\ m \notin media => log[m] = 0 /\ told[m] # "CREATED"

\* Products show images that have a row.
ImagesKnown ==
    \A p \in Products : products[p] # Absent => products[p].images \subseteq media

\* What is true of a request for an image at each step of it.
ViewHolds(w) ==
    /\ w.at # "idle" => w.image \in Images /\ w.size \in Sizes
    /\ w.known => w.image \in media
    /\ w.at \in ViewSteps => /\ w.reply = "none"
                             /\ w.shown \/ w.image \notin Shown
                             /\ w.gone \/ w.image \in Shown
    /\ w.at = "require" => w.gone
    /\ w.at = "get" => w.signed \/ w.shown
    /\ w.reply = "OK" => w.signed \/ w.shown
    /\ w.reply = "AUTH_REQUIRED" => w.gone
    /\ w.known => w.reply # "NOT_FOUND"
    /\ w.at = "idle" => w = NoView

Views == view \in [Viewers -> ViewRow] /\ \A v \in Viewers : ViewHolds(view[v])

MInv == ShelfTypes /\ MediaTypes /\ Uploads /\ ImagesKnown

IInv == MInv /\ Views /\ CrawlTypes
----------------------------------------------------------------------------
(* Products, images and uploads.                                           *)

\* The initial states satisfy the inductive invariant.
LEMMA InitIInv == Init => IInv
<1> SUFFICES ASSUME Init PROVE IInv
    OBVIOUS
<1> USE DEF Init, ShelfInit, MediaInit, CrawlInit
<1>1. ShelfTypes /\ ImagesKnown
  <2>1. ASSUME NEW p \in Products
        PROVE  products[p] \in Row \cup {Absent}
               /\ (products[p] # Absent => products[p].images = {})
    BY DEF Row
  <2> QED BY <2>1 DEF ShelfTypes, ImagesKnown
<1>4. MediaTypes /\ CrawlTypes
  BY DEF MediaTypes, CrawlTypes
<1>2. Uploads
  BY DEF Uploads, Missing
<1>3. Views
  <2>1. NoView \in ViewRow
    BY DEF NoView, ViewRow
  <2>2. ViewHolds(NoView)
    BY DEF NoView, ViewHolds, ViewSteps
  <2> QED BY <2>1, <2>2 DEF Views
<1> QED BY <1>1, <1>2, <1>3, <1>4 DEF IInv, MInv

\* A save leaves the uploads alone and names only images that have a row.
LEMMA SaveMInv == ASSUME MInv, NEW p \in Products, Save(p) PROVE MInv'
<1>1. PICK row \in Row : row.images \subseteq media
                         /\ products' = [products EXCEPT ![p] = row]
  BY DEF Save, Publish
<1>2. media' = media /\ objects' = objects /\ upload' = upload /\ told' = told /\ log' = log
  BY DEF Save, Publish
<1>3. ShelfTypes' /\ MediaTypes'
  BY <1>1, <1>2 DEF MInv, ShelfTypes, MediaTypes
<1>4. Uploads'
  BY <1>2 DEF MInv, Uploads, Missing
<1>5. ImagesKnown'
  BY <1>1, <1>2 DEF MInv, ShelfTypes, ImagesKnown
<1> QED BY <1>3, <1>4, <1>5 DEF MInv

\* An upload puts the sizes one by one, and then the row.
LEMMA UploadMInv == ASSUME MInv, NEW m \in Images, Upload(m) PROVE MInv'
<1>0. products' = products /\ media \subseteq media'
  BY DEF Upload, Insert, MInv, ShelfTypes
<1>1. ASSUME NEW d \in Images, d # m
      PROVE  /\ objects'[d] = objects[d] /\ upload'[d] = upload[d] /\ told'[d] = told[d]
             /\ log'[d] = log[d] /\ (d \in media' <=> d \in media)
  BY <1>1 DEF Upload, Receive, Put, PutFails, Insert, GiveUp, Lose, To, Ends, MInv, MediaTypes
<1>2. CASE Receive(m) /\ UNCHANGED media
  BY <1>0, <1>1, <1>2 DEF Receive, To, Ends, MInv, ShelfTypes, MediaTypes, Uploads,
     ImagesKnown, Missing
<1>3. CASE Put(m) /\ UNCHANGED media
  <2>1. PICK s \in Sizes : /\ AtSize(m, s)
                           /\ objects' = [objects EXCEPT ![m] = @ \cup {s}]
                           /\ To(m, IF Missing(m) = {s} THEN "row" ELSE "put")
    BY <1>3 DEF Put
  <2>2. objects[m] \cup Missing(m) = Sizes /\ upload[m] = "put"
    BY <1>3 DEF Put, MInv, Uploads
  <2>3. objects'[m] = objects[m] \cup {s}
    BY <2>1 DEF MInv, MediaTypes
  <2>4. Missing(m)' = {x \in Missing(m) : s < x}
    BY <2>3 DEF Missing
  <2>5. \A x \in Missing(m) : x = s \/ s < x
    BY <2>1, MediaAssumption DEF AtSize, Missing
  <2>6. objects'[m] \cup Missing(m)' = Sizes
    BY <2>2, <2>3, <2>4, <2>5
  <2>7. Missing(m) = {s} => objects'[m] = Sizes
    BY <2>2, <2>3
  <2>8. upload'[m] = IF Missing(m) = {s} THEN "row" ELSE "put"
    BY <2>1 DEF To, MInv, MediaTypes
  <2>9. ShelfTypes' /\ MediaTypes'
    BY <1>0, <1>3, <2>1 DEF Put, To, MInv, ShelfTypes, MediaTypes
  <2>10. Uploads'
    <3>1. told' = told /\ log' = log /\ media' = media
      BY <1>3 DEF Put
    <3>2. ASSUME NEW d \in Images, d # m PROVE Missing(d)' = Missing(d)
      BY <1>1, <3>2 DEF Missing
    <3> QED BY <1>1, <2>2, <2>6, <2>7, <2>8, <3>1, <3>2 DEF MInv, Uploads
  <2> QED BY <1>0, <1>3, <2>9, <2>10 DEF MInv, ImagesKnown
<1>4. CASE PutFails(m) /\ UNCHANGED media
  <2>1. ShelfTypes' /\ MediaTypes'
    BY <1>0, <1>4 DEF PutFails, To, Ends, MInv, ShelfTypes, MediaTypes
  <2>2. upload[m] = "put" /\ upload'[m] = "done" /\ log' = log /\ media' = media
        /\ told'[m] \in {"INVALID_IMAGE", "STORAGE_UNAVAILABLE"}
    BY <1>4 DEF PutFails, To, Ends, MInv, MediaTypes
  <2>3. ASSUME NEW d \in Images, d # m PROVE Missing(d)' = Missing(d)
    BY <1>1, <2>3 DEF Missing
  <2>4. Uploads'
    BY <1>1, <2>2, <2>3 DEF MInv, Uploads
  <2> QED BY <1>0, <2>1, <2>2, <2>4 DEF MInv, ImagesKnown
<1>5. CASE Insert(m)
  <2>1. ShelfTypes' /\ MediaTypes'
    BY <1>0, <1>5 DEF Insert, To, Ends, MInv, ShelfTypes, MediaTypes
  <2>2. upload[m] = "row" /\ upload'[m] = "done" /\ objects' = objects /\ m \in media'
        /\ log'[m] = log[m] + 1 /\ told'[m] = IF told[m] = "none" THEN "CREATED" ELSE told[m]
    BY <1>5 DEF Insert, To, Ends, MInv, MediaTypes
  <2>3. log[m] = 0 /\ told[m] \in {"none", "DATABASE_UNAVAILABLE"} /\ objects[m] = Sizes
    BY <2>2 DEF MInv, Uploads
  <2>4. Uploads'
    BY <1>1, <2>2, <2>3 DEF MInv, Uploads, Missing
  <2> QED BY <1>0, <2>1, <2>4 DEF MInv, ImagesKnown
<1>6. CASE GiveUp(m) /\ UNCHANGED media
  BY <1>0, <1>1, <1>6 DEF GiveUp, MInv, ShelfTypes, MediaTypes, Uploads, ImagesKnown, Missing
<1>7. CASE Lose(m) /\ UNCHANGED media
  BY <1>0, <1>1, <1>7 DEF Lose, To, MInv, ShelfTypes, MediaTypes, Uploads, ImagesKnown, Missing
<1> QED BY <1>2, <1>3, <1>4, <1>5, <1>6, <1>7 DEF Upload

\* Nothing else touches them.
LEMMA OthersMInv ==
  ASSUME MInv, UNCHANGED <<products, media, objects, upload, told, log>> PROVE MInv'
  BY DEF MInv, ShelfTypes, MediaTypes, Uploads, ImagesKnown, Missing
----------------------------------------------------------------------------
(* Requests for an image.                                                  *)

\* What images are shown has a row, and so has what an upload was told of.
LEMMA ShownKnown == MInv => Shown \subseteq media /\ \A m \in Images : told[m] = "CREATED" => m \in media
  BY DEF MInv, ShelfTypes, Uploads, ImagesKnown, Shown, Public

\* A request stays right while the shelf is as it was and rows are added.
LEMMA ViewsKept ==
  ASSUME Views, UNCHANGED <<products, view>>, media \subseteq media'
  PROVE  Views'
<1> SUFFICES ASSUME NEW v \in Viewers PROVE ViewHolds(view[v])'
  BY DEF Views
<1>1. Shown' = Shown
  BY DEF Shown, Public
<1> QED BY <1>1 DEF Views, ViewHolds

\* A save is noted for the requests under way.
LEMMA SaveViews == ASSUME MInv, Views, NEW p \in Products, Save(p) PROVE Views'
<1> SUFFICES ASSUME NEW v \in Viewers PROVE view'[v] \in ViewRow /\ ViewHolds(view[v])'
  BY DEF Views, Save, NotePublished
<1> DEFINE w == view[v]
<1>0. w \in ViewRow /\ ViewHolds(w) /\ media' = media
  BY DEF Views, Save, Publish
<1>1. CASE w.at \in {"idle", "done"}
  <2>1. view'[v] = w
    BY <1>1 DEF Save, NotePublished
  <2> QED BY <1>0, <1>1, <2>1 DEF ViewHolds, ViewSteps
<1>2. CASE w.at \notin {"idle", "done"}
  <2>1. PICK b \in BOOLEAN, g \in BOOLEAN :
          /\ b <=> w.shown \/ w.image \in Shown'
          /\ g <=> w.gone \/ w.image \notin Shown'
    OBVIOUS
  <2>2. view'[v] = [w EXCEPT !.shown = b, !.gone = g]
    <3>1. view'[v] = [w EXCEPT !.shown = @ \/ w.image \in Shown', !.gone = @ \/ w.image \notin Shown']
      BY <1>2 DEF Save, NotePublished
    <3>2. w.shown \in BOOLEAN /\ w.gone \in BOOLEAN
      BY <1>0 DEF ViewRow
    <3> QED BY <2>1, <3>1, <3>2
  <2>3. view'[v] \in ViewRow
    BY <1>0, <2>1, <2>2 DEF ViewRow
  <2>4. /\ view'[v].at = w.at /\ view'[v].image = w.image /\ view'[v].size = w.size
        /\ view'[v].signed = w.signed /\ view'[v].reply = w.reply /\ view'[v].known = w.known
        /\ view'[v].shown = b /\ view'[v].gone = g
    BY <1>0, <2>2 DEF ViewRow
  <2>5. w.at \in ViewSteps
    BY <1>0, <1>2 DEF ViewRow, ViewSteps
  <2> QED BY <1>0, <2>1, <2>3, <2>4, <2>5 DEF ViewHolds, ViewSteps
<1> QED BY <1>1, <1>2

\* A request goes through its steps.
LEMMA ViewViews == ASSUME MInv, Views, NEW v \in Viewers, View(v) PROVE Views'
<1>0. UNCHANGED <<products, media, objects, upload, told, log>> /\ Shown' = Shown
  BY DEF View, Ask, AskPublished, Require, Get, Shown, Public, Move, Answer
<1> SUFFICES ASSUME NEW w, w = view'[v],
                    \A d \in Viewers \ {v} : view'[d] = view[d]
             PROVE  w \in ViewRow /\ ViewHolds(w)
  <2>1. PICK w : view' = [view EXCEPT ![v] = w]
    BY DEF View, Ask, AskPublished, Require, Get, Move, Answer
  <2>2. view'[v] = w /\ \A d \in Viewers \ {v} : view'[d] = view[d]
    BY <2>1 DEF Views
  <2> QED BY <1>0, <2>1, <2>2 DEF Views, ViewHolds
<1> DEFINE o == view[v]
<1>1. o \in ViewRow /\ ViewHolds(o)
  BY DEF Views
<1>2. ASSUME NEW m \in Images, NEW s \in Sizes, NEW signed \in BOOLEAN, Ask(v, m, s, signed)
      PROVE  w \in ViewRow /\ ViewHolds(w)
  <2> DEFINE k == Known(m)
             b == m \in Shown
             g == m \notin Shown
  <2>1. k \in BOOLEAN /\ b \in BOOLEAN /\ g \in BOOLEAN /\ (b \/ m \notin Shown) /\ (g \/ m \in Shown)
    BY DEF Known
  <2>2. w = [NoView EXCEPT !.at = "published", !.image = m, !.size = s, !.signed = signed,
                           !.known = k, !.shown = b, !.gone = g]
    BY <1>2, Zenon DEF Ask, Views
  <2>3. w = [at |-> "published", image |-> m, size |-> s, signed |-> signed,
             reply |-> "none", known |-> k, shown |-> b, gone |-> g]
    <3> HIDE DEF k, b, g
    <3> QED BY <2>2 DEF NoView
  <2>4. k => m \in media
    BY ShownKnown DEF Known
  <2> HIDE DEF k, b, g
  <2> QED BY <2>1, <2>3, <2>4 DEF ViewRow, ViewHolds, ViewSteps
<1>3. ASSUME NEW step \in {"get", "require"}, Move(v, step), o.at \in ViewSteps,
             step = "get" => o.signed \/ o.image \in Shown,
             step = "require" => o.image \notin Shown
      PROVE  w \in ViewRow /\ ViewHolds(w)
  <2>1. w = [o EXCEPT !.at = step]
    BY <1>3 DEF Move, Views
  <2> QED BY <1>1, <1>3, <2>1 DEF ViewRow, ViewHolds, ViewSteps
<1>4. ASSUME NEW what \in {"OK", "NOT_FOUND", "AUTH_REQUIRED", "STORAGE_UNAVAILABLE"},
             Answer(v, what), o.at \in ViewSteps,
             what = "OK" => o.at = "get",
             what = "NOT_FOUND" => o.size \notin objects[o.image],
             what = "AUTH_REQUIRED" => o.at = "require"
      PROVE  w \in ViewRow /\ ViewHolds(w)
  <2>1. w = [o EXCEPT !.at = "done", !.reply = what]
    BY <1>4 DEF Answer, Views
  <2>2. what = "NOT_FOUND" => ~o.known
    <3>1. o.known => o.image \in media /\ o.image \in Images /\ o.size \in Sizes
      BY <1>1, <1>4 DEF ViewHolds, ViewSteps
    <3> QED BY <1>4, <3>1 DEF MInv, Uploads
  <2> QED BY <1>1, <1>4, <2>1, <2>2 DEF ViewRow, ViewHolds, ViewSteps
<1>5. CASE AskPublished(v)
  BY <1>3, <1>5 DEF AskPublished, ViewSteps
<1>6. CASE Require(v)
  BY <1>3, <1>4, <1>6 DEF Require, ViewSteps
<1>7. CASE Get(v)
  BY <1>4, <1>7 DEF Get, ViewSteps
<1> QED BY <1>2, <1>5, <1>6, <1>7 DEF View
----------------------------------------------------------------------------
(* The theorems about images.                                              *)

\* Every step keeps the types of the crawl.
LEMMA CrawlNext == ASSUME IInv, [Next]_vars PROVE CrawlTypes'
<1>1. CASE ReadIndex
  BY <1>1 DEF ReadIndex, IInv, CrawlTypes, Public
<1>2. ASSUME NEW page \in 1..Cardinality(Products), ReadPage(page) PROVE CrawlTypes'
  BY <1>2 DEF ReadPage, IInv, CrawlTypes
<1>3. ASSUME NEW p \in Products, Save(p) PROVE CrawlTypes'
  BY <1>3 DEF Save, NoteMoved, IInv, CrawlTypes, Public
<1>4. CASE UNCHANGED crawl
  BY <1>4 DEF crawl, IInv, CrawlTypes
<1> QED BY <1>1, <1>2, <1>3, <1>4 DEF Next, Upload, View, Crawl, vars

\* The inductive invariant is inductive.
LEMMA NextIInv == IInv /\ [Next]_vars => IInv'
<1> SUFFICES ASSUME IInv, [Next]_vars PROVE IInv'
    OBVIOUS
<1>0. CrawlTypes'
  BY CrawlNext
<1>1. ASSUME NEW p \in Products, Save(p) PROVE IInv'
  BY <1>0, <1>1, SaveMInv, SaveViews DEF IInv
<1>2. ASSUME NEW m \in Images, Upload(m) PROVE IInv'
  <2>1. UNCHANGED <<products, view>> /\ media \subseteq media'
    BY <1>2 DEF Upload, Receive, Put, PutFails, Insert, GiveUp, Lose
  <2> QED BY <1>0, <1>2, <2>1, UploadMInv, ViewsKept DEF IInv
<1>3. ASSUME NEW v \in Viewers, View(v) PROVE IInv'
  <2>1. UNCHANGED <<products, media, objects, upload, told, log>>
    BY <1>3 DEF View, Ask, AskPublished, Require, Get
  <2> QED BY <1>0, <1>3, <2>1, OthersMInv, ViewViews DEF IInv
<1>4. CASE Crawl \/ UNCHANGED vars
  <2>1. UNCHANGED <<products, media, objects, upload, told, log, view>>
    BY <1>4 DEF Crawl, ReadIndex, ReadPage, mediaVars, vars
  <2> QED BY <1>0, <2>1, OthersMInv, ViewsKept DEF IInv
<1> QED BY <1>1, <1>2, <1>3, <1>4 DEF Next

\* The inductive invariant holds of every behaviour.
LEMMA IInvHolds == Spec => []IInv
  BY InitIInv, NextIInv, PTL DEF Spec

\* Each variable has its type, whatever is uploaded, saved, asked for and read.
THEOREM TypeCorrect == Spec => []TypeOK
<1>1. IInv => TypeOK
  BY DEF IInv, MInv, ShelfTypes, MediaTypes, Views, ViewRow, CrawlTypes, TypeOK
<1> QED BY <1>1, IInvHolds, PTL

\* An image with a row, and so every image a product shows, has all its sizes.
THEOREM WholeImages == Spec => []ImagesWhole
<1>1. IInv => ImagesWhole
  BY DEF IInv, MInv, ShelfTypes, Uploads, ImagesKnown, ImagesWhole
<1> QED BY <1>1, IInvHolds, PTL

\* The caller of an upload is told the truth.
THEOREM TrueUploads == Spec => []UploadTrue
<1>1. IInv => UploadTrue
  BY DEF IInv, MInv, Uploads, ImagesKnown, UploadTrue
<1> QED BY <1>1, IInvHolds, PTL

\* Without a session an image is answered only if an active product showed it at
\* some instant since it was asked for.
THEOREM PrivateImages == Spec => []Private
<1>1. IInv => Private
  BY DEF IInv, Views, ViewHolds, Private
<1> QED BY <1>1, IInvHolds, PTL

\* An image that was named to somebody is not missing, nor asked a session for
\* unless it was withdrawn.
THEOREM UnbrokenImages == Spec => []NothingBroken
<1>1. IInv => NothingBroken
  BY DEF IInv, Views, ViewHolds, NothingBroken
<1> QED BY <1>1, IInvHolds, PTL
----------------------------------------------------------------------------
(* Pages.                                                                  *)

\* n \div d is the one number of whole ds in n.
LEMMA DivBounds ==
    ASSUME NEW n \in Nat, NEW d \in Nat \ {0}
    PROVE  n \div d \in Nat /\ (n \div d) * d <= n /\ n < (n \div d) * d + d
OBVIOUS

\* There is no other.
LEMMA DivUnique ==
    ASSUME NEW n \in Nat, NEW d \in Nat \ {0}, NEW k \in Nat, k * d <= n, n < k * d + d
    PROVE  k = n \div d
<1>1. PICK q \in Nat : q = n \div d /\ q * d <= n /\ n < q * d + d
  BY DivBounds
<1>2. k = q
  BY <1>1
<1> QED BY <1>1, <1>2

\* The page that lists p, of the products ps in pages of limit.
PageOf(p, ps, limit) == Before(p, ps) \div limit + 1

\* There are fewer products before one than there are.
LEMMA BeforeBounds ==
    ASSUME NEW ps \in SUBSET Nat, IsFiniteSet(ps), NEW p \in ps
    PROVE  /\ Before(p, ps) \in Nat /\ Cardinality(ps) \in Nat
           /\ Before(p, ps) < Cardinality(ps)
<1>1. PICK newer : newer = {q \in ps : q > p}
  OBVIOUS
<1>2. CASE ~(p > p)
  <2>1. newer \in SUBSET (ps \ {p})
    BY <1>1, <1>2
  <2>2. IsFiniteSet(ps \ {p}) /\ Cardinality(ps \ {p}) = Cardinality(ps) - 1
    BY FS_RemoveElement
  <2>3. IsFiniteSet(newer) /\ Cardinality(newer) <= Cardinality(ps \ {p})
    BY <2>1, <2>2, FS_Subset
  <2>4. Cardinality(newer) \in Nat /\ Cardinality(ps) \in Nat
    BY <2>3, FS_CardinalityType
  <2>5. Cardinality(newer) < Cardinality(ps)
    BY <2>2, <2>3, <2>4
  <2> QED BY <1>1, <2>4, <2>5 DEF Before
<1> QED BY <1>2

\* A page in range is accepted as it is, and one past MaxPage refused.
LEMMA FilterParsed ==
    ASSUME NEW k \in Nat \ {0}, NEW limit \in 1..Limit
    PROVE  /\ ParseFilter(k, limit) # Absent <=> k <= MaxPage
           /\ k <= MaxPage => ParseFilter(k, limit) = [page |-> k, limit |-> limit]
<1> USE ReadingAssumption, ShelfAssumption
<1>1. Integer(limit, 12, Limit) = limit
  BY DEF Integer
<1>2. Integer(k, 1, MaxPage) = IF k <= MaxPage THEN k ELSE Absent
  BY DEF Integer
<1>3. 0 # Absent /\ k # Absent /\ limit # Absent /\ limit # 0
  OBVIOUS
<1>4. CASE k <= MaxPage
  <2>1. [page |-> k, limit |-> limit] \in [page: 1..MaxPage, limit: 1..Limit]
    BY <1>4
  <2> QED BY <1>1, <1>2, <1>3, <1>4, <2>1 DEF ParseFilter
<1>5. CASE ~(k <= MaxPage)
  BY <1>1, <1>2, <1>3, <1>5 DEF ParseFilter
<1> QED BY <1>4, <1>5

\* A product is on one page, which is one of the pages there are.
LEMMA OnOnePage ==
    ASSUME NEW ps \in SUBSET Nat, IsFiniteSet(ps), NEW p \in ps, NEW limit \in Nat \ {0}
    PROVE  /\ PageOf(p, ps, limit) \in Nat \ {0}
           /\ PageOf(p, ps, limit) <= Pages(Cardinality(ps), limit)
           /\ PageOf(p, ps, limit) <= MaxPage <=> Before(p, ps) < limit * MaxPage
           /\ \A k \in Nat \ {0} :
                 p \in Items([page |-> k, limit |-> limit], ps) <=> k = PageOf(p, ps, limit)
<1>1. PICK b \in Nat, n \in Nat : b = Before(p, ps) /\ n = Cardinality(ps) /\ b < n
  BY BeforeBounds
<1>2. PICK q \in Nat : q = b \div limit /\ q * limit <= b /\ b < q * limit + limit
  BY DivBounds
<1>3. PageOf(p, ps, limit) = q + 1
  BY <1>1, <1>2 DEF PageOf
<1>4. q + 1 <= Pages(n, limit)
  <2>1. PICK m \in Nat : m = n + limit - 1 /\ q * limit + limit <= m
    BY <1>1, <1>2
  <2>2. PICK r \in Nat : r = m \div limit /\ m < r * limit + limit
    BY DivBounds
  <2>3. q * limit + limit < r * limit + limit
    BY <2>1, <2>2
  <2>4. q < r
    BY <2>3
  <2> QED BY <1>1, <2>1, <2>2, <2>4 DEF Pages
<1>5. q + 1 <= MaxPage <=> b < limit * MaxPage
  <2>1. MaxPage \in Nat
    BY ReadingAssumption
  <2>2. ASSUME q + 1 <= MaxPage PROVE b < limit * MaxPage
    <3>1. (q + 1) * limit <= MaxPage * limit
      BY <2>1, <2>2
    <3> QED BY <1>2, <2>1, <3>1
  <2>3. ASSUME b < limit * MaxPage PROVE q < MaxPage
    <3>1. q * limit < MaxPage * limit
      BY <1>2, <2>1, <2>3
    <3> QED BY <2>1, <3>1
  <2> QED BY <2>1, <2>2, <2>3
<1>6. ASSUME NEW k \in Nat \ {0}
      PROVE  p \in Items([page |-> k, limit |-> limit], ps) <=> k = q + 1
  <2>1. PICK j \in Nat : j = k - 1 /\ k = j + 1
    OBVIOUS
  <2>2. p \in Items([page |-> k, limit |-> limit], ps)
           <=> b \in (j * limit)..(j * limit + limit - 1)
    BY <1>1, <2>1 DEF Items
  <2>3. b \in (j * limit)..(j * limit + limit - 1) <=> j * limit <= b /\ b < j * limit + limit
    BY <1>1
  <2>4. j * limit <= b /\ b < j * limit + limit => j = q
    BY <1>2, DivUnique
  <2> QED BY <1>2, <2>1, <2>2, <2>3, <2>4
<1> QED BY <1>1, <1>2, <1>3, <1>4, <1>5, <1>6

\* The public products are finitely many.
LEMMA PublicFinite ==
    /\ Public \in SUBSET Nat /\ Public \subseteq Products /\ IsFiniteSet(Public)
    /\ Cardinality(Public) \in Nat /\ Cardinality(Public) <= Limit * MaxPage
<1>1. Public \in SUBSET Products /\ IsFiniteSet(Products) /\ Products \subseteq Nat
  BY ReadingAssumption, ShelfAssumption DEF Public
<1>2. IsFiniteSet(Public) /\ Cardinality(Public) <= Cardinality(Products)
  BY <1>1, FS_Subset
<1>3. Cardinality(Public) \in Nat /\ Cardinality(Products) \in Nat
  BY <1>1, <1>2, FS_CardinalityType
<1>4. Cardinality(Products) <= Limit * MaxPage /\ Limit * MaxPage \in Nat
  BY ReadingAssumption
<1> QED BY <1>1, <1>2, <1>3, <1>4

\* The sitemap's index never names a page that the filter refuses.
LEMMA PagesBounded ==
    ASSUME NEW n \in Nat, n <= Limit * MaxPage
    PROVE  Pages(n, Limit) \in 1..MaxPage
<1>1. Limit \in Nat \ {0} /\ MaxPage \in Nat \ {0}
  BY ReadingAssumption
<1>2. CASE n = 0
  BY <1>1, <1>2 DEF Pages
<1>3. CASE n # 0
  <2>1. PICK m \in Nat : m = n + Limit - 1 /\ Limit <= m /\ m < Limit * MaxPage + Limit
    BY <1>1, <1>3
  <2>2. PICK r \in Nat : r = m \div Limit /\ r * Limit <= m /\ m < r * Limit + Limit
    BY <1>1, DivBounds
  <2>3. r # 0
    BY <1>1, <2>1, <2>2
  <2>4. r * Limit < (MaxPage + 1) * Limit
    BY <1>1, <2>1, <2>2
  <2>5. r < MaxPage + 1
    BY <1>1, <2>4
  <2> QED BY <1>1, <1>3, <2>1, <2>2, <2>3, <2>5 DEF Pages
<1> QED BY <1>2, <1>3

\* Whatever is public and whatever the limit, the pages partition the list.
THEOREM PagesPartitionList == Spec => []PagesPartition
<1>1. ASSUME NEW limit \in 1..Limit, NEW p \in Public
      PROVE  Cardinality({k \in {k \in 1..Pages(Cardinality(Public), limit) : ParseFilter(k, limit) # Absent} :
                             p \in Items(ParseFilter(k, limit), Public)})
                = IF Before(p, Public) < limit * MaxPage THEN 1 ELSE 0
  <2>1. limit \in Nat \ {0}
    BY ReadingAssumption
  <2>2. PICK K : K = PageOf(p, Public, limit)
    OBVIOUS
  <2>3. /\ K \in Nat \ {0} /\ K <= Pages(Cardinality(Public), limit)
        /\ K <= MaxPage <=> Before(p, Public) < limit * MaxPage
        /\ \A k \in Nat \ {0} : p \in Items([page |-> k, limit |-> limit], Public) <=> k = K
    BY <2>1, <2>2, OnOnePage, PublicFinite
  <2>4. PICK n : n = Pages(Cardinality(Public), limit)
    OBVIOUS
  <2>5. n \in Nat
    <3>1. PICK t \in Nat : t = Cardinality(Public)
      BY PublicFinite
    <3>2. t + limit - 1 \in Nat
      BY <2>1, <3>1
    <3> QED BY <2>1, <2>4, <3>1, <3>2, DivBounds DEF Pages
  <2>6. PICK S : S = {k \in {k \in 1..n : ParseFilter(k, limit) # Absent} :
                        p \in Items(ParseFilter(k, limit), Public)}
    OBVIOUS
  <2>7. \A k \in 1..n : k \in S <=> k <= MaxPage /\ k = K
    BY <2>3, <2>5, <2>6, FilterParsed
  <2>8. K \in 1..n /\ S \subseteq 1..n
    BY <2>3, <2>4, <2>5, <2>6
  <2>9. S = IF K <= MaxPage THEN {K} ELSE {}
    BY <2>7, <2>8
  <2>10. Cardinality(S) = IF K <= MaxPage THEN 1 ELSE 0
    BY <2>9, FS_Singleton, FS_EmptySet
  <2> QED BY <2>3, <2>4, <2>6, <2>10
<1>2. PagesPartition
  BY <1>1 DEF PagesPartition
<1> QED BY <1>2, PTL
----------------------------------------------------------------------------
(* The crawl.                                                              *)

\* Nothing newer than p was published or withdrawn since the index was read.
Undisturbed(p) == \A q \in moved : ~(q > p)

\* Then p is where it was: listed once its page is read, and not before.
CrawlHolds ==
    /\ left = Absent => moved = {} /\ listed = [p \in Products |-> 0]
    /\ left # Absent =>
          /\ left \subseteq 1..MaxPage
          /\ stayed \subseteq Public
          /\ \A p \in stayed : Undisturbed(p) =>
                listed[p] = IF PageOf(p, Public, Limit) \in left THEN 0 ELSE 1

\* Where p is depends on the newer ones only.
LEMMA SamePlace ==
    ASSUME CrawlHolds, NEW p \in Products, left # Absent, NoteMoved, Undisturbed(p)'
    PROVE  Undisturbed(p) /\ Before(p, Public)' = Before(p, Public)
<1>1. moved' = moved \cup (Public \ Public') \cup (Public' \ Public)
  BY DEF NoteMoved
<1>2. Undisturbed(p)
  BY <1>1 DEF Undisturbed
<1>3. \A q \in Public \cup Public' : q > p => (q \in Public <=> q \in Public')
  BY <1>1 DEF Undisturbed
<1>4. PICK old, new : old = Public /\ new = Public'
  OBVIOUS
<1>5. {q \in new : q > p} = {q \in old : q > p}
  BY <1>3, <1>4
<1>6. Before(p, new) = Before(p, old)
  BY <1>5, Zenon DEF Before
<1> QED BY <1>2, <1>4, <1>6 DEF Before

\* Every step keeps CrawlHolds.
LEMMA CrawlStep == ASSUME IInv, CrawlHolds, [Next]_vars PROVE CrawlHolds'
<1>0. Limit \in Nat \ {0} /\ MaxPage \in Nat \ {0}
  BY ReadingAssumption
<1>1. CASE ReadIndex
  <2>1. /\ left = Absent /\ left' = 1..Pages(Cardinality(Public), Limit)
        /\ stayed' = Public /\ Public' = Public /\ moved' = {}
        /\ listed' = [p \in Products |-> 0]
    BY <1>1 DEF ReadIndex, CrawlHolds, Public
  <2>2. PICK n : n = Pages(Cardinality(Public), Limit) /\ n \in 1..MaxPage
    BY PagesBounded, PublicFinite
  <2>3. left' = 1..n /\ left' \in SUBSET (1..MaxPage)
    BY <1>0, <2>1, <2>2
  <2>4. ASSUME NEW p \in Public PROVE listed'[p] = 0 /\ PageOf(p, Public, Limit) \in left'
    BY <1>0, <2>1, <2>2, <2>3, OnOnePage, PublicFinite
  <2>5. PICK ps : ps = Public /\ Public' = ps
    BY <2>1
  <2>6. \A p \in ps : listed'[p] = IF PageOf(p, ps, Limit) \in left' THEN 0 ELSE 1
    BY <2>4, <2>5
  <2>7. \A p \in ps : PageOf(p, Public, Limit)' = PageOf(p, ps, Limit)
    BY <2>5 DEF PageOf
  <2>8. left' # Absent /\ stayed' = ps
    BY <2>1, <2>3, <2>5, ReadingAssumption
  <2> QED BY <2>3, <2>5, <2>6, <2>7, <2>8 DEF CrawlHolds
<1>2. ASSUME NEW page \in 1..Cardinality(Products), ReadPage(page) PROVE CrawlHolds'
  <2>1. /\ left # Absent /\ page \in left /\ left' = left \ {page}
        /\ stayed' = stayed /\ moved' = moved /\ Public' = Public
    BY <1>2 DEF ReadPage, Public
  <2>2. left' \in SUBSET (1..MaxPage) /\ left' # Absent /\ page \in 1..MaxPage
    <3>1. left \in SUBSET (1..MaxPage)
      BY <2>1 DEF CrawlHolds
    <3>2. left' \in SUBSET (1..MaxPage)
      BY <2>1, <3>1
    <3> QED BY <2>1, <3>1, <3>2, ReadingAssumption
  <2>3. PICK ps : ps = Public /\ Public' = ps /\ ps \in SUBSET Nat /\ IsFiniteSet(ps)
    BY <2>1, PublicFinite
  <2>4. ParseFilter(page, Limit) = [page |-> page, limit |-> Limit]
        /\ ParseFilter(page, Limit) # Absent
    <3>1. page \in Nat \ {0} /\ Limit \in 1..Limit /\ page <= MaxPage
      BY <1>0, <2>2
    <3> QED BY <3>1, FilterParsed
  <2>5. ASSUME NEW p \in stayed, Undisturbed(p)
        PROVE  listed'[p] = IF PageOf(p, ps, Limit) \in left' THEN 0 ELSE 1
    <3>1. /\ p \in ps /\ p \in Products
          /\ listed[p] = IF PageOf(p, ps, Limit) \in left THEN 0 ELSE 1
      BY <2>1, <2>3, <2>5, PublicFinite DEF CrawlHolds
    <3>2. /\ PageOf(p, ps, Limit) <= Pages(Cardinality(ps), Limit)
          /\ p \in Items([page |-> page, limit |-> Limit], ps) <=> page = PageOf(p, ps, Limit)
      <4>1. page \in Nat \ {0}
        BY <1>0, <2>2
      <4> QED BY <1>0, <2>3, <3>1, <4>1, OnOnePage
    <3>3. CASE page <= Pages(Cardinality(ps), Limit)
      <4>1. listed' = [q \in Products |-> listed[q] +
                         IF q \in Items([page |-> page, limit |-> Limit], ps) THEN 1 ELSE 0]
        BY <1>2, <2>3, <2>4, <3>3 DEF ReadPage
      <4>2. listed'[p] = listed[p] + IF page = PageOf(p, ps, Limit) THEN 1 ELSE 0
        BY <3>1, <3>2, <4>1
      <4> QED BY <2>1, <3>1, <4>2
    <3>4. CASE ~(page <= Pages(Cardinality(ps), Limit))
      <4>1. listed' = listed
        BY <1>2, <2>3, <3>4 DEF ReadPage
      <4>2. page # PageOf(p, ps, Limit)
        BY <3>2, <3>4
      <4> QED BY <2>1, <3>1, <4>1, <4>2
    <3> QED BY <3>3, <3>4
  <2>6. stayed' \subseteq ps
    BY <2>1, <2>3 DEF CrawlHolds
  <2> QED BY <2>1, <2>2, <2>3, <2>5, <2>6 DEF CrawlHolds, Undisturbed, PageOf, Before
<1>3. ASSUME NEW s \in Products, Save(s) PROVE CrawlHolds'
  <2>1. CASE left = Absent
    BY <1>3, <2>1 DEF Save, NoteMoved, CrawlHolds
  <2>2. CASE left # Absent
    <3>1. left' = left /\ listed' = listed /\ stayed' = stayed \cap Public' /\ NoteMoved
      BY <1>3, <2>2 DEF Save, NoteMoved
    <3>2. ASSUME NEW p \in stayed', Undisturbed(p)'
          PROVE  listed'[p] = IF PageOf(p, Public, Limit)' \in left' THEN 0 ELSE 1
      <4>1. p \in stayed /\ p \in Products
        BY <3>1 DEF IInv, CrawlTypes
      <4>2. Undisturbed(p) /\ Before(p, Public)' = Before(p, Public)
        BY <2>2, <3>1, <3>2, <4>1, SamePlace
      <4>3. PageOf(p, Public, Limit)' = PageOf(p, Public, Limit)
        BY <4>2 DEF PageOf
      <4> QED BY <2>2, <3>1, <4>1, <4>2, <4>3 DEF CrawlHolds
    <3>3. left' \subseteq 1..MaxPage /\ stayed' \subseteq Public' /\ left' # Absent
      BY <2>2, <3>1 DEF CrawlHolds
    <3> QED BY <3>2, <3>3 DEF CrawlHolds
  <2> QED BY <2>1, <2>2
<1>4. CASE UNCHANGED <<products, crawl>>
  <2>1. /\ left' = left /\ listed' = listed /\ stayed' = stayed /\ moved' = moved /\ Public' = Public
    BY <1>4 DEF crawl, Public
  <2> QED BY <2>1 DEF CrawlHolds, Undisturbed, PageOf, Before
<1>5. ASSUME NEW m \in Images, Upload(m) PROVE UNCHANGED <<products, crawl>>
  BY <1>5 DEF Upload, Insert
<1>6. ASSUME NEW v \in Viewers, View(v) PROVE UNCHANGED <<products, crawl>>
  BY <1>6 DEF View
<1>7. UNCHANGED vars => UNCHANGED <<products, crawl>>
  BY DEF vars
<1> QED BY <1>1, <1>2, <1>3, <1>4, <1>5, <1>6, <1>7 DEF Next, Crawl

\* A product public throughout a crawl is listed by exactly one page, unless a
\* newer one was published or withdrawn meanwhile.
THEOREM MissesHaveCause == Spec => []MissedForCause
<1>1. Init => CrawlHolds
  BY DEF Init, CrawlInit, CrawlHolds
<1>2. CrawlHolds => MissedForCause
  <2> SUFFICES ASSUME CrawlHolds, left = {}, NEW p \in stayed, Undisturbed(p)
               PROVE  listed[p] = 1
    BY DEF MissedForCause, Undisturbed
  <2>1. left # Absent
    BY ReadingAssumption
  <2>2. PageOf(p, Public, Limit) \notin left
    OBVIOUS
  <2> QED BY <2>1, <2>2 DEF CrawlHolds
<1> QED BY <1>1, <1>2, CrawlStep, IInvHolds, PTL DEF Spec
=============================================================================
