------------------------------- MODULE Media -------------------------------
(***************************************************************************)
(* modules/media: uploads, each of three objects and a row, and the        *)
(* answers to requests for an image.  The object store and the database    *)
(* fail on their own; nothing of an upload is undone.                      *)
(***************************************************************************)
EXTENDS Shelf, FiniteSets

CONSTANTS
    Sizes,      \* 320, 640 and 1280 pixels
    Viewers     \* requests for an image

ASSUME MediaAssumption == Sizes \subseteq Nat /\ IsFiniteSet(Sizes)

VARIABLES
    objects,    \* the sizes of each image the object store has
    upload,     \* the step of the upload that drew an image
    told,       \* what its caller was told
    log,        \* audit entries 'media.created'
    view        \* each request for an image, with what was true meanwhile

mediaVars == <<objects, upload, told, log, view>>

NoView == [at |-> "idle", image |-> Absent, size |-> Absent, signed |-> FALSE,
           reply |-> "none", known |-> FALSE, shown |-> FALSE, gone |-> FALSE]

MediaInit ==
    /\ objects = [m \in Images |-> {}]
    /\ upload = [m \in Images |-> "idle"]
    /\ told = [m \in Images |-> "none"]
    /\ log = [m \in Images |-> 0]
    /\ view = [v \in Viewers |-> NoView]
----------------------------------------------------------------------------
(* Service::upload                                                         *)

To(m, step) == upload' = [upload EXCEPT ![m] = step]
Ends(m, what) == To(m, "done") /\ told' = [told EXCEPT ![m] = what]

\* 413, 415 and 422: too large, no known format, or not decoded.
Receive(m) ==
    /\ upload[m] = "idle"
    /\ \/ To(m, "put") /\ UNCHANGED told
       \/ Ends(m, "INVALID_IMAGE")
    /\ UNCHANGED <<objects, log, view>>

\* The sizes the loop has not come to yet, and the one it is at.
Missing(m) == {s \in Sizes : \A stored \in objects[m] : stored < s}
AtSize(m, s) == s \in Missing(m) /\ \A other \in Missing(m) : s <= other

PutTooFew(m) ==
    /\ upload[m] = "put"
    /\ \E s \in Sizes :
         /\ AtSize(m, s)
         /\ objects' = [objects EXCEPT ![m] = @ \cup {s}]
         /\ To(m, IF Cardinality(Missing(m)) <= 2 THEN "row" ELSE "put")
    /\ UNCHANGED <<told, log, view>>

\* One turn of the loop; after the last, the row.
Put(m) ==
    /\ upload[m] = "put"
    /\ \E s \in Sizes :
         /\ AtSize(m, s)
         /\ objects' = [objects EXCEPT ![m] = @ \cup {s}]
         /\ To(m, IF Missing(m) = {s} THEN "row" ELSE "put")
    /\ UNCHANGED <<told, log, view>>

PutFailsUnseen(m) ==
    /\ upload[m] = "put"
    /\ \/ To(m, "row") /\ UNCHANGED told
       \/ Ends(m, "INVALID_IMAGE")
    /\ UNCHANGED <<objects, log, view>>

\* A size cannot be resized or encoded, or the store does not answer in time;
\* it may have the object all the same.  No one ever learns of the image.
PutFails(m) ==
    /\ upload[m] = "put"
    /\ \/ Ends(m, "INVALID_IMAGE") /\ UNCHANGED objects
       \/ Ends(m, "STORAGE_UNAVAILABLE") /\ UNCHANGED objects
       \/ /\ Ends(m, "STORAGE_UNAVAILABLE")
          /\ \E s \in Sizes : AtSize(m, s) /\ objects' = [objects EXCEPT ![m] = @ \cup {s}]
    /\ UNCHANGED <<log, view>>

\* One statement writes the row and its audit entry.
Insert(m) ==
    /\ upload[m] = "row"
    /\ media' = media \cup {m}
    /\ log' = [log EXCEPT ![m] = @ + 1]
    /\ Ends(m, IF told[m] = "none" THEN "CREATED" ELSE told[m])
    /\ UNCHANGED <<objects, view>>

\* The API waits no longer for that statement, which goes on or is lost.
GiveUp(m) ==
    /\ upload[m] = "row" /\ told[m] = "none"
    /\ told' = [told EXCEPT ![m] = "DATABASE_UNAVAILABLE"]
    /\ UNCHANGED <<objects, upload, log, view>>

Lose(m) ==
    /\ upload[m] = "row" /\ told[m] # "none"
    /\ To(m, "done")
    /\ UNCHANGED <<objects, told, log, view>>
----------------------------------------------------------------------------
(* GET /api/v1/media/{id}/{size}.webp                                      *)

\* An upload was answered, or a public document shows the image.
Known(m) == told[m] = "CREATED" \/ m \in Shown

\* With a session that may write media, or without one.
Ask(v, m, s, signed) ==
    /\ view[v].at = "idle"
    /\ view' = [view EXCEPT ![v] = [NoView EXCEPT !.at = "published", !.image = m,
          !.size = s, !.signed = signed, !.known = Known(m), !.shown = m \in Shown, !.gone = m \notin Shown]]
    /\ UNCHANGED <<objects, upload, told, log>>

Move(v, step) == view' = [view EXCEPT ![v].at = step]
Answer(v, what) == view' = [view EXCEPT ![v].at = "done", ![v].reply = what]

AskReferenced(v) ==
    /\ view[v].at = "published"
    /\ Move(v, IF \E p \in Products : products[p] # Absent /\ view[v].image \in products[p].images
                 THEN "get" ELSE "require")
    /\ UNCHANGED <<objects, upload, told, log>>

\* Service::published, at one instant ...
AskPublished(v) ==
    /\ view[v].at = "published"
    /\ Move(v, IF view[v].image \in Shown THEN "get" ELSE "require")
    /\ UNCHANGED <<objects, upload, told, log>>

\* ... then only a session will do ...
Require(v) ==
    /\ view[v].at = "require"
    /\ IF view[v].signed THEN Move(v, "get") ELSE Answer(v, "AUTH_REQUIRED")
    /\ UNCHANGED <<objects, upload, told, log>>

\* ... and the object is fetched at a later one.
Get(v) ==
    /\ view[v].at = "get"
    /\ \/ Answer(v, IF view[v].size \in objects[view[v].image] THEN "OK" ELSE "NOT_FOUND")
       \/ Answer(v, "STORAGE_UNAVAILABLE")
    /\ UNCHANGED <<objects, upload, told, log>>

\* A save is noted for the requests under way.
NotePublished ==
    view' = [v \in Viewers |->
        IF view[v].at \in {"idle", "done"} THEN view[v]
        ELSE [view[v] EXCEPT !.shown = @ \/ view[v].image \in Shown',
                             !.gone = @ \/ view[v].image \notin Shown']]
=============================================================================
