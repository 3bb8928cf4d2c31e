------------------------------- MODULE SignIn -------------------------------
(***************************************************************************)
(* modules/auth: sign-in with its throttle, sessions, and the check that   *)
(* every administrative handler starts with (Service::require), each       *)
(* statement a step of its own.  A statement reads now() when it begins;   *)
(* the upsert of the throttle may then wait for another one on its row.    *)
(* The API waits for an answer Timeout long; the statement may still run.  *)
(***************************************************************************)
EXTENDS Naturals, FiniteSets

CONSTANTS
    Calls,          \* requests; a sign-in draws its own name as token
    Typed,          \* emails as they are typed
    Emails,         \* emails in lower case: users.email
    Lower,          \* std::tolower of what was typed
    Addresses,      \* X-Real-IP
    Roster,         \* the users at the start
    Staff,          \* the emails bee-admin-create is called with
    SignIns,        \* the sign-ins callers try
    EmailLimit, AddressLimit,   \* 10 and 50 attempts
    Window,         \* of the throttle: 15 minutes
    Lifetime,       \* of a session: 30 minutes
    Timeout,        \* of a statement: 2 seconds
    MaxTime,        \* a bound on the clock
    Absent

ASSUME SignInAssumption ==
    /\ Lower \in [Typed -> Emails]
    /\ Emails \cap Addresses = {}
    /\ Roster \in [Emails -> {"none", "active", "inactive"}]
    /\ SignIns \subseteq [kind: {"login"}, typed: Typed, address: Addresses, right: BOOLEAN]
    /\ Absent \notin Calls \cup Typed \cup Emails \cup Addresses \cup Nat
    /\ EmailLimit \in Nat \ {0} /\ AddressLimit \in Nat \ {0}
    /\ Window \in Nat \ {0} /\ Lifetime \in Nat \ {0}
    /\ Timeout \in Nat /\ MaxTime \in Nat
    /\ Timeout < Window

VARIABLES
    now,
    users,      \* for each email: "none", "active" or "inactive"
    throttle,   \* auth_throttles: attempts and end of the window of a key
    sessions,   \* user and expiry of each token
    pc,         \* the statement a call is at
    req, reply,
    began,      \* when the upsert of a call read now(), or Absent
    counted,    \* what the throttle answered, and when
    late        \* the session of the call was over when the call arrived

tables == <<users, throttle, sessions>>
vars == <<now, tables, pc, req, reply, began, counted, late>>

Keys == Emails \cup Addresses
Time == 0..MaxTime

Uses == [kind: {"use", "logout"}, token: Calls]

ASSUME AbsentAssumption == Absent \notin SignIns \cup Uses

Replies == {"none", "waiting", "OK", "INVALID_CREDENTIALS", "RATE_LIMITED",
            "AUTH_REQUIRED", "REJECTED", "DATABASE_UNAVAILABLE"}

Init ==
    /\ now = 0
    /\ users = Roster
    /\ throttle = [k \in Keys |-> [attempts |-> 0, resets |-> 0]]
    /\ sessions = [t \in Calls |-> Absent]
    /\ pc = [c \in Calls |-> "idle"]
    /\ req = [c \in Calls |-> Absent]
    /\ reply = [c \in Calls |-> "none"]
    /\ began = [c \in Calls |-> Absent]
    /\ counted = {}
    /\ late = [c \in Calls |-> FALSE]
----------------------------------------------------------------------------
(* Answers.  A call whose caller was told already goes no further.         *)

Waits(c) == reply[c] = "waiting"
Tell(c, what) == reply' = [reply EXCEPT ![c] = IF Waits(c) THEN what ELSE @]
Goto(c, label) == pc' = [pc EXCEPT ![c] = label]
GoOn(c, label) == Goto(c, IF Waits(c) THEN label ELSE "done")
Ends(c, what) == Goto(c, "done") /\ Tell(c, what)

Email(c) == Lower[req[c].typed]

ValidAnyTime(t) == sessions[t] # Absent /\ users[sessions[t].user] = "active"

\* principal() finds the user of token t.
Valid(t) == ValidAnyTime(t) /\ now < sessions[t].expires

\* The session of t was revoked, has expired, or its user was deactivated.
Over(t) ==
    \/ sessions[t] = Absent
    \/ sessions[t].expires <= now
    \/ users[sessions[t].user] = "inactive"
----------------------------------------------------------------------------
(* Requests.                                                               *)

FirstLabel(r) == CASE r.kind = "login"  -> "email"
                   [] r.kind = "logout" -> "revoke"
                   [] OTHER             -> "require"

\* A token is known to the caller that was told of it.
Known(t) == req[t] # Absent /\ req[t].kind = "login" /\ reply[t] = "OK"

Arrive(c) ==
    /\ pc[c] = "idle"
    /\ \E r \in SignIns \cup {u \in Uses : Known(u.token)} :
         /\ req' = [req EXCEPT ![c] = r]
         /\ Goto(c, FirstLabel(r))
         /\ late' = [late EXCEPT ![c] = r.kind # "login" /\ Over(r.token)]
         /\ began' = [began EXCEPT ![c] = IF r.kind = "login" THEN now ELSE Absent]
    /\ reply' = [reply EXCEPT ![c] = "waiting"]
    /\ UNCHANGED <<now, tables, counted>>

\* Another origin, an empty or overlong field, no cookie: no statement is sent.
TurnAway(c) ==
    /\ pc[c] = "idle"
    /\ reply' = [reply EXCEPT ![c] = "REJECTED"]
    /\ Goto(c, "done")
    /\ UNCHANGED <<now, tables, req, began, counted, late>>

\* The API waits no longer.  An upsert or a DELETE may still run.
GiveUp(c) ==
    /\ pc[c] \notin {"idle", "done"} /\ Waits(c)
    /\ Tell(c, "DATABASE_UNAVAILABLE")
    /\ IF began[c] # Absent \/ pc[c] = "revoke" THEN UNCHANGED pc ELSE Goto(c, "done")
    /\ UNCHANGED <<now, tables, req, began, counted, late>>

\* It never does: the connection is lost.
Drop(c) ==
    /\ pc[c] # "done" /\ reply[c] = "DATABASE_UNAVAILABLE"
    /\ Goto(c, "done")
    /\ began' = [began EXCEPT ![c] = Absent]
    /\ UNCHANGED <<now, tables, req, reply, counted, late>>
----------------------------------------------------------------------------
(* Service::login                                                          *)

KeyOfAddress(c) == req[c].address

\* "email:" + email, then "address:" + address.
Key(c) == IF pc[c] = "email" THEN Email(c) ELSE req[c].address
Limit(k) == IF k \in Emails THEN EmailLimit ELSE AddressLimit

CountedForGood(t, at) ==
    [attempts |-> t.attempts + 1, resets |-> IF t.resets = 0 THEN at + Window ELSE t.resets]

\* ON CONFLICT(key_hash) DO UPDATE, by a statement that read now() = at.
Counted(t, at) ==
    IF t.resets <= at
      THEN [attempts |-> 1, resets |-> at + Window]
      ELSE [t EXCEPT !.attempts = @ + 1]

CountAndGoOn(c) ==
    LET k == Key(c)  new == Counted(throttle[k], began[c]) IN
    /\ began[c] # Absent
    /\ throttle' = [throttle EXCEPT ![k] = new]
    /\ counted' = counted \cup {[call |-> c, by |-> pc[c], from |-> began[c], at |-> now,
                                  ok |-> new.attempts <= Limit(k)]}
    /\ GoOn(c, IF pc[c] = "email" THEN "address" ELSE "credentials")
    /\ IF new.attempts <= Limit(k) THEN UNCHANGED reply ELSE Tell(c, "RATE_LIMITED")
    /\ began' = [began EXCEPT ![c] = IF pc'[c] = "address" THEN now ELSE Absent]
    /\ UNCHANGED <<now, users, sessions, req, late>>

\* consumeAttempt has the row, and commits.
CountAttempt(c) ==
    LET k == Key(c)  new == Counted(throttle[k], began[c]) IN
    /\ began[c] # Absent
    /\ throttle' = [throttle EXCEPT ![k] = new]
    /\ counted' = counted \cup {[call |-> c, by |-> pc[c], from |-> began[c], at |-> now,
                                  ok |-> Waits(c) /\ new.attempts <= Limit(k)]}
    /\ IF new.attempts <= Limit(k)
         THEN GoOn(c, IF pc[c] = "email" THEN "address" ELSE "credentials") /\ UNCHANGED reply
         ELSE Ends(c, "RATE_LIMITED")
    /\ began' = [began EXCEPT ![c] = IF pc'[c] = "address" THEN now ELSE Absent]
    /\ UNCHANGED <<now, users, sessions, req, late>>

\* credentials(), and the password against the hash or the dummy hash.
Verify(c) ==
    /\ pc[c] = "credentials"
    /\ IF req[c].right /\ users[Email(c)] = "active"
         THEN Goto(c, "create") /\ UNCHANGED reply
         ELSE Ends(c, "INVALID_CREDENTIALS")
    /\ UNCHANGED <<now, tables, req, began, counted, late>>

\* The token is drawn, and its hash stored; the answer may be lost.
CreateSession(c) ==
    /\ pc[c] = "create"
    /\ sessions' = [sessions EXCEPT ![c] = [user |-> Email(c), expires |-> now + Lifetime]]
    /\ Ends(c, "OK") \/ Ends(c, "DATABASE_UNAVAILABLE")
    /\ UNCHANGED <<now, users, throttle, req, began, counted, late>>
----------------------------------------------------------------------------
(* Service::require, with which every administrative handler begins, and   *)
(* Service::logout                                                         *)

\* "OK": the handler goes on, whatever becomes of the session from then on.
Require(c) ==
    /\ pc[c] = "require"
    /\ Ends(c, IF Valid(req[c].token) THEN "OK" ELSE "AUTH_REQUIRED")
    /\ UNCHANGED <<now, tables, req, began, counted, late>>

Revoke(c) ==
    /\ pc[c] = "revoke"
    /\ sessions' = [sessions EXCEPT ![req[c].token] = Absent]
    /\ Ends(c, "OK")
    /\ UNCHANGED <<now, users, throttle, req, began, counted, late>>
----------------------------------------------------------------------------
(* Around the API.                                                         *)

\* bee-admin-create; a second user of one email is refused by the unique key.
CreateAdmin(e) ==
    /\ users[e] = "none" /\ e \in Staff
    /\ users' = [users EXCEPT ![e] = "active"]
    /\ UNCHANGED <<now, throttle, sessions, pc, req, reply, began, counted, late>>

\* An operator sets users.active to false.
Deactivate(e) ==
    /\ users[e] = "active"
    /\ users' = [users EXCEPT ![e] = "inactive"]
    /\ UNCHANGED <<now, throttle, sessions, pc, req, reply, began, counted, late>>

\* Time passes; nobody waits longer than Timeout.
Tick ==
    /\ now < MaxTime
    /\ \A c \in Calls : began[c] # Absent /\ Waits(c) => now < began[c] + Timeout
    /\ now' = now + 1
    /\ UNCHANGED <<tables, pc, req, reply, began, counted, late>>

Next ==
    \/ \E c \in Calls :
         \/ Arrive(c) \/ TurnAway(c) \/ GiveUp(c) \/ Drop(c)
         \/ CountAttempt(c) \/ Verify(c) \/ CreateSession(c)
         \/ Require(c) \/ Revoke(c)
    \/ \E e \in Emails : CreateAdmin(e) \/ Deactivate(e)
    \/ Tick

Spec == Init /\ [][Next]_vars
----------------------------------------------------------------------------
(* Properties.                                                             *)

TypeOK ==
    /\ now \in Time
    /\ users \in [Emails -> {"none", "active", "inactive"}]
    /\ throttle \in [Keys -> [attempts: Nat, resets: Nat]]
    /\ sessions \in [Calls -> [user: Emails, expires: Nat] \cup {Absent}]
    /\ pc \in [Calls -> {"idle", "email", "address", "credentials", "create",
                         "require", "revoke", "done"}]
    /\ req \in [Calls -> SignIns \cup Uses \cup {Absent}]
    /\ reply \in [Calls -> Replies]
    /\ began \in [Calls -> Time \cup {Absent}]
    /\ counted \subseteq [call: Calls, by: {"email", "address"},
                   from: Time, at: Time, ok: BOOLEAN]
    /\ late \in [Calls -> BOOLEAN]
    /\ \A c \in Calls : began[c] # Absent => pc[c] \in {"email", "address"}

\* What the throttle said to attempts for email or address k.
Attempts(k) ==
    {x \in counted : k = IF x.by = "email" THEN Email(x.call) ELSE req[x.call].address}

\* "Login is limited by hashed email and client address" (catalog.md).  The
\* windows are fixed, so two of them can meet.  Still, in less than a window less
\* the time a statement may wait, fewer than two windows' attempts get through,
\* however the email is spelled and wherever they come from.
Limited ==
    \A k \in Keys, t \in Time :
        Cardinality({x \in Attempts(k) : x.ok /\ x.at \in t..(t + Window - Timeout - 1)})
            < 2 * Limit(k)

\* Nobody is told 429 without more attempts than the limit within the window
\* before: attempts that are refused put nothing off.
RefusedForCause ==
    \A k \in Keys : \A x \in Attempts(k) :
        (~x.ok /\ reply[x.call] = "RATE_LIMITED") =>
            Cardinality({y \in Attempts(k) : y.at <= x.at /\ x.from < y.at + Window})
                > Limit(k)

\* "Opaque sessions expire after 30 minutes" (catalog.md): a request that arrives
\* when its session is revoked, has expired, or its user is deactivated is never
\* let through, whatever else is under way.
EndedStaysEnded ==
    \A c \in Calls : late[c] /\ reply[c] = "OK" => req[c].kind = "logout"

\* A refused sign-in leaves no session, one that was answered had the password,
\* and after an answered logout the session never comes back.
AnswersTrue ==
    \A c \in Calls : req[c] # Absent =>
        /\ reply[c] \in {"RATE_LIMITED", "INVALID_CREDENTIALS"} => sessions[c] = Absent
        /\ sessions[c] # Absent => req[c].kind = "login" /\ req[c].right
        /\ (reply[c] = "OK" /\ req[c].kind = "logout") => sessions[req[c].token] = Absent
=============================================================================
