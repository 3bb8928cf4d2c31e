---------------------------- MODULE SignIn_proofs ----------------------------
(***************************************************************************)
(* Proofs about SignIn, for every number of calls, users and addresses,    *)
(* all limits and all times: sessions that are over let nothing through,   *)
(* answers are true, and the throttle lets through fewer than two limits.  *)
(***************************************************************************)
EXTENDS SignIn, TLAPS, FiniteSetTheorems

SignInLabels == {"email", "address", "credentials", "create"}

\* Which statements a call sends, and what it has been told by then.
Stages ==
    \A c \in Calls :
        /\ req[c] = Absent => pc[c] \in {"idle", "done"} /\ reply[c] # "OK"
        /\ pc[c] = "idle" => req[c] = Absent
        /\ pc[c] \in SignInLabels => req[c].kind = "login"
        /\ pc[c] = "require" => req[c].kind = "use"
        /\ pc[c] = "revoke" => req[c].kind = "logout"
        /\ pc[c] \in {"credentials", "create", "require"} => Waits(c)
        /\ pc[c] = "create" => req[c].right
        /\ reply[c] \in {"OK", "RATE_LIMITED", "INVALID_CREDENTIALS"} => pc[c] = "done"

\* Only a sign-in that is over has a session.
Created ==
    \A c \in Calls : sessions[c] # Absent =>
        /\ req[c] # Absent /\ req[c].kind = "login" /\ req[c].right
        /\ pc[c] = "done" /\ reply[c] \in {"OK", "DATABASE_UNAVAILABLE"}

\* So the session of a token in use is not created again; what is over is over.
Ended ==
    \A c \in Calls :
        /\ (req[c] # Absent /\ req[c].kind # "login") => pc[req[c].token] = "done"
        /\ late[c] => /\ req[c] # Absent /\ req[c].kind # "login"
                      /\ Over(req[c].token)
                      /\ reply[c] = "OK" => req[c].kind = "logout"
        /\ (req[c] # Absent /\ req[c].kind = "logout" /\ reply[c] = "OK")
              => sessions[req[c].token] = Absent

IInv == TypeOK /\ Stages /\ Created /\ Ended
----------------------------------------------------------------------------
\* Absent is no request and no time.
LEMMA AbsentApart ==
  ASSUME NEW r \in SignIns \cup Uses
  PROVE  r.kind \in {"login", "use", "logout"}
         /\ (r.kind = "login" => r \in SignIns /\ r.typed \in Typed /\ r.address \in Addresses
                                 /\ r.right \in BOOLEAN /\ Lower[r.typed] \in Emails)
         /\ (r.kind # "login" => r \in Uses /\ r.token \in Calls)
  BY SignInAssumption DEF Uses

\* A call that ends, or goes on, is still at a statement, and told an answer.
Labels == {"idle", "email", "address", "credentials", "create", "require", "revoke", "done"}

LEMMA EndsTyped ==
  ASSUME TypeOK, NEW c \in Calls, NEW what \in Replies, NEW label \in Labels,
         \/ Ends(c, what)
         \/ Goto(c, label) /\ UNCHANGED reply
  PROVE  /\ pc' \in [Calls -> Labels] /\ reply' \in [Calls -> Replies]
         /\ \A d \in Calls \ {c} : pc'[d] = pc[d]
  BY DEF TypeOK, Labels, Ends, Goto, Tell, Waits

\* The initial states satisfy the inductive invariant.
LEMMA InitIInv == Init => IInv
  BY SignInAssumption DEF Init, IInv, TypeOK, Stages, Created, Ended, SignInLabels,
     Time, Replies, Waits, Keys

\* Every step keeps the types.
LEMMA TypeNext == IInv /\ Next => TypeOK'
<1> SUFFICES ASSUME IInv, Next PROVE TypeOK'
    OBVIOUS
<1> USE SignInAssumption
<1>1. ASSUME NEW c \in Calls, Arrive(c) PROVE TypeOK'
  BY <1>1, AbsentApart DEF IInv, TypeOK, Arrive, FirstLabel, Goto, Time, Replies, tables, Uses
<1>2. ASSUME NEW c \in Calls, TurnAway(c) PROVE TypeOK'
  BY <1>2 DEF IInv, TypeOK, TurnAway, Goto, Time, Replies, tables
<1>3. ASSUME NEW c \in Calls, GiveUp(c) PROVE TypeOK'
  BY <1>3 DEF IInv, TypeOK, GiveUp, Goto, Tell, Waits, Time, Replies, tables
<1>4. ASSUME NEW c \in Calls, Drop(c) PROVE TypeOK'
  BY <1>4 DEF IInv, TypeOK, Drop, Goto, Time, Replies, tables
<1>5. ASSUME NEW c \in Calls, CountAttempt(c) PROVE TypeOK'
  <2>1. PICK k, new : k = Key(c) /\ new = Counted(throttle[k], began[c])
    OBVIOUS
  <2>2. pc[c] \in {"email", "address"} /\ began[c] \in Time
    BY <1>5 DEF IInv, TypeOK, CountAttempt
  <2>3. k \in Keys
    <3>1. req[c] \in SignIns \cup Uses /\ req[c].kind = "login"
      BY <2>2 DEF IInv, TypeOK, Stages, SignInLabels
    <3> QED BY <2>1, <2>2, <3>1, AbsentApart DEF Key, Email, Keys
  <2>4. new \in [attempts: Nat, resets: Nat]
    <3>1. throttle[k] \in [attempts: Nat, resets: Nat]
      BY <2>3 DEF IInv, TypeOK
    <3>2. CASE throttle[k].resets <= began[c]
      BY <2>1, <2>2, <3>1, <3>2 DEF Counted, Time
    <3>3. CASE ~(throttle[k].resets <= began[c])
      BY <2>1, <2>2, <3>1, <3>3 DEF Counted, Time
    <3> QED BY <3>2, <3>3
  <2>5. throttle' = [throttle EXCEPT ![k] = new]
    BY <1>5, <2>1 DEF CountAttempt
  <2>6. throttle' \in [Keys -> [attempts: Nat, resets: Nat]]
    BY <2>3, <2>4, <2>5 DEF IInv, TypeOK
  <2>7. counted' \subseteq [call: Calls, by: {"email", "address"},
                            from: Time, at: Time, ok: BOOLEAN]
    <3> DEFINE ok == Waits(c) /\ new.attempts <= Limit(k)
    <3>1. counted' = counted \cup {[call |-> c, by |-> pc[c], from |-> began[c],
                                    at |-> now, ok |-> ok]}
      BY <1>5, <2>1 DEF CountAttempt
    <3>2. ok \in BOOLEAN
      OBVIOUS
    <3>3. PICK b \in BOOLEAN : b = ok
      BY <3>2
    <3> HIDE DEF ok
    <3> QED BY <2>2, <3>1, <3>3 DEF IInv, TypeOK
  <2>8. pc' \in [Calls -> {"idle", "email", "address", "credentials", "create",
                           "require", "revoke", "done"}] /\ reply' \in [Calls -> Replies]
    BY <1>5, <2>2 DEF IInv, TypeOK, CountAttempt, GoOn, Ends, Goto, Tell, Waits, Replies
  <2>9. began' \in [Calls -> Time \cup {Absent}]
    BY <1>5, <2>2 DEF IInv, TypeOK, CountAttempt
  <2>10. pc' = [pc EXCEPT ![c] = pc'[c]] /\ began' = [began EXCEPT ![c] = began'[c]]
         /\ (began'[c] # Absent => pc'[c] = "address")
    BY <1>5, <2>2 DEF IInv, TypeOK, CountAttempt, GoOn, Ends, Goto
  <2> QED BY <1>5, <2>6, <2>7, <2>8, <2>9, <2>10 DEF IInv, TypeOK, CountAttempt
<1>6. ASSUME NEW c \in Calls, Verify(c) PROVE TypeOK'
  <2>1. /\ pc[c] = "credentials"
        /\ \/ Ends(c, "INVALID_CREDENTIALS")
           \/ Goto(c, "create") /\ UNCHANGED reply
    BY <1>6, Zenon DEF Verify
  <2>2. pc' \in [Calls -> Labels] /\ reply' \in [Calls -> Replies]
        /\ \A d \in Calls \ {c} : pc'[d] = pc[d]
    BY <2>1, EndsTyped DEF IInv, Labels, Replies
  <2>3. began[c] = Absent
    BY <2>1 DEF IInv, TypeOK
  <2> QED BY <1>6, <2>2, <2>3 DEF IInv, TypeOK, Verify, tables, Labels
<1>7. ASSUME NEW c \in Calls, CreateSession(c) PROVE TypeOK'
  <2>1. Email(c) \in Emails
    BY <1>7, AbsentApart DEF IInv, TypeOK, Stages, SignInLabels, CreateSession, Email
  <2>2. sessions' \in [Calls -> [user: Emails, expires: Nat] \cup {Absent}]
    <3>1. now \in Nat /\ now + Lifetime \in Nat
      <4>1. now \in Nat
        BY DEF IInv, TypeOK, Time
      <4> QED BY <4>1
    <3>2. sessions' = [sessions EXCEPT ![c] = [user |-> Email(c), expires |-> now + Lifetime]]
      BY <1>7 DEF CreateSession
    <3> QED BY <2>1, <3>1, <3>2 DEF IInv, TypeOK
  <2>3. pc[c] = "create" /\ (Ends(c, "OK") \/ Ends(c, "DATABASE_UNAVAILABLE"))
    BY <1>7 DEF CreateSession
  <2>4. pc' \in [Calls -> Labels] /\ reply' \in [Calls -> Replies]
        /\ \A d \in Calls \ {c} : pc'[d] = pc[d]
    BY <2>3, EndsTyped DEF IInv, Labels, Replies
  <2>5. began[c] = Absent
    BY <2>3 DEF IInv, TypeOK
  <2> QED BY <1>7, <2>2, <2>4, <2>5 DEF IInv, TypeOK, CreateSession, Labels
<1>8. ASSUME NEW c \in Calls, Require(c) PROVE TypeOK'
  <2>1. pc[c] = "require" /\ (Ends(c, "OK") \/ Ends(c, "AUTH_REQUIRED"))
    BY <1>8 DEF Require
  <2>2. pc' \in [Calls -> Labels] /\ reply' \in [Calls -> Replies]
        /\ \A d \in Calls \ {c} : pc'[d] = pc[d]
    BY <2>1, EndsTyped DEF IInv, Labels, Replies
  <2>3. began[c] = Absent
    BY <2>1 DEF IInv, TypeOK
  <2> QED BY <1>8, <2>2, <2>3 DEF IInv, TypeOK, Require, tables, Labels
<1>9. ASSUME NEW c \in Calls, Revoke(c) PROVE TypeOK'
  <2>1. pc[c] = "revoke" /\ Ends(c, "OK")
    BY <1>9 DEF Revoke
  <2>2. sessions' \in [Calls -> [user: Emails, expires: Nat] \cup {Absent}]
    BY <1>9 DEF IInv, TypeOK, Revoke
  <2>3. pc' \in [Calls -> Labels] /\ reply' \in [Calls -> Replies]
        /\ \A d \in Calls \ {c} : pc'[d] = pc[d]
    BY <2>1, EndsTyped DEF IInv, Labels, Replies
  <2>4. began[c] = Absent
    BY <2>1 DEF IInv, TypeOK
  <2> QED BY <1>9, <2>2, <2>3, <2>4 DEF IInv, TypeOK, Revoke, Labels
<1>10. ASSUME NEW e \in Emails, CreateAdmin(e) \/ Deactivate(e) PROVE TypeOK'
  BY <1>10 DEF IInv, TypeOK, CreateAdmin, Deactivate, Time, Replies
<1>11. ASSUME Tick PROVE TypeOK'
  BY <1>11 DEF IInv, TypeOK, Tick, Time, Replies, tables
<1> QED BY <1>1, <1>2, <1>3, <1>4, <1>5, <1>6, <1>7, <1>8, <1>9, <1>10, <1>11 DEF Next

\* Every step keeps a call to the statements of its kind.
LEMMA StagesNext == IInv /\ Next => Stages'
<1> SUFFICES ASSUME IInv, Next PROVE Stages'
    OBVIOUS
<1> USE SignInAssumption
<1>1. ASSUME NEW c \in Calls, Arrive(c) PROVE Stages'
  <2>1. PICK r \in SignIns \cup Uses :
          /\ req' = [req EXCEPT ![c] = r] /\ pc' = [pc EXCEPT ![c] = FirstLabel(r)]
          /\ reply' = [reply EXCEPT ![c] = "waiting"]
    BY <1>1 DEF Arrive, Goto
  <2>2. /\ r # Absent
        /\ \/ r.kind = "login" /\ FirstLabel(r) = "email"
           \/ r.kind = "logout" /\ FirstLabel(r) = "revoke"
           \/ r.kind = "use" /\ FirstLabel(r) = "require"
    BY AbsentAssumption, AbsentApart DEF FirstLabel
  <2>3. req'[c] = r /\ pc'[c] = FirstLabel(r) /\ reply'[c] = "waiting"
    BY <2>1 DEF IInv, TypeOK
  <2>4. ASSUME NEW d \in Calls, d # c
        PROVE  req'[d] = req[d] /\ pc'[d] = pc[d] /\ reply'[d] = reply[d]
    BY <2>1, <2>4 DEF IInv, TypeOK
  <2> QED BY <2>2, <2>3, <2>4 DEF IInv, Stages, Waits, SignInLabels
<1>2. ASSUME NEW c \in Calls, TurnAway(c) PROVE Stages'
  BY <1>2 DEF IInv, TypeOK, Stages, Created, Ended, Waits, SignInLabels, TurnAway, Goto, tables
<1>3. ASSUME NEW c \in Calls, GiveUp(c) PROVE Stages'
  BY <1>3 DEF IInv, TypeOK, Stages, Created, Ended, Waits, SignInLabels, GiveUp, Goto, Tell, tables
<1>4. ASSUME NEW c \in Calls, Drop(c) PROVE Stages'
  BY <1>4 DEF IInv, TypeOK, Stages, Created, Ended, Waits, SignInLabels, Drop, Goto, tables
<1>5. ASSUME NEW c \in Calls, CountAttempt(c) PROVE Stages'
  BY <1>5 DEF IInv, TypeOK, Stages, Created, Ended, Waits, SignInLabels, CountAttempt, GoOn, Ends, Goto, Tell, tables
<1>6. ASSUME NEW c \in Calls, Verify(c) PROVE Stages'
  BY <1>6 DEF IInv, TypeOK, Stages, Created, Ended, Waits, SignInLabels, Verify, Ends, Goto, Tell, tables
<1>7. ASSUME NEW c \in Calls, CreateSession(c) PROVE Stages'
  BY <1>7, AbsentApart DEF IInv, TypeOK, Stages, Created, Ended, Waits, SignInLabels, CreateSession, Ends, Goto, Tell, tables
<1>8. ASSUME NEW c \in Calls, Require(c) PROVE Stages'
  <2>1. /\ pc[c] = "require" /\ req' = req
        /\ \E what \in {"OK", "AUTH_REQUIRED"} : Ends(c, what)
    BY <1>8 DEF Require
  <2>2. pc' = [pc EXCEPT ![c] = "done"] /\ \A d \in Calls \ {c} : reply'[d] = reply[d]
    BY <2>1 DEF IInv, TypeOK, Ends, Goto, Tell
  <2>3. req[c] # Absent
    BY <2>1 DEF IInv, TypeOK, Stages
  <2> QED BY <2>1, <2>2, <2>3 DEF IInv, TypeOK, Stages, Waits, SignInLabels
<1>9. ASSUME NEW c \in Calls, Revoke(c) PROVE Stages'
  BY <1>9, AbsentApart DEF IInv, TypeOK, Stages, Created, Ended, Waits, SignInLabels, Revoke, Ends, Goto, Tell, tables
<1>10. ASSUME NEW e \in Emails, CreateAdmin(e) \/ Deactivate(e) PROVE Stages'
  BY <1>10 DEF IInv, TypeOK, Stages, Created, Ended, Waits, CreateAdmin, Deactivate
<1>11. ASSUME Tick PROVE Stages'
  BY <1>11 DEF IInv, TypeOK, Stages, Created, Ended, Waits, Tick, tables, Time
<1> QED BY <1>1, <1>2, <1>3, <1>4, <1>5, <1>6, <1>7, <1>8, <1>9, <1>10, <1>11 DEF Next

\* Every step leaves sessions to sign-ins that are over.
LEMMA CreatedNext == IInv /\ Next => Created'
<1> SUFFICES ASSUME IInv, Next PROVE Created'
    OBVIOUS
<1> USE SignInAssumption
<1>1. ASSUME NEW c \in Calls, Arrive(c) PROVE Created'
  <2>1. sessions' = sessions /\ \A d \in Calls \ {c} : /\ req'[d] = req[d]
                                                      /\ pc'[d] = pc[d]
                                                      /\ reply'[d] = reply[d]
    BY <1>1 DEF IInv, TypeOK, Arrive, Goto, tables
  <2>2. sessions[c] = Absent
    BY <1>1 DEF IInv, TypeOK, Stages, Created, Arrive
  <2> SUFFICES ASSUME NEW d \in Calls, sessions[d] # Absent
               PROVE  /\ req[d] # Absent /\ req[d].kind = "login" /\ req[d].right
                      /\ pc[d] = "done" /\ reply[d] \in {"OK", "DATABASE_UNAVAILABLE"}
    BY <2>1, <2>2 DEF Created
  <2> QED BY DEF IInv, Created
<1>2. ASSUME NEW c \in Calls, TurnAway(c) PROVE Created'
  BY <1>2 DEF IInv, TypeOK, Stages, Created, Ended, Waits, SignInLabels, TurnAway, Goto, tables
<1>3. ASSUME NEW c \in Calls, GiveUp(c) PROVE Created'
  BY <1>3 DEF IInv, TypeOK, Stages, Created, Ended, Waits, SignInLabels, GiveUp, Goto, Tell, tables
<1>4. ASSUME NEW c \in Calls, Drop(c) PROVE Created'
  BY <1>4 DEF IInv, TypeOK, Stages, Created, Ended, Waits, SignInLabels, Drop, Goto, tables
<1>5. ASSUME NEW c \in Calls, CountAttempt(c) PROVE Created'
  BY <1>5 DEF IInv, TypeOK, Stages, Created, Ended, Waits, SignInLabels, CountAttempt, GoOn, Ends, Goto, Tell, tables
<1>6. ASSUME NEW c \in Calls, Verify(c) PROVE Created'
  BY <1>6 DEF IInv, TypeOK, Stages, Created, Ended, Waits, SignInLabels, Verify, Ends, Goto, Tell, tables
<1>7. ASSUME NEW c \in Calls, CreateSession(c) PROVE Created'
  BY <1>7, AbsentApart DEF IInv, TypeOK, Stages, Created, Ended, Waits, SignInLabels, CreateSession, Ends, Goto, Tell, tables
<1>8. ASSUME NEW c \in Calls, Require(c) PROVE Created'
  BY <1>8 DEF IInv, TypeOK, Stages, Created, Ended, Waits, SignInLabels, Require, Ends, Goto, Tell, Valid, ValidAnyTime, tables
<1>9. ASSUME NEW c \in Calls, Revoke(c) PROVE Created'
  BY <1>9, AbsentApart DEF IInv, TypeOK, Stages, Created, Ended, Waits, SignInLabels, Revoke, Ends, Goto, Tell, tables
<1>10. ASSUME NEW e \in Emails, CreateAdmin(e) \/ Deactivate(e) PROVE Created'
  BY <1>10 DEF IInv, TypeOK, Stages, Created, Ended, Waits, CreateAdmin, Deactivate
<1>11. ASSUME Tick PROVE Created'
  BY <1>11 DEF IInv, TypeOK, Stages, Created, Ended, Waits, Tick, tables, Time
<1> QED BY <1>1, <1>2, <1>3, <1>4, <1>5, <1>6, <1>7, <1>8, <1>9, <1>10, <1>11 DEF Next

\* What is over stays over, and is told to nobody as if it were not.
EndKept ==
    /\ req' = req /\ late' = late /\ now <= now'
    /\ \A e \in Emails : users[e] = "inactive" => users'[e] = "inactive"
    /\ \A c \in Calls : pc[c] = "done" => /\ pc'[c] = "done"
                                         /\ sessions'[c] \in {sessions[c], Absent}
    /\ \A c \in Calls : (reply'[c] = "OK" /\ reply[c] # "OK" /\ req[c].kind # "login") =>
          \/ ~late[c] /\ req[c].kind = "use"
          \/ req[c].kind = "logout" /\ sessions'[req[c].token] = Absent

LEMMA OverKept ==
  ASSUME IInv, EndKept, TypeOK', NEW t \in Calls, pc[t] = "done", Over(t)
  PROVE  Over(t)'
<1>1. CASE sessions'[t] = Absent
  BY <1>1 DEF Over
<1>2. CASE sessions'[t] = sessions[t] /\ sessions[t] # Absent
  <2>1. sessions[t].user \in Emails /\ sessions[t].expires \in Nat /\ now \in Nat /\ now' \in Nat
    BY <1>2, SignInAssumption DEF IInv, TypeOK, EndKept, Time
  <2>2. CASE sessions[t].expires <= now
    <3>1. sessions[t].expires <= now'
      BY <2>1, <2>2 DEF EndKept
    <3> QED BY <1>2, <3>1 DEF Over
  <2>3. CASE users[sessions[t].user] = "inactive"
    BY <1>2, <2>1, <2>3 DEF Over, EndKept
  <2> QED BY <1>2, <2>2, <2>3 DEF Over
<1> QED BY <1>1, <1>2 DEF EndKept, Over

LEMMA EndedKept ==
  ASSUME IInv, EndKept, TypeOK'
  PROVE  Ended'
<1> SUFFICES ASSUME NEW c \in Calls, req[c] # Absent, req[c].kind # "login"
             PROVE  /\ pc'[req[c].token] = "done"
                    /\ late[c] => /\ Over(req[c].token)'
                                  /\ reply'[c] = "OK" => req[c].kind = "logout"
                    /\ (req[c].kind = "logout" /\ reply'[c] = "OK")
                          => sessions'[req[c].token] = Absent
  BY DEF Ended, IInv, EndKept, Over
<1>1. req[c].token \in Calls
  BY AbsentApart DEF IInv, TypeOK
<1>2. pc[req[c].token] = "done"
  BY DEF IInv, Ended
<1>3. late[c] => Over(req[c].token)'
  <2>1. PICK t \in Calls : t = req[c].token /\ t = req'[c].token
    BY <1>1 DEF EndKept
  <2>2. late[c] => Over(t)
    BY <2>1 DEF IInv, Ended
  <2>3. late[c] => Over(t)'
    BY <1>2, <2>1, <2>2, OverKept
  <2> QED BY <2>1, <2>3 DEF Over
<1>4. sessions[req[c].token] = Absent => sessions'[req[c].token] = Absent
  BY <1>1, <1>2 DEF EndKept
<1> QED BY <1>1, <1>2, <1>3, <1>4 DEF IInv, Ended, EndKept

\* Every step keeps ended sessions ended.
LEMMA EndedNext == IInv /\ Next => Ended'
<1> SUFFICES ASSUME IInv, Next PROVE Ended'
    OBVIOUS
<1> USE SignInAssumption
<1>0. TypeOK'
  BY TypeNext
<1>1. ASSUME NEW c \in Calls, Arrive(c) PROVE Ended'
  <2>1. PICK r \in SignIns \cup {u \in Uses : Known(u.token)} :
          /\ req' = [req EXCEPT ![c] = r]
          /\ late' = [late EXCEPT ![c] = r.kind # "login" /\ Over(r.token)]
    BY <1>1 DEF Arrive
  <2>2. pc[c] = "idle" /\ pc' = [pc EXCEPT ![c] = FirstLabel(r)] /\ now' = now
        /\ reply' = [reply EXCEPT ![c] = "waiting"] /\ users' = users /\ sessions' = sessions
    BY <1>1, <2>1 DEF Arrive, tables, Goto, IInv, TypeOK
  <2>3. \A t \in Calls : pc[t] = "done" => t # c /\ pc'[t] = "done" /\ Over(t)' = Over(t)
    BY <2>2 DEF Over, IInv, TypeOK
  <2>4. ASSUME NEW d \in Calls, d # c
        PROVE  req'[d] = req[d] /\ late'[d] = late[d] /\ reply'[d] = reply[d]
    BY <2>1, <2>2, <2>4 DEF IInv, TypeOK
  <2>5. r.kind # "login" => r.token \in Calls /\ pc[r.token] = "done"
    BY <2>1, AbsentApart DEF Known, IInv, Stages
  <2>6. req'[c] = r /\ (late'[c] <=> r.kind # "login" /\ Over(r.token)) /\ reply'[c] = "waiting"
    BY <2>1, <2>2 DEF IInv, TypeOK
  <2>7. r # Absent
    BY <2>1, AbsentAssumption
  <2>8. ASSUME NEW d \in Calls, req[d] # Absent, req[d].kind # "login"
        PROVE  req[d].token \in Calls /\ pc[req[d].token] = "done"
    BY <2>8, AbsentApart DEF IInv, TypeOK, Ended
  <2> QED BY <2>2, <2>3, <2>4, <2>5, <2>6, <2>7, <2>8 DEF Ended, IInv
<1>2. ASSUME NEW c \in Calls, TurnAway(c) PROVE EndKept
  BY <1>2 DEF EndKept, IInv, TypeOK, Stages, Created, Ended, SignInLabels, Waits, TurnAway, Goto, tables, Time
<1>3. ASSUME NEW c \in Calls, GiveUp(c) PROVE EndKept
  BY <1>3 DEF EndKept, IInv, TypeOK, Stages, Created, Ended, SignInLabels, Waits, GiveUp, Goto, Tell, tables, Time
<1>4. ASSUME NEW c \in Calls, Drop(c) PROVE EndKept
  BY <1>4 DEF EndKept, IInv, TypeOK, Stages, Created, Ended, SignInLabels, Waits, Drop, Goto, tables, Time
<1>5. ASSUME NEW c \in Calls, CountAttempt(c) PROVE EndKept
  BY <1>5 DEF EndKept, IInv, TypeOK, Stages, Created, Ended, SignInLabels, Waits, CountAttempt, GoOn, Ends, Goto, Tell, tables, Time
<1>6. ASSUME NEW c \in Calls, Verify(c) PROVE EndKept
  BY <1>6 DEF EndKept, IInv, TypeOK, Stages, Created, Ended, SignInLabels, Waits, Verify, Ends, Goto, Tell, tables, Time
<1>7. ASSUME NEW c \in Calls, CreateSession(c) PROVE EndKept
  BY <1>7, AbsentApart DEF EndKept, IInv, TypeOK, Stages, Created, Ended, SignInLabels, Waits, CreateSession, Ends, Goto, Tell, tables, Time
<1>8. ASSUME NEW c \in Calls, Revoke(c) PROVE EndKept
  BY <1>8, AbsentApart DEF EndKept, IInv, TypeOK, Stages, Created, Ended, SignInLabels, Waits, Revoke, Ends, Goto, Tell, tables, Time
<1>9. ASSUME NEW c \in Calls, Require(c) PROVE EndKept
  <2>1. req[c] # Absent /\ req[c].kind = "use" /\ pc[c] = "require" /\ req[c].token \in Calls
    BY <1>9, AbsentApart DEF Require, IInv, TypeOK, Stages
  <2>2. late[c] => Over(req[c].token)
    BY DEF IInv, Ended
  <2>3. late[c] => ~Valid(req[c].token)
    BY <2>1, <2>2 DEF IInv, TypeOK, Over, Valid, ValidAnyTime, Time
  <2> QED BY <1>9, <2>1, <2>3 DEF EndKept, IInv, TypeOK, Require, Ends, Goto, Tell, Waits, tables, Time
<1>10. ASSUME NEW e \in Emails, CreateAdmin(e) \/ Deactivate(e) PROVE EndKept
  BY <1>10 DEF EndKept, IInv, TypeOK, CreateAdmin, Deactivate, Time
<1>11. ASSUME Tick PROVE EndKept
  BY <1>11 DEF EndKept, IInv, TypeOK, Tick, tables, Time
<1> QED BY <1>0, <1>1, <1>2, <1>3, <1>4, <1>5, <1>6, <1>7, <1>8, <1>9, <1>10, <1>11,
           EndedKept DEF Next
----------------------------------------------------------------------------
\* The inductive invariant holds of every behaviour.
LEMMA IInvHolds == Spec => []IInv
<1>1. IInv /\ [Next]_vars => IInv'
  <2>1. CASE Next
    BY <2>1, TypeNext, StagesNext, CreatedNext, EndedNext DEF IInv
  <2>2. CASE UNCHANGED vars
    BY <2>2 DEF vars, tables, IInv, TypeOK, Stages, Created, Ended, Over, Waits, SignInLabels, Time
  <2> QED BY <2>1, <2>2
<1> QED BY <1>1, InitIInv, PTL DEF Spec

\* Each variable has its type, whatever the callers do and however long it takes.
THEOREM TypeCorrect == Spec => []TypeOK
  BY IInvHolds, PTL DEF IInv

\* A request that arrives when its session is revoked or has expired, or its
\* user is deactivated, is never let through.
THEOREM EndedSessions == Spec => []EndedStaysEnded
<1>1. IInv => EndedStaysEnded
  BY DEF IInv, Ended, EndedStaysEnded
<1> QED BY <1>1, IInvHolds, PTL

\* A refused sign-in leaves no session, an answered one had the password, and
\* an answered logout is for good.
THEOREM AnswersAreTrue == Spec => []AnswersTrue
<1>1. IInv => AnswersTrue
  BY DEF IInv, Stages, Created, Ended, AnswersTrue
<1> QED BY <1>1, IInvHolds, PTL
----------------------------------------------------------------------------
(* The throttle.                                                           *)

\* Each statement of the throttle is counted once, for a sign-in that has gone
\* on from it; an attempt that was let through did not wait past Timeout, and
\* one that was not leaves its caller with 429 or 503.
Entries ==
    /\ IsFiniteSet(counted)
    /\ \A x \in counted :
          /\ req[x.call] # Absent
          /\ x.by = "email" => pc[x.call] \in {"address", "credentials", "create", "done"}
          /\ x.by = "address" => pc[x.call] \in {"credentials", "create", "done"}
          /\ x.at <= now
          /\ x.ok => x.at <= x.from + Timeout
          /\ ~x.ok => reply[x.call] \in {"RATE_LIMITED", "DATABASE_UNAVAILABLE"}
    /\ \A c \in Calls : pc[c] \in {"email", "address"} =>
          reply[c] \in {"waiting", "DATABASE_UNAVAILABLE"}
    /\ \A c \in Calls : began[c] # Absent =>
          began[c] <= now /\ (Waits(c) => now <= began[c] + Timeout)

\* Those of the attempts A since the window that resets at r began.
Recent(A, r) == {x \in A : r <= x.at + Window}

\* A row counts no more than the attempts since its window began.
RowTrue(A, row) ==
    /\ row.resets <= now + Window
    /\ row.resets # 0 => row.attempts # 0
    /\ row.attempts <= Cardinality(Recent(A, row.resets))

\* Those let through since span before a Timeout past r.
LetThrough(A, r, span) == {x \in A : x.ok /\ r + Timeout < x.at + span}

\* What the window that resets at r, with n attempts counted of limit, let
\* through: nothing a Timeout past its end; since a Timeout past its beginning,
\* fewer than the limit and than were counted; and since as long before that as
\* a window lasts, fewer than a limit more than were counted, and than two limits.
WindowApart(A, n, r, limit) ==
    /\ \A x \in A : x.ok => x.at < r + Timeout
    /\ Cardinality(LetThrough(A, r, Window)) < limit
    /\ r # 0 => Cardinality(LetThrough(A, r, Window)) < n
    /\ Cardinality(LetThrough(A, r, 2 * Window)) < limit + n
    /\ Cardinality(LetThrough(A, r, 2 * Window)) < 2 * limit

Throttled(k) ==
    /\ RowTrue(Attempts(k), throttle[k])
    /\ WindowApart(Attempts(k), throttle[k].attempts, throttle[k].resets, Limit(k))

TInv ==
    /\ IInv
    /\ Entries
    /\ \A k \in Keys : Throttled(k)
    /\ Limited
    /\ RefusedForCause

\* A subset of a set with one more element has at most one more.
LEMMA OneMore ==
    ASSUME NEW S, IsFiniteSet(S), NEW x, NEW T, T \subseteq S \cup {x}
    PROVE  /\ IsFiniteSet(T) /\ Cardinality(T) \in Nat /\ Cardinality(S) \in Nat
           /\ Cardinality(T) <= Cardinality(S) + 1
<1>1. IsFiniteSet(S \cup {x})
  BY FS_AddElement
<1>2. Cardinality(S \cup {x}) <= Cardinality(S) + 1 /\ Cardinality(S) \in Nat
  <2>1. Cardinality(S) \in Nat
    BY FS_CardinalityType
  <2>2. Cardinality(S \cup {x}) = IF x \in S THEN Cardinality(S) ELSE Cardinality(S) + 1
    BY FS_AddElement
  <2> QED BY <2>1, <2>2
<1>3. IsFiniteSet(T) /\ Cardinality(T) <= Cardinality(S \cup {x})
  BY <1>1, FS_Subset
<1>4. Cardinality(T) \in Nat /\ Cardinality(S \cup {x}) \in Nat
  BY <1>1, <1>3, FS_CardinalityType
<1> QED
  BY <1>2, <1>3, <1>4

\* A subset has no more.
LEMMA NoMore ==
    ASSUME NEW S, IsFiniteSet(S), NEW T, T \subseteq S
    PROVE  /\ IsFiniteSet(T) /\ Cardinality(T) \in Nat /\ Cardinality(S) \in Nat
           /\ Cardinality(T) <= Cardinality(S)
BY FS_Subset, FS_CardinalityType

\* The limits, the rows and the attempts are of their types.
LEMMA ThrottleTypes ==
    ASSUME IInv, Entries, NEW k \in Keys
    PROVE  /\ Limit(k) \in Nat /\ Limit(k) >= 1
           /\ throttle[k].attempts \in Nat /\ throttle[k].resets \in Nat
           /\ now \in Nat /\ Window \in Nat /\ Window >= 1 /\ Timeout \in Nat /\ Timeout < Window
           /\ IsFiniteSet(Attempts(k))
           /\ \A x \in Attempts(k) :
                 /\ x \in counted /\ x.call \in Calls /\ x.ok \in BOOLEAN
                 /\ x.from \in Nat /\ x.at \in Nat /\ x.at <= now
<1>1. Limit(k) \in Nat /\ Limit(k) >= 1
  BY SignInAssumption DEF Limit
<1>2. throttle[k].attempts \in Nat /\ throttle[k].resets \in Nat
  BY DEF IInv, TypeOK
<1>3. IsFiniteSet(Attempts(k))
  BY FS_Subset DEF Entries, Attempts
<1>4. now \in Nat /\ Window \in Nat /\ Window >= 1 /\ Timeout \in Nat /\ Timeout < Window
  BY SignInAssumption DEF IInv, TypeOK, Time
<1>5. \A x \in Attempts(k) :
         /\ x \in counted /\ x.call \in Calls /\ x.ok \in BOOLEAN
         /\ x.from \in Nat /\ x.at \in Nat /\ x.at <= now
  BY DEF IInv, TypeOK, Time, Attempts, Entries
<1> QED
  BY <1>1, <1>2, <1>3, <1>4, <1>5

\* What a statement of the throttle does.
Entry(c) ==
    LET new == Counted(throttle[Key(c)], began[c]) IN
    [call |-> c, by |-> pc[c], from |-> began[c], at |-> now,
     ok |-> Waits(c) /\ new.attempts <= Limit(Key(c))]

LEMMA CountStep ==
    ASSUME TInv, NEW c \in Calls, CountAttempt(c)
    PROVE  /\ pc[c] \in {"email", "address"} /\ began[c] \in Nat /\ Key(c) \in Keys
           /\ began[c] <= now /\ (Waits(c) => now <= began[c] + Timeout)
           /\ now' = now /\ req' = req
           /\ counted' = counted \cup {Entry(c)}
           /\ throttle' = [throttle EXCEPT ![Key(c)] = Counted(throttle[Key(c)], began[c])]
           /\ pc' = [pc EXCEPT ![c] = pc'[c]]
           /\ pc'[c] \in {"address", "credentials", "done"}
           /\ pc[c] = "address" => pc'[c] \in {"credentials", "done"}
           /\ reply' = [reply EXCEPT ![c] = reply'[c]]
           /\ reply'[c] = IF Waits(c) /\ Counted(throttle[Key(c)], began[c]).attempts > Limit(Key(c))
                            THEN "RATE_LIMITED" ELSE reply[c]
           /\ pc'[c] # "done" => Waits(c) /\ reply'[c] = "waiting"
           /\ began' = [began EXCEPT ![c] = IF pc'[c] = "address" THEN now ELSE Absent]
<1>1. pc[c] \in {"email", "address"} /\ began[c] \in Time
  BY DEF TInv, IInv, TypeOK, CountAttempt
<1>2. began[c] \in Nat
  BY <1>1 DEF Time
<1>3. Key(c) \in Keys
  <2>1. req[c] \in SignIns \cup Uses /\ req[c].kind = "login"
    BY <1>1 DEF TInv, IInv, TypeOK, Stages, SignInLabels
  <2> QED
    BY <1>1, <2>1, AbsentApart DEF Key, Email, Keys
<1>4. began[c] <= now /\ (Waits(c) => now <= began[c] + Timeout)
  BY DEF TInv, Entries, CountAttempt
<1> DEFINE new == Counted(throttle[Key(c)], began[c])
<1>5. /\ now' = now /\ req' = req /\ throttle' = [throttle EXCEPT ![Key(c)] = new]
      /\ counted' = counted \cup {Entry(c)}
      /\ IF new.attempts <= Limit(Key(c))
           THEN GoOn(c, IF pc[c] = "email" THEN "address" ELSE "credentials") /\ UNCHANGED reply
           ELSE Ends(c, "RATE_LIMITED")
      /\ began' = [began EXCEPT ![c] = IF pc'[c] = "address" THEN now ELSE Absent]
  BY DEF CountAttempt, Entry
<1>6. new.attempts \in Nat /\ Limit(Key(c)) \in Nat
  BY <1>2, <1>3, ThrottleTypes DEF TInv, Counted, IInv, TypeOK
<1> HIDE DEF new
<1>7. CASE new.attempts <= Limit(Key(c))
  <2>1. /\ reply' = reply
        /\ pc' = [pc EXCEPT ![c] = IF Waits(c) THEN (IF pc[c] = "email" THEN "address" ELSE "credentials")
                                   ELSE "done"]
    BY <1>5, <1>7 DEF GoOn, Goto
  <2> QED
    BY <1>1, <1>2, <1>3, <1>4, <1>5, <1>6, <1>7, <2>1 DEF TInv, IInv, TypeOK, Waits, new
<1>8. CASE ~(new.attempts <= Limit(Key(c)))
  <2>1. /\ pc' = [pc EXCEPT ![c] = "done"]
        /\ reply' = [reply EXCEPT ![c] = IF Waits(c) THEN "RATE_LIMITED" ELSE reply[c]]
    BY <1>5, <1>8 DEF Ends, Goto, Tell
  <2> QED
    BY <1>1, <1>2, <1>3, <1>4, <1>5, <1>6, <1>8, <2>1 DEF TInv, IInv, TypeOK, Waits, new
<1> QED
  BY <1>7, <1>8

\* The attempts for a key, after it.
LEMMA AttemptsGrow ==
    ASSUME TInv, NEW c \in Calls, CountAttempt(c), NEW k \in Keys
    PROVE  /\ k = Key(c) => Attempts(k)' = Attempts(k) \cup {Entry(c)}
           /\ k # Key(c) => Attempts(k)' = Attempts(k)
           /\ Entry(c) \notin counted
<1>1. \A x \in counted : x.call \in Calls
  BY DEF TInv, IInv, TypeOK
<1>2. Entry(c).call = c /\ Entry(c).by = pc[c]
  BY DEF Entry
<1>3. k = Key(c) <=> k = IF Entry(c).by = "email" THEN Email(Entry(c).call) ELSE req[Entry(c).call].address
  BY <1>2, CountStep DEF Key
<1>4. Entry(c) \notin counted
  BY <1>2, CountStep DEF TInv, Entries
<1> QED
  BY <1>3, <1>4, CountStep DEF Attempts, Email

\* No other step counts anything, or makes an attempt another's.
LEMMA AttemptsKept ==
    ASSUME TInv, Next, UNCHANGED <<counted, throttle>>
    PROVE  /\ \A k \in Keys : Attempts(k)' = Attempts(k)
           /\ \A x \in counted : /\ req'[x.call] = req[x.call]
                                 /\ pc'[x.call] \in {pc[x.call], "create", "done"}
                                 /\ reply'[x.call] = "RATE_LIMITED" => reply[x.call] = "RATE_LIMITED"
                                 /\ ~x.ok => reply'[x.call] = reply[x.call]
           /\ now' \in {now, now + 1}
<1>1. ASSUME NEW x \in counted
      PROVE  /\ req'[x.call] = req[x.call]
             /\ pc'[x.call] \in {pc[x.call], "create", "done"}
             /\ reply'[x.call] = "RATE_LIMITED" => reply[x.call] = "RATE_LIMITED"
             /\ ~x.ok => reply'[x.call] = reply[x.call]
  <2>1. /\ x.call \in Calls /\ req[x.call] # Absent /\ pc[x.call] # "idle"
        /\ pc[x.call] \in {"address", "credentials", "create", "done"}
        /\ ~x.ok => ~Waits(x.call)
    BY <1>1 DEF TInv, Entries, IInv, TypeOK, Stages, Waits
  <2>2. ASSUME NEW c \in Calls,
               \/ Arrive(c) \/ TurnAway(c) \/ GiveUp(c) \/ Drop(c)
               \/ Verify(c) \/ CreateSession(c) \/ Require(c) \/ Revoke(c)
        PROVE  /\ req'[x.call] = req[x.call]
               /\ pc'[x.call] \in {pc[x.call], "create", "done"}
               /\ reply'[x.call] = "RATE_LIMITED" => reply[x.call] = "RATE_LIMITED"
               /\ ~x.ok => reply'[x.call] = reply[x.call]
    <3>1. CASE Arrive(c) \/ TurnAway(c)
      BY <2>1, <3>1 DEF Arrive, TurnAway, Goto, TInv, IInv, TypeOK
    <3>2. CASE GiveUp(c) \/ Drop(c)
      BY <2>1, <3>2 DEF GiveUp, Drop, Goto, Tell, TInv, IInv, TypeOK, Waits
    <3>3. CASE Verify(c) \/ CreateSession(c)
      BY <2>1, <3>3 DEF Verify, CreateSession, Ends, Goto, Tell, TInv, IInv, TypeOK, Waits
    <3>4. CASE Require(c) \/ Revoke(c)
      BY <2>1, <3>4 DEF Require, Revoke, Ends, Goto, Tell, TInv, IInv, TypeOK, Waits
    <3> QED
      BY <2>2, <3>1, <3>2, <3>3, <3>4
  <2>3. ASSUME NEW c \in Calls, CountAttempt(c) PROVE FALSE
    BY <2>3, CountStep, AttemptsGrow
  <2>4. ASSUME NEW e \in Emails, CreateAdmin(e) \/ Deactivate(e)
        PROVE  UNCHANGED <<req, pc, reply>>
    BY <2>4 DEF CreateAdmin, Deactivate
  <2>5. Tick => UNCHANGED <<req, pc, reply>>
    BY DEF Tick
  <2> QED
    BY <2>2, <2>3, <2>4, <2>5 DEF Next
<1>2. \A k \in Keys : Attempts(k)' = Attempts(k)
  BY <1>1 DEF Attempts, Email
<1>3. now' \in {now, now + 1}
  BY DEF Next, Arrive, TurnAway, GiveUp, Drop, CountAttempt, Verify, CreateSession, Require,
         Revoke, CreateAdmin, Deactivate, Tick
<1> QED
  BY <1>1, <1>2, <1>3

\* An upsert that read now() = x.from keeps windows apart.
LEMMA WindowStep ==
    ASSUME NEW A, IsFiniteSet(A), \A y \in A : y.at \in Nat /\ y.ok \in BOOLEAN,
           NEW x, x.at \in Nat, x.from \in Nat, x.ok \in BOOLEAN,
           NEW n \in Nat, NEW r \in Nat, NEW m \in Nat, NEW s \in Nat,
           NEW limit \in Nat, limit >= 1,
           x.ok => x.at <= x.from + Timeout /\ m <= limit,
           \/ r <= x.from /\ m = 1 /\ s = x.from + Window
           \/ x.from < r /\ m = n + 1 /\ s = r,
           WindowApart(A, n, r, limit)
    PROVE  WindowApart(A \cup {x}, m, s, limit)
<1> USE SignInAssumption
<1> DEFINE one == LetThrough(A, r, Window)
           two == LetThrough(A, r, 2 * Window)
           one2 == LetThrough(A \cup {x}, s, Window)
           two2 == LetThrough(A \cup {x}, s, 2 * Window)
<1>1. /\ \A y \in A : y.ok => y.at < r + Timeout
      /\ Cardinality(one) < limit /\ (r # 0 => Cardinality(one) < n)
      /\ Cardinality(two) < limit + n /\ Cardinality(two) < 2 * limit
  BY DEF WindowApart
<1>2. IsFiniteSet(one) /\ Cardinality(one) \in Nat /\ IsFiniteSet(two) /\ Cardinality(two) \in Nat
  BY NoMore DEF LetThrough
<1>3. CASE r <= x.from /\ m = 1 /\ s = x.from + Window
  <2>1. \A y \in A \cup {x} : y.ok => y.at <= x.from + Timeout
    BY <1>1, <1>3
  <2>2. one2 = {}
    BY <1>3, <2>1 DEF LetThrough
  <2>3. two2 \subseteq one \cup {x}
    BY <1>3 DEF LetThrough
  <2>4. Cardinality(one2) = 0
    BY <2>2, FS_EmptySet
  <2>5. Cardinality(two2) \in Nat /\ Cardinality(two2) <= Cardinality(one) + 1
    BY <1>2, <2>3, OneMore
  <2>6. \A y \in A \cup {x} : y.ok => y.at < s + Timeout
    BY <1>3, <2>1
  <2> HIDE DEF one, two, one2, two2
  <2>7. Cardinality(two2) < limit + m /\ Cardinality(two2) < 2 * limit
    BY <1>1, <1>2, <1>3, <2>5
  <2> QED BY <1>3, <2>4, <2>6, <2>7 DEF WindowApart, one2, two2
<1>4. CASE x.from < r /\ m = n + 1 /\ s = r
  <2>1. \A y \in A \cup {x} : y.ok => y.at < s + Timeout
    BY <1>1, <1>4
  <2>2. CASE ~x.ok
    <3>1. one2 = one /\ two2 = two
      BY <1>4, <2>2 DEF LetThrough
    <3> HIDE DEF one, two, one2, two2
    <3>2. /\ Cardinality(one2) < limit /\ Cardinality(one2) < m
          /\ Cardinality(two2) < limit + m /\ Cardinality(two2) < 2 * limit
      BY <1>1, <1>2, <1>4, <3>1
    <3> QED BY <2>1, <3>2 DEF WindowApart, one2, two2
  <2>3. CASE x.ok
    <3>1. one2 \subseteq one \cup {x} /\ two2 \subseteq two \cup {x}
      BY <1>4 DEF LetThrough
    <3>2. /\ Cardinality(one2) \in Nat /\ Cardinality(one2) <= Cardinality(one) + 1
          /\ Cardinality(two2) \in Nat /\ Cardinality(two2) <= Cardinality(two) + 1
      BY <1>2, <3>1, OneMore
    <3> HIDE DEF one, two, one2, two2
    <3>3. /\ Cardinality(one2) < limit /\ Cardinality(one2) < m
          /\ Cardinality(two2) < limit + m /\ Cardinality(two2) < 2 * limit
      BY <1>1, <1>2, <1>4, <2>3, <3>2
    <3> QED BY <2>1, <3>3 DEF WindowApart, one2, two2
  <2> QED BY <2>2, <2>3
<1> QED BY <1>3, <1>4

\* It counts itself, and a window lasts no longer than Window from now.
LEMMA RowStep ==
    ASSUME TInv, NEW c \in Calls, CountAttempt(c), NEW k \in Keys, k = Key(c),
           NEW x, x = Entry(c)
    PROVE  /\ \/ /\ throttle[k].resets <= x.from
                 /\ throttle'[k].attempts = 1 /\ throttle'[k].resets = x.from + Window
              \/ /\ x.from < throttle[k].resets
                 /\ throttle'[k].attempts = throttle[k].attempts + 1
                 /\ throttle'[k].resets = throttle[k].resets
           /\ throttle'[k].attempts \in Nat /\ throttle'[k].resets \in Nat
           /\ x.from \in Nat /\ x.at \in Nat /\ x.at = now /\ x.from <= x.at /\ x.ok \in BOOLEAN
           /\ x.ok => x.at <= x.from + Timeout /\ throttle'[k].attempts <= Limit(k)
           /\ RowTrue(Attempts(k), throttle[k])'
<1> USE SignInAssumption
<1>1. /\ throttle'[k] = Counted(throttle[k], began[c]) /\ now' = now
      /\ began[c] \in Nat /\ began[c] <= now /\ (Waits(c) => now <= began[c] + Timeout)
  BY CountStep DEF TInv, IInv, TypeOK
<1>2. x.from = began[c] /\ x.at = now /\ (x.ok <=> Waits(c) /\ throttle'[k].attempts <= Limit(k))
      /\ x.ok \in BOOLEAN
  <2>1. PICK b \in BOOLEAN : b = (Waits(c) /\ throttle'[k].attempts <= Limit(k))
    OBVIOUS
  <2>2. x = [call |-> c, by |-> pc[c], from |-> began[c], at |-> now, ok |-> b]
    BY <1>1, <2>1 DEF Entry
  <2>3. x.from = began[c] /\ x.at = now /\ x.ok = b
    BY <2>2
  <2>4. x.ok <=> Waits(c) /\ throttle'[k].attempts <= Limit(k)
    BY <2>1, <2>3, Zenon
  <2> QED BY <2>3, <2>4
<1>3. /\ throttle[k].attempts \in Nat /\ throttle[k].resets \in Nat /\ now \in Nat
      /\ throttle[k] = [attempts |-> throttle[k].attempts, resets |-> throttle[k].resets]
  BY ThrottleTypes DEF TInv, IInv, TypeOK
<1>4. \/ /\ throttle[k].resets <= x.from
         /\ throttle'[k].attempts = 1 /\ throttle'[k].resets = x.from + Window
      \/ /\ x.from < throttle[k].resets
         /\ throttle'[k].attempts = throttle[k].attempts + 1
         /\ throttle'[k].resets = throttle[k].resets
  BY <1>1, <1>2, <1>3 DEF Counted
<1>5. /\ throttle'[k].attempts \in Nat /\ throttle'[k].resets \in Nat
      /\ throttle'[k].attempts # 0
  BY <1>1, <1>2, <1>3, <1>4
<1>6. RowTrue(Attempts(k), throttle[k])
  BY DEF TInv, Throttled
<1>7. throttle'[k].resets <= now + Window
  BY <1>1, <1>2, <1>3, <1>4, <1>6 DEF RowTrue
<1>8. PICK A, r, s : A = Attempts(k) /\ r = throttle[k].resets /\ s = throttle'[k].resets
  OBVIOUS
<1>9. IsFiniteSet(A) /\ (\A y \in A : y.at \in Nat) /\ x \notin A /\ Attempts(k)' = A \cup {x}
  BY <1>8, ThrottleTypes, AttemptsGrow DEF TInv, Attempts
<1>10. IsFiniteSet(Recent(A, r)) /\ Cardinality(Recent(A, r)) \in Nat
       /\ throttle[k].attempts <= Cardinality(Recent(A, r))
  BY <1>6, <1>8, <1>9, NoMore DEF Recent, RowTrue
<1>11. IsFiniteSet(Recent(A \cup {x}, s)) /\ Cardinality(Recent(A \cup {x}, s)) \in Nat
  <2>1. IsFiniteSet(A \cup {x})
    BY <1>9, FS_AddElement
  <2> QED BY <2>1, NoMore DEF Recent
<1>12. x \in Recent(A \cup {x}, s) /\ x \notin Recent(A, r)
  BY <1>1, <1>2, <1>7, <1>8, <1>9 DEF Recent
<1>13. throttle'[k].attempts <= Cardinality(Recent(A \cup {x}, s))
  <2>1. CASE throttle'[k].attempts = 1
    <3>1. Cardinality(Recent(A \cup {x}, s)) # 0
      BY <1>11, <1>12, FS_EmptySet
    <3> QED BY <1>11, <2>1, <3>1
  <2>2. CASE throttle'[k].attempts = throttle[k].attempts + 1 /\ s = r
    <3>1. Recent(A \cup {x}, s) = Recent(A, r) \cup {x}
      BY <1>12, <2>2 DEF Recent
    <3>2. Cardinality(Recent(A \cup {x}, s)) = Cardinality(Recent(A, r)) + 1
      BY <1>10, <1>12, <3>1, FS_AddElement
    <3> QED BY <1>3, <1>10, <2>2, <3>2
  <2> QED BY <1>4, <1>8, <2>1, <2>2
<1>14. RowTrue(Attempts(k), throttle[k])'
  BY <1>1, <1>5, <1>7, <1>8, <1>9, <1>13 DEF RowTrue, Recent
<1>15. x.ok => x.at <= x.from + Timeout /\ throttle'[k].attempts <= Limit(k)
  BY <1>1, <1>2
<1> QED BY <1>1, <1>2, <1>3, <1>4, <1>5, <1>14, <1>15

\* Time alone changes nothing about a key.
LEMMA ThrottledKept ==
    ASSUME TInv, NEW k \in Keys, Attempts(k)' = Attempts(k), throttle'[k] = throttle[k],
           now' \in Nat, now <= now'
    PROVE  Throttled(k)'
<1>1. PICK A, n, r, l : /\ A = Attempts(k) /\ n = throttle[k].attempts
                        /\ r = throttle[k].resets /\ l = Limit(k)
  OBVIOUS
<1>2. Attempts(k)' = A /\ throttle'[k].attempts = n /\ throttle'[k].resets = r /\ Limit(k)' = l
  BY <1>1 DEF Limit
<1>3. WindowApart(A, n, r, l)
  BY <1>1 DEF TInv, Throttled
<1>4. r \in Nat /\ now \in Nat /\ Window \in Nat
  BY <1>1, ThrottleTypes DEF TInv
<1>5. RowTrue(Attempts(k), throttle[k])'
  BY <1>4, <1>1 DEF TInv, Throttled, RowTrue, Recent
<1> QED BY <1>2, <1>3, <1>5 DEF Throttled, WindowApart, LetThrough

\* So every key stays throttled.
LEMMA ThrottledStep ==
    ASSUME TInv, NEW c \in Calls, CountAttempt(c), NEW k \in Keys
    PROVE  Throttled(k)'
<1>1. CASE k # Key(c)
  <2>1. Attempts(k)' = Attempts(k) /\ throttle'[k] = throttle[k] /\ now' = now /\ now \in Nat
    BY <1>1, CountStep, AttemptsGrow DEF TInv, IInv, TypeOK, Time
  <2> QED BY <2>1, ThrottledKept
<1>2. CASE k = Key(c)
  <2>1. PICK x : x = Entry(c)
    OBVIOUS
  <2>2. PICK A, n, r, m, s, l : /\ A = Attempts(k) /\ n = throttle[k].attempts /\ r = throttle[k].resets
                               /\ m = throttle'[k].attempts /\ s = throttle'[k].resets
                               /\ l = Limit(k)
    OBVIOUS
  <2>3. /\ IsFiniteSet(A) /\ (\A y \in A : y.at \in Nat /\ y.ok \in BOOLEAN)
        /\ n \in Nat /\ r \in Nat /\ l \in Nat /\ l >= 1
        /\ WindowApart(A, n, r, l)
    BY <2>2, ThrottleTypes DEF TInv, Throttled
  <2>4. /\ m \in Nat /\ s \in Nat /\ x.at \in Nat /\ x.from \in Nat /\ x.ok \in BOOLEAN
        /\ x.ok => x.at <= x.from + Timeout /\ m <= l
        /\ \/ r <= x.from /\ m = 1 /\ s = x.from + Window
           \/ x.from < r /\ m = n + 1 /\ s = r
        /\ RowTrue(Attempts(k), throttle[k])'
    BY <1>2, <2>1, <2>2, RowStep
  <2>5. WindowApart(A \cup {x}, m, s, l)
    BY <2>3, <2>4, WindowStep
  <2>6. Attempts(k)' = A \cup {x} /\ Limit(k)' = l
    BY <1>2, <2>1, <2>2, AttemptsGrow DEF Limit
  <2> QED BY <2>2, <2>4, <2>5, <2>6 DEF Throttled, WindowApart, LetThrough
<1> QED BY <1>1, <1>2

\* A statement answers no other call, and its own call as Entries says.
LEMMA EntriesCount ==
    ASSUME TInv, NEW c \in Calls, CountAttempt(c)
    PROVE  Entries'
<1>1. PICK x : x = Entry(c)
  OBVIOUS
<1>2. x.call = c /\ x.by = pc[c] /\ x.from = began[c] /\ x.at = now
  BY <1>1 DEF Entry
<1>3. /\ IsFiniteSet(counted) /\ counted' = counted \cup {x}
      /\ IsFiniteSet(counted')
  BY <1>1, CountStep, FS_AddElement DEF TInv, Entries
<1>4. /\ pc[c] \in {"email", "address"} /\ now' = now /\ req' = req
      /\ reply[c] \in {"waiting", "DATABASE_UNAVAILABLE"} /\ req[c] # Absent
  BY CountStep DEF TInv, Entries, IInv, Stages
<1>5. \A d \in Calls \ {c} : pc'[d] = pc[d] /\ reply'[d] = reply[d] /\ began'[d] = began[d]
  BY CountStep DEF TInv, IInv, TypeOK
<1>6. ~Waits(c) => reply'[c] = reply[c]
  BY CountStep
<1>7. ASSUME NEW y \in counted
      PROVE  /\ req'[y.call] # Absent
             /\ y.by = "email" => pc'[y.call] \in {"address", "credentials", "create", "done"}
             /\ y.by = "address" => pc'[y.call] \in {"credentials", "create", "done"}
             /\ y.at <= now'
             /\ y.ok => y.at <= y.from + Timeout
             /\ ~y.ok => reply'[y.call] \in {"RATE_LIMITED", "DATABASE_UNAVAILABLE"}
  <2>1. /\ req[y.call] # Absent /\ y.call \in Calls /\ y.by \in {"email", "address"}
        /\ y.by = "email" => pc[y.call] \in {"address", "credentials", "create", "done"}
        /\ y.by = "address" => pc[y.call] \in {"credentials", "create", "done"}
        /\ y.at <= now
        /\ y.ok => y.at <= y.from + Timeout
        /\ ~y.ok => reply[y.call] \in {"RATE_LIMITED", "DATABASE_UNAVAILABLE"}
    BY <1>7 DEF TInv, Entries, IInv, TypeOK
  <2>2. CASE y.call # c
    BY <1>4, <1>5, <2>1, <2>2
  <2>3. CASE y.call = c
    <3>1. pc[c] = "address" /\ pc'[c] \in {"credentials", "done"} /\ y.by = "email"
      BY <1>4, <2>1, <2>3, CountStep
    <3>2. ~y.ok => ~Waits(c)
      BY <2>1, <2>3 DEF Waits
    <3> QED BY <1>4, <1>6, <2>1, <2>3, <3>1, <3>2
  <2> QED BY <2>2, <2>3
<1>8. /\ req'[x.call] # Absent
      /\ x.by = "email" => pc'[x.call] \in {"address", "credentials", "create", "done"}
      /\ x.by = "address" => pc'[x.call] \in {"credentials", "create", "done"}
      /\ x.at <= now'
      /\ x.ok => x.at <= x.from + Timeout
      /\ ~x.ok => reply'[x.call] \in {"RATE_LIMITED", "DATABASE_UNAVAILABLE"}
  <2>1. Key(c) \in Keys
    BY CountStep
  <2>2. x.ok => x.at <= x.from + Timeout
    BY <1>1, <2>1, RowStep
  <2>3. x.at <= now'
    BY <1>2, <1>4, ThrottleTypes, <2>1 DEF TInv
  <2>4. (x.ok <=> Waits(c) /\ Counted(throttle[Key(c)], began[c]).attempts <= Limit(Key(c)))
    BY <1>1 DEF Entry
  <2>5. Waits(c) /\ Counted(throttle[Key(c)], began[c]).attempts > Limit(Key(c))
          => reply'[c] = "RATE_LIMITED"
    BY CountStep
  <2>6. Counted(throttle[Key(c)], began[c]).attempts \in Nat /\ Limit(Key(c)) \in Nat
    <3>1. throttle'[Key(c)] = Counted(throttle[Key(c)], began[c])
      BY <2>1, CountStep DEF TInv, IInv, TypeOK
    <3> QED BY <1>1, <2>1, <3>1, RowStep, ThrottleTypes DEF TInv
  <2>7. ~x.ok => ~Waits(c) \/ reply'[c] = "RATE_LIMITED"
    BY <2>4, <2>5, <2>6
  <2>8. ~x.ok => reply'[c] \in {"RATE_LIMITED", "DATABASE_UNAVAILABLE"}
    BY <1>4, <1>6, <2>7 DEF Waits
  <2>9. pc'[c] \in {"address", "credentials", "done"} /\ (pc[c] = "address" => pc'[c] \in {"credentials", "done"})
    BY CountStep
  <2> QED BY <1>2, <1>4, <2>2, <2>3, <2>8, <2>9
<1>9. \A d \in Calls : pc'[d] \in {"email", "address"} =>
        reply'[d] \in {"waiting", "DATABASE_UNAVAILABLE"}
  BY <1>5, CountStep DEF TInv, Entries
<1>10. ASSUME NEW d \in Calls, began'[d] # Absent
       PROVE  began'[d] <= now' /\ (Waits(d)' => now' <= began'[d] + Timeout)
  <2>1. CASE d # c
    BY <1>4, <1>5, <1>10, <2>1 DEF TInv, Entries, Waits
  <2>2. CASE d = c
    <3>1. began'[c] = now
      BY <1>10, <2>2, CountStep DEF TInv, IInv, TypeOK
    <3>2. now \in Nat /\ Timeout \in Nat
      BY CountStep, ThrottleTypes DEF TInv
    <3> QED BY <1>4, <2>2, <3>1, <3>2
  <2> QED BY <2>1, <2>2
<1> QED BY <1>3, <1>7, <1>8, <1>9, <1>10 DEF Entries

\* Nor do other steps, which go on from a statement or end.
LEMMA EntriesKept ==
    ASSUME TInv, Next, UNCHANGED <<counted, throttle>>
    PROVE  Entries'
<1> USE SignInAssumption
<1>1. ASSUME NEW y \in counted
      PROVE  /\ req'[y.call] # Absent
             /\ y.by = "email" => pc'[y.call] \in {"address", "credentials", "create", "done"}
             /\ y.by = "address" => pc'[y.call] \in {"credentials", "create", "done"}
             /\ y.at <= now'
             /\ y.ok => y.at <= y.from + Timeout
             /\ ~y.ok => reply'[y.call] \in {"RATE_LIMITED", "DATABASE_UNAVAILABLE"}
  <2>1. y.at \in Nat /\ now \in Nat
    BY <1>1 DEF TInv, IInv, TypeOK, Time
  <2> QED BY <1>1, <2>1, AttemptsKept DEF TInv, Entries
<1>2. ASSUME NEW c \in Calls, Arrive(c)
      PROVE  /\ \A d \in Calls : pc'[d] \in {"email", "address"} =>
                    reply'[d] \in {"waiting", "DATABASE_UNAVAILABLE"}
             /\ \A d \in Calls : began'[d] # Absent =>
                    began'[d] <= now' /\ (Waits(d)' => now' <= began'[d] + Timeout)
  <2>1. \A d \in Calls \ {c} : pc'[d] = pc[d] /\ reply'[d] = reply[d] /\ began'[d] = began[d]
    BY <1>2 DEF Arrive, Goto, TInv, IInv, TypeOK
  <2>2. reply'[c] = "waiting" /\ began'[c] \in {now, Absent} /\ now' = now /\ now \in Nat
    BY <1>2 DEF Arrive, TInv, IInv, TypeOK, Time
  <2> QED BY <2>1, <2>2 DEF TInv, Entries, Waits
<1>3. ASSUME NEW c \in Calls,
             \/ TurnAway(c) \/ GiveUp(c) \/ Drop(c)
             \/ Verify(c) \/ CreateSession(c) \/ Require(c) \/ Revoke(c)
      PROVE  /\ \A d \in Calls : pc'[d] \in {"email", "address"} =>
                    reply'[d] \in {"waiting", "DATABASE_UNAVAILABLE"}
             /\ \A d \in Calls : began'[d] # Absent =>
                    began'[d] <= now' /\ (Waits(d)' => now' <= began'[d] + Timeout)
  <2>1. now' = now
    BY <1>3 DEF TurnAway, GiveUp, Drop, Verify, CreateSession, Require, Revoke
  <2>2. \A d \in Calls : began'[d] \in {began[d], Absent}
    BY <1>3 DEF TurnAway, GiveUp, Drop, Verify, CreateSession, Require, Revoke, TInv, IInv, TypeOK
  <2>3. \A d \in Calls : pc'[d] \in {"email", "address"} =>
          pc[d] = pc'[d] /\ reply'[d] \in {reply[d], "DATABASE_UNAVAILABLE"}
    BY <1>3 DEF TurnAway, GiveUp, Drop, Verify, CreateSession, Require, Revoke, Goto, Ends, Tell,
                Waits, TInv, IInv, TypeOK
  <2>4. \A d \in Calls : reply'[d] = "waiting" => reply[d] = "waiting"
    BY <1>3 DEF TurnAway, GiveUp, Drop, Verify, CreateSession, Require, Revoke, Goto, Ends, Tell,
                Waits, TInv, IInv, TypeOK
  <2> QED BY <2>1, <2>2, <2>3, <2>4 DEF TInv, Entries, Waits
<1>4. ASSUME NEW e \in Emails, CreateAdmin(e) \/ Deactivate(e)
      PROVE  UNCHANGED <<now, pc, reply, began>>
  BY <1>4 DEF CreateAdmin, Deactivate
<1>5. ASSUME Tick
      PROVE  /\ UNCHANGED <<pc, reply, began>>
             /\ \A d \in Calls : began'[d] # Absent =>
                    began'[d] <= now' /\ (Waits(d)' => now' <= began'[d] + Timeout)
  <2>1. UNCHANGED <<pc, reply, began>> /\ now' = now + 1 /\ now \in Nat
    BY <1>5 DEF Tick, TInv, IInv, TypeOK, Time
  <2>2. \A d \in Calls : began[d] # Absent => began[d] \in Nat
    BY DEF TInv, IInv, TypeOK, Time
  <2> QED BY <1>5, <2>1, <2>2 DEF Tick, TInv, Entries, Waits
<1>6. ASSUME NEW c \in Calls, CountAttempt(c) PROVE FALSE
  BY <1>6, CountStep, AttemptsGrow
<1>7. /\ \A d \in Calls : pc'[d] \in {"email", "address"} =>
                    reply'[d] \in {"waiting", "DATABASE_UNAVAILABLE"}
      /\ \A d \in Calls : began'[d] # Absent =>
                    began'[d] <= now' /\ (Waits(d)' => now' <= began'[d] + Timeout)
  BY <1>2, <1>3, <1>4, <1>5, <1>6 DEF Next, TInv, Entries, Waits
<1> QED BY <1>1, <1>7 DEF TInv, Entries

\* Since a row resets at most a Window from now, whoever is let through now is
\* counted with those of the last two windows.
LEMMA LimitedStep ==
    ASSUME TInv, NEW c \in Calls, CountAttempt(c)
    PROVE  Limited'
<1> USE SignInAssumption
<1> SUFFICES ASSUME NEW k \in Keys, NEW t \in Time
             PROVE  Cardinality({y \in Attempts(k)' :
                                   y.ok /\ y.at \in t..(t + Window - Timeout - 1)}) < 2 * Limit(k)
  BY DEF Limited, Limit
<1>1. PICK A : A = Attempts(k)
  OBVIOUS
<1>2. Cardinality({y \in A : y.ok /\ y.at \in t..(t + Window - Timeout - 1)}) < 2 * Limit(k)
  BY <1>1 DEF TInv, Limited
<1>3. CASE k # Key(c)
  BY <1>1, <1>2, <1>3, AttemptsGrow
<1>4. CASE k = Key(c)
  <2>1. PICK x : x = Entry(c)
    OBVIOUS
  <2>2. Attempts(k)' = A \cup {x}
    BY <1>1, <1>4, <2>1, AttemptsGrow
  <2>3. CASE x.ok /\ x.at \in t..(t + Window - Timeout - 1)
    <3>1. PICK s : s = throttle'[k].resets
      OBVIOUS
    <3>2. s \in Nat /\ x.at \in Nat /\ s <= x.at + Window /\ now \in Nat
      BY <1>4, <2>1, <3>1, CountStep, RowStep, ThrottleTypes DEF RowTrue, TInv
    <3>3. /\ IsFiniteSet(A \cup {x}) /\ \A y \in A \cup {x} : y.at \in Nat
      BY <1>1, <3>2, ThrottleTypes, FS_AddElement DEF TInv
    <3>4. \A y \in A \cup {x} : y.at >= t => s + Timeout < y.at + 2 * Window
      BY <2>3, <3>2, <3>3 DEF Time
    <3>5. {y \in A \cup {x} : y.ok /\ y.at \in t..(t + Window - Timeout - 1)}
            \subseteq LetThrough(A \cup {x}, s, 2 * Window)
      BY <3>4 DEF LetThrough
    <3>6. Cardinality(LetThrough(A \cup {x}, s, 2 * Window)) < 2 * Limit(k)
      BY <2>2, <3>1, ThrottledStep DEF Throttled, WindowApart, LetThrough, Limit
    <3>7. IsFiniteSet(LetThrough(A \cup {x}, s, 2 * Window))
      BY <3>3, NoMore DEF LetThrough
    <3>8. Limit(k) \in Nat
      BY ThrottleTypes DEF TInv
    <3> HIDE DEF LetThrough
    <3>9. Cardinality({y \in A \cup {x} : y.ok /\ y.at \in t..(t + Window - Timeout - 1)})
            < 2 * Limit(k)
      <4>1. PICK T : T = {y \in A \cup {x} : y.ok /\ y.at \in t..(t + Window - Timeout - 1)}
        OBVIOUS
      <4>2. PICK S : S = LetThrough(A \cup {x}, s, 2 * Window)
        OBVIOUS
      <4>3. Cardinality(T) \in Nat /\ Cardinality(S) \in Nat /\ Cardinality(T) <= Cardinality(S)
        BY <3>5, <3>7, <4>1, <4>2, NoMore
      <4>4. Cardinality(T) < 2 * Limit(k)
        BY <3>6, <3>8, <4>2, <4>3
      <4> QED BY <4>1, <4>4
    <3> QED BY <2>2, <3>9
  <2>4. CASE ~(x.ok /\ x.at \in t..(t + Window - Timeout - 1))
    <3>1. {y \in A \cup {x} : y.ok /\ y.at \in t..(t + Window - Timeout - 1)}
            = {y \in A : y.ok /\ y.at \in t..(t + Window - Timeout - 1)}
      BY <2>4
    <3> QED BY <1>2, <2>2, <3>1
  <2> QED BY <2>3, <2>4
<1> QED BY <1>3, <1>4

\* An attempt refused now is refused by a row that counts attempts since its
\* window began, and that window was not over when the statement read now().
LEMMA RefusedStep ==
    ASSUME TInv, NEW c \in Calls, CountAttempt(c)
    PROVE  RefusedForCause'
<1> USE SignInAssumption
<1> DEFINE Before(A, x) == {y \in A : y.at <= x.at /\ x.from < y.at + Window}
<1>1. SUFFICES ASSUME NEW k \in Keys, NEW z \in Attempts(k)', ~z.ok, reply'[z.call] = "RATE_LIMITED"
               PROVE  Cardinality(Before(Attempts(k)', z)) > Limit(k)
  BY DEF RefusedForCause, Limit
<1>2. PICK A : A = Attempts(k)
  OBVIOUS
<1>3. PICK x : x = Entry(c)
  OBVIOUS
<1>4. Attempts(k)' \in {A, A \cup {x}} /\ (k # Key(c) => Attempts(k)' = A)
      /\ (k = Key(c) => Attempts(k)' = A \cup {x})
  BY <1>2, <1>3, AttemptsGrow
<1>5. IsFiniteSet(A) /\ IsFiniteSet(A \cup {x}) /\ Limit(k) \in Nat
      /\ \A y \in A : y.at \in Nat /\ y.at <= now /\ y.from \in Nat
  BY <1>2, ThrottleTypes, FS_AddElement DEF TInv
<1>6. PICK B : B = Attempts(k)' /\ IsFiniteSet(B) /\ A \subseteq B
  BY <1>4, <1>5
<1>7. CASE z \in A
  <2>1. z \in counted /\ z.call \in Calls
    BY <1>2, <1>7, ThrottleTypes DEF TInv
  <2>2. reply[z.call] = "RATE_LIMITED"
    <3>1. CASE z.call # c
      BY <1>1, <2>1, <3>1, CountStep DEF TInv, IInv, TypeOK
    <3>2. CASE z.call = c
      BY <1>1, <2>1, <3>2, CountStep DEF TInv, Entries, Waits
    <3> QED BY <3>1, <3>2
  <2>3. Cardinality(Before(A, z)) > Limit(k)
    BY <1>1, <1>2, <1>7, <2>2 DEF TInv, RefusedForCause
  <2>4. Before(A, z) \subseteq Before(B, z)
    BY <1>6
  <2>5. PICK S, T : S = Before(B, z) /\ T = Before(A, z)
    OBVIOUS
  <2>6. IsFiniteSet(S)
    BY <1>6, <2>5, NoMore
  <2> HIDE DEF Before
  <2>7. Cardinality(T) \in Nat /\ Cardinality(S) \in Nat /\ Cardinality(T) <= Cardinality(S)
    BY <2>4, <2>5, <2>6, NoMore
  <2>8. Cardinality(S) > Limit(k)
    BY <1>5, <2>3, <2>5, <2>7
  <2> QED BY <1>6, <2>5, <2>8
<1>8. CASE z \notin A
  <2>1. k = Key(c) /\ z = x /\ B = A \cup {x}
    BY <1>1, <1>4, <1>6, <1>8
  <2>2. PICK r, n : r = throttle'[k].resets /\ n = throttle'[k].attempts
    OBVIOUS
  <2>3. /\ r \in Nat /\ n \in Nat /\ x.from \in Nat /\ x.at \in Nat /\ x.at = now
        /\ (n = 1 \/ x.from < r) /\ n <= Cardinality(Recent(B, r))
    BY <1>3, <1>6, <2>1, <2>2, RowStep DEF RowTrue, Recent
  <2>4. n > Limit(k)
    <3>1. Waits(c) /\ x.call = c
      <4>1. x.call = c /\ reply[c] \in {"waiting", "DATABASE_UNAVAILABLE"}
        BY <1>3, CountStep DEF Entry, TInv, Entries
      <4>2. ~Waits(c) => reply'[c] = reply[c]
        BY CountStep
      <4> QED BY <1>1, <2>1, <4>1, <4>2 DEF Waits
    <3>2. n = Counted(throttle[k], began[c]).attempts
      BY <2>1, <2>2, CountStep DEF TInv, IInv, TypeOK
    <3>3. reply'[c] = "RATE_LIMITED" /\ reply[c] = "waiting"
      BY <1>1, <2>1, <3>1 DEF Waits
    <3> QED BY <2>1, <3>2, <3>3, CountStep
  <2>5. Limit(k) >= 1
    BY ThrottleTypes DEF TInv
  <2>6. x.from < r
    BY <1>5, <2>3, <2>4, <2>5
  <2>7. Recent(B, r) \subseteq Before(B, x)
    BY <1>5, <2>1, <2>3, <2>6 DEF Recent
  <2>8. PICK S, T : S = Before(B, x) /\ T = Recent(B, r)
    OBVIOUS
  <2>9. IsFiniteSet(S)
    BY <1>6, <2>8, NoMore
  <2> HIDE DEF Before
  <2>10. Cardinality(T) \in Nat /\ Cardinality(S) \in Nat /\ Cardinality(T) <= Cardinality(S)
    BY <2>7, <2>8, <2>9, NoMore
  <2>11. Cardinality(S) > Limit(k)
    BY <1>5, <2>3, <2>4, <2>8, <2>10
  <2> QED BY <1>6, <2>1, <2>8, <2>11
<1> QED BY <1>7, <1>8

\* The throttle is inductive: it starts empty, counts, or is left alone.
LEMMA TInvHolds == Spec => []TInv
<1> USE SignInAssumption
<1>1. Init => TInv
  <2> SUFFICES ASSUME Init PROVE TInv
    OBVIOUS
  <2>1. IInv
    BY InitIInv
  <2>2. counted = {} /\ (\A k \in Keys : Attempts(k) = {})
    BY DEF Init, Attempts
  <2>3. Entries
    BY <2>2, FS_EmptySet DEF Init, Entries
  <2>4. ASSUME NEW k \in Keys PROVE Throttled(k)
    <3>1. /\ Attempts(k) = {} /\ throttle[k].resets = 0 /\ throttle[k].attempts = 0 /\ now = 0
          /\ Limit(k) \in Nat /\ Limit(k) >= 1
      BY <2>1, <2>2, <2>3, ThrottleTypes DEF Init
    <3>2. Recent({}, 0) = {} /\ LetThrough({}, 0, Window) = {} /\ LetThrough({}, 0, 2 * Window) = {}
      BY DEF Recent, LetThrough
    <3>3. Cardinality({}) = 0
      BY FS_EmptySet
    <3>4. RowTrue({}, throttle[k])
      BY <3>1, <3>2, <3>3 DEF RowTrue
    <3>5. WindowApart({}, 0, 0, Limit(k))
      <4>1. /\ Cardinality(LetThrough({}, 0, Window)) = 0
            /\ Cardinality(LetThrough({}, 0, 2 * Window)) = 0
        BY <3>2, <3>3, Zenon
      <4>2. 0 < Limit(k) /\ 0 < Limit(k) + 0 /\ 0 < 2 * Limit(k)
        BY <3>1
      <4> QED BY <4>1, <4>2, Zenon DEF WindowApart
    <3> QED BY <3>1, <3>4, <3>5 DEF Throttled
  <2>5. Limited
    <3> SUFFICES ASSUME NEW k \in Keys, NEW t \in Time
                 PROVE  Cardinality({x \in Attempts(k) : x.ok /\ x.at \in t..(t + Window - Timeout - 1)})
                           < 2 * Limit(k)
      BY DEF Limited
    <3>1. {x \in Attempts(k) : x.ok /\ x.at \in t..(t + Window - Timeout - 1)} = {}
      BY <2>2
    <3>2. Limit(k) \in Nat /\ Limit(k) >= 1
      BY <2>1, <2>3, ThrottleTypes
    <3>3. Cardinality({}) = 0
      BY FS_EmptySet
    <3>4. 0 < 2 * Limit(k)
      BY <3>2
    <3> QED BY <3>1, <3>3, <3>4, Zenon
  <2>6. RefusedForCause
    BY <2>2 DEF RefusedForCause
  <2> QED BY <2>1, <2>3, <2>4, <2>5, <2>6 DEF TInv
<1>2. TInv /\ IInv' /\ [Next]_vars => TInv'
  <2> SUFFICES ASSUME TInv, IInv', [Next]_vars PROVE TInv'
    OBVIOUS
  <2>1. ASSUME NEW c \in Calls, CountAttempt(c) PROVE TInv'
    <3>1. \A k \in Keys : Throttled(k)'
      BY <2>1, ThrottledStep
    <3> QED BY <2>1, <3>1, EntriesCount, LimitedStep, RefusedStep DEF TInv
  <2>2. CASE Next /\ UNCHANGED <<counted, throttle>>
    <3>1. \A k \in Keys : Attempts(k)' = Attempts(k) /\ throttle'[k] = throttle[k]
      BY <2>2, AttemptsKept
    <3>2. now \in Nat /\ now' \in Nat /\ now <= now'
      BY <2>2, AttemptsKept DEF TInv, IInv, TypeOK, Time
    <3>3. \A k \in Keys : Throttled(k)'
      BY <3>1, <3>2, ThrottledKept
    <3>4. Limited'
      BY <3>1 DEF TInv, Limited, Limit
    <3>5. RefusedForCause'
      <4>1. \A k \in Keys : \A x \in Attempts(k) : x \in counted
        BY DEF Attempts
      <4> QED BY <2>2, <3>1, <4>1, AttemptsKept DEF TInv, RefusedForCause, Limit
    <3>6. Entries'
      BY <2>2, EntriesKept
    <3> QED BY <3>3, <3>4, <3>5, <3>6 DEF TInv
  <2>3. CASE UNCHANGED vars
    <3>1. \A k \in Keys : Attempts(k)' = Attempts(k)
      BY <2>3 DEF vars, tables, Attempts, Email
    <3>2. Entries'
      BY <2>3 DEF vars, tables, TInv, Entries, Waits
    <3>3. \A k \in Keys : Throttled(k)'
      <4>1. UNCHANGED throttle /\ now' = now /\ now \in Nat
        BY <2>3 DEF vars, tables, TInv, IInv, TypeOK, Time
      <4> QED BY <3>1, <4>1, ThrottledKept
    <3>4. Limited' /\ RefusedForCause'
      BY <2>3, <3>1 DEF vars, tables, TInv, Limited, RefusedForCause, Limit
    <3> QED BY <3>2, <3>3, <3>4 DEF TInv
  <2>4. CASE Next
    <3>1. ASSUME NEW c \in Calls,
                 \/ Arrive(c) \/ TurnAway(c) \/ GiveUp(c) \/ Drop(c)
                 \/ Verify(c) \/ CreateSession(c) \/ Require(c) \/ Revoke(c)
          PROVE  UNCHANGED <<counted, throttle>>
      BY <3>1 DEF Arrive, TurnAway, GiveUp, Drop, Verify, CreateSession, Require, Revoke, tables
    <3>2. ASSUME NEW e \in Emails, CreateAdmin(e) \/ Deactivate(e) PROVE UNCHANGED <<counted, throttle>>
      BY <3>2 DEF CreateAdmin, Deactivate
    <3>3. Tick => UNCHANGED <<counted, throttle>>
      BY DEF Tick, tables
    <3> QED BY <2>1, <2>2, <2>4, <3>1, <3>2, <3>3 DEF Next
  <2> QED BY <2>3, <2>4
<1> QED BY <1>1, <1>2, IInvHolds, PTL DEF Spec

\* Less than two limits of attempts get through in less than a window less the
\* time a statement may wait, for every email and every address.
THEOREM AttemptsLimited == Spec => []Limited
<1>1. TInv => Limited
  BY DEF TInv
<1> QED BY <1>1, TInvHolds, PTL

\* Whoever is told 429 is one of more attempts than the limit, all within the
\* window before.
THEOREM RefusalsHaveCause == Spec => []RefusedForCause
<1>1. TInv => RefusedForCause
  BY DEF TInv
<1> QED BY <1>1, TInvHolds, PTL
=============================================================================
