-------------------------- MODULE LocalLoginProofs --------------------------
(***************************************************************************)
(* Proofs about LocalLogin, for any number of attempts and requests, any   *)
(* lock windows and any timeouts.                                          *)
(*                                                                         *)
(* The ledger is read, decided on and written back by interleaved          *)
(* attempts, so what holds of the row has to hold of every copy an attempt *)
(* carries, and of the copy with one more failure once a comparison has    *)
(* failed: that is LedgerInv.  SessionInv follows an attempt from its      *)
(* audit row to its session, and keeps a session's slot from being opened  *)
(* twice.                                                                  *)
(***************************************************************************)
EXTENDS LocalLogin, TLAPS

Holding == {"verify", "audit", "persist"}

(* A ledger no failure of which is made up: every running lock has its     *)
(* threshold of failures behind it.                                        *)
Earned(ledger) ==
    /\ ledger.count <= wrong
    /\ ledger.hard => ledger.count >= HardLockAt
    /\ ledger.until > now => \E i \in 1..3 : Reached(i, ledger.count)

LedgerInv ==
    /\ Earned(ident.ledger)
    /\ \A a \in Attempts :
          /\ att[a].at \in {"load"} \cup Holding => att[a].now <= now
          /\ att[a].at \in Holding => Earned(att[a].ledger)
          /\ (att[a].at \in {"audit", "persist"} /\ att[a].outcome = "bad_password")
                => att[a].ledger.count + 1 <= wrong

SessionInv ==
    /\ \A a \in Attempts :
          /\ (att[a].at = "persist" /\ att[a].outcome = "ok" /\ att[a].written)
                => a \in audited
          /\ att[a].at = "open" => a \in audited
          /\ session[a].open => a \in audited /\ att[a].at = "over"
    /\ \A s \in refused : session[s].open /\ session[s].revoked

-----------------------------------------------------------------------------
(* Where an attempt is tells what it holds.                                *)
LEMMA AttemptCases ==
    ASSUME NEW x \in Attempt
    PROVE  /\ x.at \in {"idle", "over", "open", "load", "verify", "audit", "persist"}
           /\ x.at = "load" => x \in Loading
           /\ x.at = "verify" => x \in Verifying
           /\ x.at = "audit" => x \in Auditing
           /\ x.at = "persist" => x \in Persisting
           /\ x.at = "idle" => x = Idle
           /\ x.at = "over" => x = Over
           /\ x.at = "open" => x = Opening
  BY DEF Attempt, Idle, Over, Opening, Loading, Verifying, Auditing, Persisting

(* The length of a lock is a number, and 0 below the first threshold.      *)
LEMMA WindowType ==
    ASSUME NEW n \in Nat
    PROVE  /\ LockWindowFor(n) \in Nat
           /\ LockWindowFor(n) > 0 => \E i \in 1..3 : Reached(i, n)
  BY LoginAssumption DEF LockWindowFor, Reached

(* A ledger that is not locked takes one more failure, which is earned if  *)
(* the comparison failed.                                                  *)
LEMMA RecordFailureType ==
    ASSUME NEW ledger \in Ledger, NEW t \in Nat, ~IsLocked(ledger, t)
    PROVE  RecordFailure(ledger, t) \in Ledger
  <1> DEFINE n == ledger.count + 1
  <1>1. /\ ledger.count \in Nat /\ ledger.count < HardLockAt
        /\ ledger.until \in Nat \cup {Never} /\ ledger.hard \in BOOLEAN
    BY LoginAssumption DEF Ledger, IsLocked
  <1>2. n \in 0..HardLockAt
    BY <1>1, LoginAssumption
  <1>3. LockWindowFor(n) \in Nat
    BY <1>2, WindowType
  <1> HIDE DEF n
  <1>4. RecordFailure(ledger, t).until \in Nat \cup {Never}
    BY <1>1, <1>2, <1>3, LoginAssumption DEF RecordFailure, n
  <1> QED
    BY <1>1, <1>2, <1>4 DEF RecordFailure, Ledger, n

(* One more failure earns what the ledger it is recorded in says.          *)
LEMMA RecordFailureEarned ==
    ASSUME NEW ledger \in Ledger, NEW t \in Nat, now \in Nat, wrong \in Nat,
           t <= now, ~IsLocked(ledger, t), Earned(ledger),
           ledger.count + 1 <= wrong
    PROVE  Earned(RecordFailure(ledger, t))
  <1> DEFINE n == ledger.count + 1
             new == RecordFailure(ledger, t)
  <1>1. /\ ledger.count \in Nat /\ ledger.until \in Nat \cup {Never}
        /\ ledger.hard \in BOOLEAN /\ ~ledger.hard
    BY LoginAssumption DEF Ledger, IsLocked
  <1>2. new.count = n /\ n \in Nat /\ (new.hard => n >= HardLockAt)
    BY <1>1, LoginAssumption DEF RecordFailure
  <1>3. LockWindowFor(n) \in Nat
    BY <1>2, WindowType
  <1>4. ASSUME new.until > now  PROVE \E i \in 1..3 : Reached(i, n)
    <2>1. CASE ledger.until > now
      <3>1. PICK i \in 1..3 : Reached(i, ledger.count)
        BY <2>1 DEF Earned
      <3>2. Reached(i, n)
        BY <3>1, <1>1, LoginAssumption DEF Reached
      <3> QED
        BY <3>2
    <2>2. CASE ~(ledger.until > now) /\ n >= HardLockAt
      BY <2>2, <1>2, LoginAssumption DEF Reached
    <2>3. CASE ~(ledger.until > now) /\ ~(n >= HardLockAt)
      <3>1. ~new.hard
        BY <2>3, <1>2
      <3>2. new.until = t + LockWindowFor(n) \/ new.until = ledger.until
        BY <2>3, <1>1 DEF RecordFailure
      <3>3. LockWindowFor(n) > 0
        BY <3>2, <2>3, <1>4, <1>3, <1>1 DEF Never
      <3> QED
        BY <3>3, <1>2, WindowType
    <2> QED
      BY <2>1, <2>2, <2>3
  <1> QED
    BY <1>2, <1>4 DEF Earned

(* A later time and more failed comparisons keep a ledger earned.          *)
LEMMA EarnedGrows ==
    ASSUME NEW ledger \in Ledger, now \in Nat, now' \in Nat, now' >= now,
           wrong \in Nat, wrong' \in Nat, wrong' >= wrong, Earned(ledger)
    PROVE  /\ ledger.count <= wrong'
           /\ ledger.hard => ledger.count >= HardLockAt
           /\ ledger.until > now' => \E i \in 1..3 : Reached(i, ledger.count)
  BY LoginAssumption DEF Earned, Ledger, Never

-----------------------------------------------------------------------------
(* The types are inductive with two facts: a ledger is only counted up     *)
(* when it was not locked, and a request holds a session that was opened.  *)
CountInv ==
    \A a \in Attempts :
        (att[a].at \in {"audit", "persist"} /\ att[a].outcome = "bad_password")
            => ~IsLocked(att[a].ledger, att[a].now)
HeldInv == \A r \in Requests : req[r] # Idle => session[req[r].sid].open
TypeInv == TypeOK /\ CountInv /\ HeldInv

(* The invariant of the types holds initially.                             *)
LEMMA InitType == Init => TypeInv
  <1> SUFFICES ASSUME Init PROVE TypeInv
    OBVIOUS
  <1>1. Clear \in Ledger
    BY LoginAssumption DEF Clear, Ledger
  <1> QED
    BY <1>1, LoginAssumption DEF Init, TypeOK, CountInv, HeldInv, TypeInv, Attempt, Request, Idle, NoSession

(* Every step keeps it, action by action.                                  *)
LEMMA StepType == TypeInv /\ [Next]_vars => TypeInv'
  <1> SUFFICES ASSUME TypeInv, [Next]_vars PROVE TypeInv'
    OBVIOUS
  <1> USE DEF TypeInv
  <1> USE LoginAssumption
  <1>1. CASE Tick
    BY <1>1 DEF Tick, TypeOK, CountInv, HeldInv
  <1>2. ASSUME NEW a \in Attempts, StartAttempt(a) PROVE TypeInv'
    BY <1>2 DEF StartAttempt, TypeOK, CountInv, HeldInv, Attempt, Loading
  <1>3. ASSUME NEW a \in Attempts, LoadRow(a) PROVE TypeInv'
    <2>1. att[a] \in Loading
      BY <1>3, AttemptCases DEF LoadRow, TypeOK
    <2>2. PICK known \in BOOLEAN :
             att' = [att EXCEPT ![a] =
                    [at |-> "verify", now |-> att[a].now, known |-> known,
                     active |-> known /\ ident.active,
                     password |-> known /\ ident.password,
                     ledger |-> IF known THEN ident.ledger ELSE Clear]]
      BY <1>3 DEF LoadRow
    <2>3. (IF known THEN ident.ledger ELSE Clear) \in Ledger
      BY DEF TypeOK, Clear, Ledger
    <2>4. (known /\ ident.active) \in BOOLEAN /\ (known /\ ident.password) \in BOOLEAN
      OBVIOUS
    <2>5. att'[a] \in Verifying /\ att'[a].at = "verify"
      BY <2>1, <2>2, <2>3, <2>4 DEF Verifying, Loading, TypeOK
    <2>6. att' \in [Attempts -> Attempt] /\ \A b \in Attempts \ {a} : att'[b] = att[b]
      BY <2>2, <2>5 DEF TypeOK, Attempt
    <2> QED
      BY <1>3, <2>5, <2>6 DEF LoadRow, TypeOK, CountInv, HeldInv
  <1>4. ASSUME NEW a \in Attempts, VerifyPassword(a) PROVE TypeInv'
    <2>1. att[a] \in Verifying
      BY <1>4, AttemptCases DEF VerifyPassword, TypeOK
    <2>2. PICK o \in Outcomes(a) :
             /\ att' = [att EXCEPT ![a] =
                        [at |-> "audit", now |-> att[a].now, known |-> att[a].known,
                         ledger |-> att[a].ledger, outcome |-> o]]
             /\ wrong' = IF o = "bad_password" THEN wrong + 1 ELSE wrong
      BY <1>4 DEF VerifyPassword
    <2>3. o \in Reason /\ (o = "bad_password" => ~IsLocked(att[a].ledger, att[a].now))
      BY <2>2 DEF Outcomes, Reason
    <2>4. /\ att'[a] \in Auditing /\ att'[a].outcome = o
          /\ att'[a].ledger = att[a].ledger /\ att'[a].now = att[a].now
      BY <2>1, <2>2, <2>3 DEF Verifying, Auditing, TypeOK
    <2>5. att' \in [Attempts -> Attempt] /\ \A b \in Attempts \ {a} : att'[b] = att[b]
      BY <2>2, <2>4 DEF TypeOK, Attempt
    <2>6. wrong' \in Nat
      BY <2>2 DEF TypeOK
    <2> QED
      BY <1>4, <2>3, <2>4, <2>5, <2>6 DEF VerifyPassword, TypeOK, CountInv, HeldInv, IsLocked
  <1>5. ASSUME NEW a \in Attempts, EmitAudit(a) PROVE TypeInv'
    <2>1. att[a] \in Auditing /\ att[a].at = "audit"
      BY <1>5, AttemptCases DEF EmitAudit, TypeOK
    <2>2. PICK written \in BOOLEAN :
             /\ att' = [att EXCEPT ![a] =
                        [at |-> "persist", now |-> att[a].now, known |-> att[a].known,
                         ledger |-> att[a].ledger, outcome |-> att[a].outcome,
                         written |-> written]]
             /\ audited' = IF written /\ att[a].outcome = "ok" THEN audited \cup {a}
                                                               ELSE audited
      BY <1>5 DEF EmitAudit
    <2>3. /\ att'[a] \in Persisting /\ att'[a].outcome = att[a].outcome
          /\ att'[a].ledger = att[a].ledger /\ att'[a].now = att[a].now
      BY <2>1, <2>2 DEF Persisting, Auditing, TypeOK
    <2>4. att' \in [Attempts -> Attempt] /\ \A b \in Attempts \ {a} : att'[b] = att[b]
      BY <2>2, <2>3 DEF TypeOK, Attempt
    <2>5. audited' \subseteq Attempts
      BY <2>2 DEF TypeOK
    <2> QED
      BY <1>5, <2>1, <2>3, <2>4, <2>5 DEF EmitAudit, TypeOK, CountInv, HeldInv, IsLocked
  <1>6. ASSUME NEW a \in Attempts, PersistLedger(a) PROVE TypeInv'
    <2>1. att[a] \in Persisting /\ att[a].at = "persist"
      BY <1>6, AttemptCases DEF PersistLedger, TypeOK
    <2>2. CompleteLogin(a).ledger \in Ledger
      <3>1. att[a].ledger \in Ledger /\ att[a].now \in Nat /\ Clear \in Ledger
        BY <2>1 DEF Persisting, Clear, Ledger
      <3>2. att[a].outcome = "bad_password"
               => RecordFailure(att[a].ledger, att[a].now) \in Ledger
        BY <2>1, <3>1, RecordFailureType DEF CountInv
      <3> QED
        BY <3>1, <3>2 DEF CompleteLogin, LedgerAfterDenial
    <2>3. att' = [att EXCEPT ![a] = IF CompleteLogin(a).ok THEN Opening ELSE Idle]
      BY <1>6 DEF PersistLedger
    <2>4. att' \in [Attempts -> Attempt] /\ \A b \in Attempts \ {a} : att'[b] = att[b]
      BY <2>3 DEF TypeOK, Attempt
    <2>5. att'[a].at \notin {"audit", "persist"}
      BY <2>3 DEF TypeOK, Opening, Idle
    <2>6. ident' \in [active : BOOLEAN, password : BOOLEAN, ledger : Ledger]
      BY <1>6, <2>2 DEF PersistLedger, TypeOK
    <2> QED
      BY <1>6, <2>4, <2>5, <2>6 DEF PersistLedger, TypeOK, CountInv, HeldInv
  <1>7. ASSUME NEW a \in Attempts, OpenSession(a) PROVE TypeInv'
    <2>1. /\ session'[a] \in LocalSession /\ session'[a].open
          /\ \A s \in Attempts \ {a} : session'[s] = session[s]
          /\ session' \in [Attempts -> LocalSession \cup {NoSession}]
      BY <1>7 DEF OpenSession, TypeOK, LocalSession
    <2>2. att' \in [Attempts -> Attempt] /\ CountInv'
      BY <1>7 DEF OpenSession, TypeOK, CountInv, Attempt, Over
    <2>3. HeldInv'
      BY <1>7, <2>1 DEF OpenSession, TypeOK, HeldInv, Request, Idle
    <2> QED
      BY <1>7, <2>1, <2>2, <2>3 DEF OpenSession, TypeOK
  <1>8. ASSUME NEW a \in Attempts, AttemptRaises(a) PROVE TypeInv'
    BY <1>8 DEF AttemptRaises, TypeOK, CountInv, HeldInv, Attempt, Over
  <1>9. ASSUME NEW r \in Requests, NEW s \in Attempts, PresentSession(r, s)
        PROVE  TypeInv'
    BY <1>9 DEF PresentSession, TypeOK, CountInv, HeldInv, Request
  <1>10. ASSUME NEW r \in Requests, LoadIdentity(r) PROVE TypeInv'
    BY <1>10 DEF LoadIdentity, TypeOK, CountInv, HeldInv, Request, Idle
  <1>11. ASSUME NEW r \in Requests, RevokeSession(r) PROVE TypeInv'
    <2>1. req[r].sid \in Attempts /\ req[r].now \in 0..MaxNow /\ session[req[r].sid].open
      BY <1>11 DEF RevokeSession, TypeOK, HeldInv, Request, Idle
    <2>2. session[req[r].sid] \in LocalSession
      BY <2>1 DEF TypeOK, NoSession
    <2>3. /\ session'[req[r].sid] \in LocalSession /\ session'[req[r].sid].open
          /\ \A s \in Attempts \ {req[r].sid} : session'[s] = session[s]
          /\ session' \in [Attempts -> LocalSession \cup {NoSession}]
      BY <1>11, <2>1, <2>2 DEF RevokeSession, TypeOK, LocalSession
    <2>4. req' \in [Requests -> Request] /\ req' = [req EXCEPT ![r] = Idle]
      BY <1>11 DEF RevokeSession, TypeOK, Request
    <2>5. HeldInv'
      BY <2>1, <2>3, <2>4 DEF TypeOK, HeldInv, Request, Idle
    <2> QED
      BY <1>11, <2>1, <2>3, <2>4, <2>5 DEF RevokeSession, TypeOK, CountInv
  <1>12. ASSUME NEW r \in Requests, TouchSession(r) PROVE TypeInv'
    <2>1. req[r].sid \in Attempts /\ req[r].now \in 0..MaxNow /\ session[req[r].sid].open
      BY <1>12 DEF TouchSession, TypeOK, HeldInv, Request, Idle
    <2>2. session[req[r].sid] \in LocalSession
      BY <2>1 DEF TypeOK, NoSession
    <2>3. /\ session'[req[r].sid] \in LocalSession /\ session'[req[r].sid].open
          /\ \A s \in Attempts \ {req[r].sid} : session'[s] = session[s]
          /\ session' \in [Attempts -> LocalSession \cup {NoSession}]
      BY <1>12, <2>1, <2>2 DEF TouchSession, TypeOK, LocalSession
    <2>4. req' \in [Requests -> Request] /\ req' = [req EXCEPT ![r] = Idle]
      BY <1>12 DEF TouchSession, TypeOK, Request
    <2>5. HeldInv'
      BY <2>1, <2>3, <2>4 DEF TypeOK, HeldInv, Request, Idle
    <2> QED
      BY <1>12, <2>1, <2>3, <2>4, <2>5 DEF TouchSession, TypeOK, CountInv
  <1>13. ASSUME NEW r \in Requests, RequestRaises(r) PROVE TypeInv'
    BY <1>13 DEF RequestRaises, TypeOK, CountInv, HeldInv, Request, Idle
  <1>14. CASE Offboard
    BY <1>14 DEF Offboard, TypeOK, CountInv, HeldInv
  <1>15. CASE ProvisionIdentity
    BY <1>15 DEF ProvisionIdentity, TypeOK, CountInv, HeldInv
  <1>16. CASE UNCHANGED vars
    BY <1>16 DEF vars, TypeOK, CountInv, HeldInv
  <1> QED
    BY <1>1, <1>2, <1>3, <1>4, <1>5, <1>6, <1>7, <1>8, <1>9, <1>10, <1>11, <1>12,
       <1>13, <1>14, <1>15, <1>16 DEF Next

(* No password is compared past the hard lock: the count stops there, and  *)
(* every attempt, session and request keeps its shape.                     *)
THEOREM LoginTypeOK == Spec => []TypeOK
  BY InitType, StepType, PTL DEF Spec, TypeInv

-----------------------------------------------------------------------------
(* The empty ledger is earned.                                             *)
LEMMA ClearEarned == wrong \in Nat /\ now \in Nat => Earned(Clear)
  BY LoginAssumption DEF Earned, Clear, Never

(* An attempt that is left alone keeps its part of LedgerInv.              *)
LEMMA OthersKeep ==
    ASSUME TypeOK, TypeOK', LedgerInv, now' >= now, wrong' >= wrong,
           NEW b \in Attempts, att'[b] = att[b]
    PROVE  /\ att'[b].at \in {"load"} \cup Holding => att'[b].now <= now'
           /\ att'[b].at \in Holding => Earned(att[b].ledger)'
           /\ (att'[b].at \in {"audit", "persist"} /\ att'[b].outcome = "bad_password")
                => att'[b].ledger.count + 1 <= wrong'
  <1>1. now \in Nat /\ now' \in Nat /\ wrong \in Nat /\ wrong' \in Nat
    BY LoginAssumption DEF TypeOK
  <1>2. att[b].at \in {"load"} \cup Holding => att[b].now \in Nat
    BY AttemptCases DEF TypeOK, Holding, Loading, Verifying, Auditing, Persisting
  <1>3. att[b].at \in Holding => att[b].ledger \in Ledger
    BY AttemptCases DEF TypeOK, Holding, Verifying, Auditing, Persisting
  <1>4. att[b].at \in Holding => Earned(att[b].ledger)'
    <2> SUFFICES ASSUME att[b].at \in Holding PROVE Earned(att[b].ledger)'
      OBVIOUS
    <2>1. Earned(att[b].ledger)
      BY DEF LedgerInv
    <2> QED
      BY <1>3, <2>1, <1>1, EarnedGrows DEF Earned, Reached
  <1>5. att[b].at \in {"audit", "persist"} => att[b].ledger.count \in Nat
    BY <1>3, LoginAssumption DEF Holding, Ledger
  <1> QED
    BY <1>1, <1>2, <1>4, <1>5 DEF LedgerInv
(* The row keeps its part when the ledger is not written.                  *)
LEMMA RowKeeps ==
    ASSUME TypeOK, TypeOK', LedgerInv, now' >= now, wrong' >= wrong,
           ident'.ledger = ident.ledger
    PROVE  Earned(ident.ledger)'
  <1>1. /\ now \in Nat /\ now' \in Nat /\ wrong \in Nat /\ wrong' \in Nat
        /\ ident.ledger \in Ledger
    BY LoginAssumption DEF TypeOK
  <1>2. Earned(ident.ledger)
    BY DEF LedgerInv
  <1> QED
    BY <1>1, <1>2, EarnedGrows DEF Earned, Reached

(* The first ledger counts nothing.                                        *)
LEMMA InitLedger == Init => LedgerInv
  <1> SUFFICES ASSUME Init PROVE LedgerInv
    OBVIOUS
  <1>1. Earned(ident.ledger)
    BY ClearEarned DEF Init
  <1> QED
    BY <1>1 DEF Init, LedgerInv, Idle, Holding

(* Every step keeps every copy of the ledger earned.                       *)
LEMMA StepLedger == TypeInv /\ TypeInv' /\ LedgerInv /\ [Next]_vars => LedgerInv'
  <1> SUFFICES ASSUME TypeInv, TypeInv', LedgerInv, [Next]_vars PROVE LedgerInv'
    OBVIOUS
  <1>n. now \in Nat /\ now' \in Nat /\ wrong \in Nat /\ wrong' \in Nat
    BY LoginAssumption DEF TypeInv, TypeOK
  <1>t. TypeOK /\ TypeOK'
    BY DEF TypeInv
  (* The steps that leave the attempts and the ledger alone.               *)
  <1>1. ASSUME att' = att, ident'.ledger = ident.ledger, wrong' = wrong, now' >= now
        PROVE  LedgerInv'
    <2>1. Earned(ident.ledger)'
      BY <1>1, <1>n, <1>t, RowKeeps
    <2>2. ASSUME NEW b \in Attempts
          PROVE  /\ att'[b].at \in {"load"} \cup Holding => att'[b].now <= now'
                 /\ att'[b].at \in Holding => Earned(att[b].ledger)'
                 /\ (att'[b].at \in {"audit", "persist"} /\ att'[b].outcome = "bad_password")
                      => att'[b].ledger.count + 1 <= wrong'
      BY <1>1, <1>n, <1>t, OthersKeep
    <2> QED
      BY <2>1, <2>2 DEF LedgerInv
  (* The steps of one attempt: what they leave of the row, and of it.      *)
  <1>2. ASSUME NEW a \in Attempts, wrong' >= wrong, now' = now,
               Earned(ident.ledger)',
               \A b \in Attempts \ {a} : att'[b] = att[b],
               att'[a].at \in {"load"} \cup Holding => att'[a].now <= now',
               att'[a].at \in Holding => Earned(att[a].ledger)',
               (att'[a].at \in {"audit", "persist"} /\ att'[a].outcome = "bad_password")
                  => att'[a].ledger.count + 1 <= wrong'
        PROVE  LedgerInv'
    <2>2. ASSUME NEW b \in Attempts
          PROVE  /\ att'[b].at \in {"load"} \cup Holding => att'[b].now <= now'
                 /\ att'[b].at \in Holding => Earned(att[b].ledger)'
                 /\ (att'[b].at \in {"audit", "persist"} /\ att'[b].outcome = "bad_password")
                      => att'[b].ledger.count + 1 <= wrong'
      <3>1. CASE b = a
        BY <1>2, <3>1
      <3>2. CASE b # a
        BY <1>2, <1>n, <1>t, <3>2, OthersKeep
      <3> QED
        BY <3>1, <3>2
    <2> QED
      BY <1>2, <2>2 DEF LedgerInv
  <1>3. CASE Tick
    BY <1>1, <1>3, <1>n DEF Tick
  <1>4. ASSUME NEW a \in Attempts, StartAttempt(a) PROVE LedgerInv'
    <2>1. /\ att'[a].at = "load" /\ att'[a].now = now
          /\ \A b \in Attempts \ {a} : att'[b] = att[b]
          /\ now' = now /\ wrong' = wrong /\ ident' = ident
      BY <1>4, <1>t DEF StartAttempt, TypeOK
    <2>2. Earned(ident.ledger)'
      BY <2>1, <1>n, <1>t, RowKeeps
    <2>3. att'[a].at \notin Holding /\ att'[a].at \notin {"audit", "persist"}
      BY <2>1 DEF Holding
    <2> QED
      BY <1>2, <1>n, <2>1, <2>2, <2>3
  <1>5. ASSUME NEW a \in Attempts, LoadRow(a) PROVE LedgerInv'
    <2>1. PICK known \in BOOLEAN :
             att' = [att EXCEPT ![a] =
                    [at |-> "verify", now |-> att[a].now, known |-> known,
                     active |-> known /\ ident.active,
                     password |-> known /\ ident.password,
                     ledger |-> IF known THEN ident.ledger ELSE Clear]]
      BY <1>5 DEF LoadRow
    <2>2. /\ att'[a].at = "verify" /\ att'[a].now = att[a].now
          /\ att'[a].ledger = IF known THEN ident.ledger ELSE Clear
          /\ \A b \in Attempts \ {a} : att'[b] = att[b]
      BY <2>1, <1>t DEF TypeOK
    <2>3. now' = now /\ wrong' = wrong /\ ident' = ident /\ att[a].at = "load"
      BY <1>5 DEF LoadRow
    <2>4. Earned(ident.ledger)'
      BY <2>3, <1>n, <1>t, RowKeeps
    <2>5. att'[a].now <= now'
      BY <2>2, <2>3 DEF LedgerInv
    <2>6. Earned(att[a].ledger)'
      <3>1. CASE known
        BY <3>1, <2>2, <2>3, <2>4 DEF Earned
      <3>2. CASE ~known
        BY <3>2, <2>2, <2>3, <1>n, ClearEarned DEF Earned, Clear
      <3> QED
        BY <3>1, <3>2
    <2> QED
      BY <1>2, <1>n, <2>2, <2>3, <2>4, <2>5, <2>6
  <1>6. ASSUME NEW a \in Attempts, VerifyPassword(a) PROVE LedgerInv'
    <2>1. PICK o \in Outcomes(a) :
             /\ att' = [att EXCEPT ![a] =
                        [at |-> "audit", now |-> att[a].now, known |-> att[a].known,
                         ledger |-> att[a].ledger, outcome |-> o]]
             /\ wrong' = IF o = "bad_password" THEN wrong + 1 ELSE wrong
      BY <1>6 DEF VerifyPassword
    <2>2. /\ att'[a].at = "audit" /\ att'[a].now = att[a].now
          /\ att'[a].ledger = att[a].ledger /\ att'[a].outcome = o
          /\ \A b \in Attempts \ {a} : att'[b] = att[b]
      BY <2>1, <1>t DEF TypeOK
    <2>3. now' = now /\ wrong' >= wrong /\ ident' = ident /\ att[a].at = "verify"
      BY <1>6, <2>1, <1>n DEF VerifyPassword
    <2>4. Earned(ident.ledger)'
      BY <2>3, <1>n, <1>t, RowKeeps
    <2>5. /\ att[a].ledger \in Ledger
          /\ Earned(att[a].ledger) /\ att[a].now <= now
      BY <2>3, <1>t, AttemptCases DEF LedgerInv, Holding, TypeOK, Verifying
    <2>6. Earned(att[a].ledger)'
      BY <2>2, <2>3, <2>5, <1>n, EarnedGrows DEF Earned, Reached
    <2>7. o = "bad_password" => att[a].ledger.count + 1 <= wrong'
      BY <2>1, <2>5, <1>n, LoginAssumption DEF Earned, Ledger
    <2> QED
      BY <1>2, <1>n, <2>2, <2>3, <2>4, <2>5, <2>6, <2>7
  <1>7. ASSUME NEW a \in Attempts, EmitAudit(a) PROVE LedgerInv'
    <2>1. PICK written \in BOOLEAN :
             att' = [att EXCEPT ![a] =
                        [at |-> "persist", now |-> att[a].now, known |-> att[a].known,
                         ledger |-> att[a].ledger, outcome |-> att[a].outcome,
                         written |-> written]]
      BY <1>7 DEF EmitAudit
    <2>2. /\ att'[a].at = "persist" /\ att'[a].now = att[a].now
          /\ att'[a].ledger = att[a].ledger /\ att'[a].outcome = att[a].outcome
          /\ \A b \in Attempts \ {a} : att'[b] = att[b]
      BY <2>1, <1>t DEF TypeOK
    <2>3. now' = now /\ wrong' = wrong /\ ident' = ident /\ att[a].at = "audit"
      BY <1>7 DEF EmitAudit
    <2>4. Earned(ident.ledger)'
      BY <2>3, <1>n, <1>t, RowKeeps
    <2>5. Earned(att[a].ledger) /\ att[a].now <= now
      BY <2>3 DEF LedgerInv, Holding
    <2>6. Earned(att[a].ledger)'
      BY <2>2, <2>3, <2>5 DEF Earned
    <2>7. att[a].outcome = "bad_password" => att[a].ledger.count + 1 <= wrong
      BY <2>3 DEF LedgerInv
    <2> QED
      BY <1>2, <1>n, <2>2, <2>3, <2>4, <2>5, <2>6, <2>7
  <1>8. ASSUME NEW a \in Attempts, PersistLedger(a) PROVE LedgerInv'
    <2>1. /\ att[a] \in Persisting /\ att[a].at = "persist"
          /\ now' = now /\ wrong' = wrong
      BY <1>8, <1>t, AttemptCases DEF PersistLedger, TypeOK
    <2>2. Earned(att[a].ledger) /\ att[a].now <= now
      BY <2>1 DEF LedgerInv, Holding
    <2>3. Earned(CompleteLogin(a).ledger)
      <3>1. Earned(Clear)
        BY <1>n, ClearEarned
      <3>2. ASSUME att[a].outcome = "bad_password"
            PROVE  Earned(RecordFailure(att[a].ledger, att[a].now))
        <4>1. att[a].ledger \in Ledger /\ att[a].now \in Nat
          BY <2>1, LoginAssumption DEF Persisting
        <4>2. ~IsLocked(att[a].ledger, att[a].now)
          BY <2>1, <3>2 DEF TypeInv, CountInv
        <4>3. att[a].ledger.count + 1 <= wrong
          BY <2>1, <3>2 DEF LedgerInv
        <4> QED
          BY <4>1, <4>2, <4>3, <2>2, <1>n, RecordFailureEarned
      <3> QED
        BY <2>2, <3>1, <3>2 DEF CompleteLogin, LedgerAfterDenial
    <2>4. Earned(ident.ledger)'
      <3>1. \/ ident'.ledger = ident.ledger
            \/ ident'.ledger = CompleteLogin(a).ledger
        BY <1>8, <1>t DEF PersistLedger, TypeOK
      <3>2. CASE ident'.ledger = ident.ledger
        BY <3>2, <2>1, <1>n, <1>t, RowKeeps
      <3>3. CASE ident'.ledger = CompleteLogin(a).ledger
        BY <3>3, <2>1, <2>3 DEF Earned
      <3> QED
        BY <3>1, <3>2, <3>3
    <2>5. /\ att'[a].at \in {"open", "idle"}
          /\ \A b \in Attempts \ {a} : att'[b] = att[b]
      BY <1>8, <1>t DEF PersistLedger, TypeOK, Opening, Idle
    <2>6. att'[a].at \notin {"load"} \cup Holding
      BY <2>5 DEF Holding
    <2> QED
      BY <1>2, <1>n, <2>1, <2>4, <2>5, <2>6 DEF Holding
  <1>9. ASSUME NEW a \in Attempts, OpenSession(a) \/ AttemptRaises(a) PROVE LedgerInv'
    <2>1. /\ att'[a].at = "over" /\ \A b \in Attempts \ {a} : att'[b] = att[b]
          /\ now' = now /\ wrong' = wrong /\ ident' = ident
      BY <1>9, <1>t DEF OpenSession, AttemptRaises, TypeOK, Over
    <2>2. Earned(ident.ledger)'
      BY <2>1, <1>n, <1>t, RowKeeps
    <2>3. att'[a].at \notin {"load"} \cup Holding
      BY <2>1 DEF Holding
    <2> QED
      BY <1>2, <1>n, <2>1, <2>2, <2>3 DEF Holding
  <1>10. ASSUME NEW r \in Requests,
                \/ \E s \in Attempts : PresentSession(r, s)
                \/ LoadIdentity(r) \/ RevokeSession(r) \/ TouchSession(r)
                \/ RequestRaises(r)
         PROVE  LedgerInv'
    BY <1>1, <1>10, <1>n DEF PresentSession, LoadIdentity, RevokeSession, TouchSession,
       RequestRaises
  <1>11. CASE Offboard \/ ProvisionIdentity
    <2>1. ident'.ledger = ident.ledger
      BY <1>11, <1>t DEF Offboard, ProvisionIdentity, TypeOK
    <2>2. att' = att /\ wrong' = wrong /\ now' >= now
      BY <1>11, <1>n DEF Offboard, ProvisionIdentity
    <2> QED
      BY <1>1, <2>1, <2>2
  <1>12. CASE UNCHANGED vars
    BY <1>1, <1>12, <1>n DEF vars
  <1> QED
    BY <1>3, <1>4, <1>5, <1>6, <1>7, <1>8, <1>9, <1>10, <1>11, <1>12 DEF Next

(* "The ledger advances only when a password was actually compared.":      *)
(* whatever attempts interleave, a lock has its failures behind it.        *)
THEOREM LoginLockIsEarned == Spec => []LockIsEarned
  <1>1. TypeOK /\ LedgerInv => LockIsEarned
    <2> SUFFICES ASSUME TypeOK, LedgerInv PROVE LockIsEarned
      OBVIOUS
    <2>1. /\ ident.ledger.count \in Nat /\ wrong \in Nat
          /\ Earned(ident.ledger)
      BY LoginAssumption DEF TypeOK, Ledger, LedgerInv
    <2> QED
      BY <2>1, LoginAssumption DEF Earned, LockIsEarned, Reached
  <1> QED
    BY <1>1, InitType, StepType, InitLedger, StepLedger, PTL DEF Spec, TypeInv

-----------------------------------------------------------------------------
(* There is no session initially.                                          *)
LEMMA InitSession == Init => SessionInv
  BY DEF Init, SessionInv, Idle, NoSession

(* Every step keeps what is known of attempts and sessions.                *)
LEMMA StepSession == TypeInv /\ SessionInv /\ [Next]_vars => SessionInv'
  <1> SUFFICES ASSUME TypeInv, SessionInv, [Next]_vars PROVE SessionInv'
    OBVIOUS
  <1>t. TypeOK /\ HeldInv
    BY DEF TypeInv
  (* The steps of one attempt before it opens its session.                 *)
  <1>1. ASSUME NEW a \in Attempts, session' = session, refused' = refused,
               audited \subseteq audited', att[a].at # "over",
               \A b \in Attempts \ {a} : att'[b] = att[b],
               (att'[a].at = "persist" /\ att'[a].outcome = "ok" /\ att'[a].written)
                  => a \in audited',
               att'[a].at = "open" => a \in audited'
        PROVE  SessionInv'
    BY <1>1 DEF SessionInv
  <1>2. CASE Tick
    BY <1>2 DEF Tick, SessionInv
  <1>3. ASSUME NEW a \in Attempts, StartAttempt(a) \/ LoadRow(a) \/ VerifyPassword(a)
        PROVE  SessionInv'
    <2>1. /\ att'[a].at \in {"load", "verify", "audit"} /\ att[a].at # "over"
          /\ \A b \in Attempts \ {a} : att'[b] = att[b]
      BY <1>3, <1>t DEF StartAttempt, LoadRow, VerifyPassword, TypeOK, Idle
    <2>2. session' = session /\ refused' = refused /\ audited' = audited
      BY <1>3 DEF StartAttempt, LoadRow, VerifyPassword
    <2> QED
      BY <1>1, <2>1, <2>2
  <1>4. ASSUME NEW a \in Attempts, EmitAudit(a) PROVE SessionInv'
    <2>1. PICK written \in BOOLEAN :
             /\ att' = [att EXCEPT ![a] =
                        [at |-> "persist", now |-> att[a].now, known |-> att[a].known,
                         ledger |-> att[a].ledger, outcome |-> att[a].outcome,
                         written |-> written]]
             /\ audited' = IF written /\ att[a].outcome = "ok" THEN audited \cup {a}
                                                               ELSE audited
      BY <1>4 DEF EmitAudit
    <2>2. /\ att'[a].at = "persist" /\ att'[a].outcome = att[a].outcome
          /\ att'[a].written = written
          /\ \A b \in Attempts \ {a} : att'[b] = att[b]
      BY <2>1, <1>t DEF TypeOK
    <2>3. session' = session /\ refused' = refused /\ att[a].at # "over"
      BY <1>4 DEF EmitAudit
    <2> QED
      BY <1>1, <2>1, <2>2, <2>3
  <1>5. ASSUME NEW a \in Attempts, PersistLedger(a) PROVE SessionInv'
    <2>1. /\ att' = [att EXCEPT ![a] = IF CompleteLogin(a).ok THEN Opening ELSE Idle]
          /\ att[a].at = "persist"
          /\ session' = session /\ refused' = refused /\ audited' = audited
      BY <1>5 DEF PersistLedger
    <2>2. CompleteLogin(a).ok => att[a].outcome = "ok" /\ att[a].written
      <3>1. att[a].written \in BOOLEAN
        BY <2>1, <1>t, AttemptCases DEF TypeOK, Persisting
      <3> QED
        BY <3>1 DEF CompleteLogin
    <2>3. /\ att'[a] = IF CompleteLogin(a).ok THEN Opening ELSE Idle
          /\ \A b \in Attempts \ {a} : att'[b] = att[b]
      BY <2>1, <1>t DEF TypeOK
    <2>4. att'[a].at \in {"open", "idle"} /\ (att'[a].at = "open" => CompleteLogin(a).ok)
      BY <2>3 DEF Opening, Idle
    <2>5. att'[a].at = "open" => a \in audited'
      BY <2>1, <2>2, <2>4 DEF SessionInv
    <2> QED
      BY <1>1, <2>1, <2>3, <2>4, <2>5
  <1>6. ASSUME NEW a \in Attempts, OpenSession(a) PROVE SessionInv'
    <2>1. /\ att[a].at = "open" /\ att'[a].at = "over"
          /\ \A b \in Attempts \ {a} : att'[b] = att[b] /\ session'[b] = session[b]
          /\ audited' = audited /\ refused' = refused
      BY <1>6, <1>t DEF OpenSession, TypeOK, Over
    <2>2. a \in audited /\ ~session[a].open
      BY <2>1 DEF SessionInv
    <2>3. a \notin refused
      BY <2>2 DEF SessionInv
    <2> QED
      BY <2>1, <2>2, <2>3, <1>t DEF SessionInv, TypeOK
  <1>7. ASSUME NEW a \in Attempts, AttemptRaises(a) PROVE SessionInv'
    <2>1. /\ att'[a].at = "over" /\ att[a].at # "over"
          /\ \A b \in Attempts \ {a} : att'[b] = att[b]
      BY <1>7, <1>t DEF AttemptRaises, TypeOK, Over
    <2>2. session' = session /\ refused' = refused /\ audited' = audited
      BY <1>7 DEF AttemptRaises
    <2> QED
      BY <1>1, <2>1, <2>2
  <1>8. ASSUME NEW r \in Requests,
               \/ \E s \in Attempts : PresentSession(r, s)
               \/ LoadIdentity(r) \/ RequestRaises(r)
        PROVE  SessionInv'
    BY <1>8 DEF PresentSession, LoadIdentity, RequestRaises, SessionInv
  <1>9. ASSUME NEW r \in Requests, RevokeSession(r) PROVE SessionInv'
    <2>1. /\ req[r].sid \in Attempts /\ session[req[r].sid].open
          /\ session[req[r].sid] \in LocalSession
      BY <1>9, <1>t DEF RevokeSession, TypeOK, HeldInv, Request, Idle, NoSession
    <2>2. /\ session'[req[r].sid].open /\ session'[req[r].sid].revoked
          /\ \A s \in Attempts \ {req[r].sid} : session'[s] = session[s]
      BY <1>9, <2>1, <1>t DEF RevokeSession, TypeOK, LocalSession
    <2>3. att' = att /\ audited' = audited /\ refused' = refused \cup {req[r].sid}
      BY <1>9 DEF RevokeSession
    <2> QED
      BY <2>1, <2>2, <2>3, <1>t DEF SessionInv, TypeOK
  <1>10. ASSUME NEW r \in Requests, TouchSession(r) PROVE SessionInv'
    <2>1. /\ req[r].sid \in Attempts /\ session[req[r].sid].open
          /\ session[req[r].sid] \in LocalSession
      BY <1>10, <1>t DEF TouchSession, TypeOK, HeldInv, Request, Idle, NoSession
    <2>2. /\ session'[req[r].sid].open
          /\ session'[req[r].sid].revoked = session[req[r].sid].revoked
          /\ \A s \in Attempts \ {req[r].sid} : session'[s] = session[s]
      BY <1>10, <2>1, <1>t DEF TouchSession, TypeOK, LocalSession
    <2>3. att' = att /\ audited' = audited /\ refused' = refused
      BY <1>10 DEF TouchSession
    <2> QED
      BY <2>1, <2>2, <2>3, <1>t DEF SessionInv, TypeOK
  <1>11. CASE Offboard \/ ProvisionIdentity
    BY <1>11 DEF Offboard, ProvisionIdentity, SessionInv
  <1>12. CASE UNCHANGED vars
    BY <1>12 DEF vars, SessionInv
  <1> QED
    BY <1>2, <1>3, <1>4, <1>5, <1>6, <1>7, <1>8, <1>9, <1>10, <1>11, <1>12 DEF Next

(* "An authentication that could not be audited did not happen.": no       *)
(* session is opened by _login_local without its audit row.                *)
THEOREM LoginSessionIsAudited == Spec => []SessionIsAudited
  <1>1. SessionInv => SessionIsAudited
    BY DEF SessionInv, SessionIsAudited
  <1> QED
    BY <1>1, InitType, StepType, InitSession, StepSession, PTL DEF Spec

(* A session _decode_session refused for its identity stays revoked,       *)
(* although requests that read the row earlier still write to it.          *)
THEOREM LoginRefusedStaysDead == Spec => []RefusedStaysDead
  <1>1. SessionInv => RefusedStaysDead
    BY DEF SessionInv, RefusedStaysDead
  <1> QED
    BY <1>1, InitType, StepType, InitSession, StepSession, PTL DEF Spec
=============================================================================
