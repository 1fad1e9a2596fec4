----------------------------- MODULE LocalLogin -----------------------------
(***************************************************************************)
(* The standalone identity: login attempts on ONE LocalIdentity, whose     *)
(* failure ledger every attempt reads, decides on and writes back in       *)
(* separate statements (admin/auth/api._login_local over the pure rules of *)
(* services/common/identity), the LocalSession rows they open, and the     *)
(* requests that present those sessions (admin/common/auth._decode_session)*)
(* while an operator disables and provisions the identity.                 *)
(*                                                                         *)
(* One of the two pairs of session windows is modelled: a session keeps    *)
(* the pair it was opened with.  A statement that raises changed nothing.  *)
(***************************************************************************)
EXTENDS Integers

CONSTANTS
    Attempts,           \* login requests
    Requests,           \* requests that present a session
    LockWindows,        \* _LOCK_WINDOWS: three pairs of a number of failures
                        \* and the length of the lock from there on
    MaxSoftWindow,      \* MAX_SOFT_WINDOW
    HardLockAt,         \* HARD_LOCK_AT_FAILURES
    IdleTimeout,
    AbsoluteTimeout,
    LastLogin,          \* bound: no attempt starts or ends later
    MaxWrong,           \* bound: no attempt starts after so many failures
    MaxNow              \* bound: the clock

ASSUME LoginAssumption ==
    /\ LockWindows \in [1..3 -> (Nat \ {0}) \X Nat]
    /\ MaxSoftWindow \in Nat
    /\ HardLockAt \in Nat \ {0}
    /\ LockWindows[1][1] <= HardLockAt
    /\ IdleTimeout \in Nat
    /\ AbsoluteTimeout \in Nat
    /\ LastLogin \in Nat
    /\ MaxWrong \in Nat
    /\ MaxNow \in Nat

VARIABLES
    now,        \* timezone.now()
    ident,      \* the LocalIdentity row: is_active, whether it has a
                \* password, and the ledger
    att,        \* per attempt: where it is and what it holds
    audited,    \* AuditLog: attempts with an auth.login_succeeded row
    session,    \* per attempt, the LocalSession row it opened
    req         \* per request: where it is, its session and the time
VARIABLES
    wrong,      \* comparisons of a password that failed (history)
    refused     \* sessions a request refused because the identity was not
                \* active (history)

vars == <<now, ident, att, audited, session, req, wrong, refused>>

Never == -1             \* locked_until is NULL
Ledger == [count : 0..HardLockAt, until : Nat \cup {Never}, hard : BOOLEAN]
Clear == [count |-> 0, until |-> Never, hard |-> FALSE]
Reason == {"ok", "locked", "unknown_or_disabled", "no_credential", "bad_password"}
NoSession == [open |-> FALSE]
Idle == [at |-> "idle"]
Over == [at |-> "over"]
Loading == [at : {"load"}, now : 0..MaxNow]
Verifying == [at : {"verify"}, now : 0..MaxNow, known : BOOLEAN, active : BOOLEAN,
              password : BOOLEAN, ledger : Ledger]
Auditing == [at : {"audit"}, now : 0..MaxNow, known : BOOLEAN, ledger : Ledger,
             outcome : Reason]
Persisting == [at : {"persist"}, now : 0..MaxNow, known : BOOLEAN, ledger : Ledger,
               outcome : Reason, written : BOOLEAN]
Opening == [at |-> "open"]
Attempt == {Idle, Over, Opening} \cup Loading \cup Verifying \cup Auditing
                                 \cup Persisting
LocalSession ==
    [open : {TRUE}, created : 0..MaxNow, seen : 0..MaxNow, revoked : BOOLEAN]
Request ==
    {Idle} \cup [at : {"identity", "touch", "revoke"}, sid : Attempts,
                 now : 0..MaxNow]

-----------------------------------------------------------------------------
(* services/common/identity: the pure rules.                               *)

(* The window of the last threshold that the count has reached.            *)
Reached(i, n) == n >= LockWindows[i][1]
LockWindowFor(n) ==
    IF Reached(3, n) THEN LockWindows[3][2]
    ELSE IF Reached(2, n) THEN LockWindows[2][2]
    ELSE IF Reached(1, n) THEN LockWindows[1][2] ELSE 0

(* Mutant: only the timer locks.                                            *)
IsLockedByTimer(ledger, t) == ledger.until # Never /\ ledger.until > t

IsLocked(ledger, t) ==
    \/ ledger.hard
    \/ ledger.count >= HardLockAt
    \/ ledger.until # Never /\ ledger.until > t

RecordFailure(ledger, t) ==
    LET n == ledger.count + 1
        implied == t + LockWindowFor(n)
        hard == ledger.hard \/ n >= HardLockAt
    IN  [count |-> n,
         hard  |-> hard,
         until |-> IF hard
                   THEN IF ledger.until # Never THEN ledger.until
                                                ELSE t + MaxSoftWindow
                   ELSE IF ledger.until > implied THEN ledger.until ELSE implied]

(* decide_authentication, and the password comparison it rests on.         *)
Outcomes(a) ==
    IF IsLocked(att[a].ledger, att[a].now) THEN {"locked"}
    ELSE IF ~att[a].active THEN {"unknown_or_disabled"}
    ELSE IF ~att[a].password THEN {"no_credential"}
    ELSE {"ok", "bad_password"}

(* Mutant: counts every denial, as if a secret had been compared.           *)
LedgerAfterDenialAny(a) == RecordFailure(att[a].ledger, att[a].now)

LedgerAfterDenial(a) ==
    IF att[a].outcome = "bad_password" THEN RecordFailure(att[a].ledger, att[a].now)
                                       ELSE att[a].ledger

(* Mutant: a right password is enough.                                     *)
CompleteLoginUnaudited(a) ==
    IF att[a].outcome # "ok" THEN [ok |-> FALSE, ledger |-> LedgerAfterDenial(a)]
                             ELSE [ok |-> TRUE, ledger |-> Clear]

(* complete_login: whether the attempt succeeds, and the ledger it leaves. *)
CompleteLogin(a) ==
    IF att[a].outcome # "ok"    THEN [ok |-> FALSE, ledger |-> LedgerAfterDenial(a)]
    ELSE IF ~att[a].written     THEN [ok |-> FALSE, ledger |-> att[a].ledger]
                                ELSE [ok |-> TRUE, ledger |-> Clear]

(* Mutant: both windows start when the session was last used.              *)
SessionDecisionSliding(s, t) ==
    ~s.revoked /\ t - s.seen <= IdleTimeout /\ t - s.seen <= AbsoluteTimeout

(* session_decision                                                        *)
SessionDecision(s, t) ==
    /\ ~s.revoked
    /\ t - s.seen <= IdleTimeout
    /\ t - s.created <= AbsoluteTimeout

-----------------------------------------------------------------------------
Init ==
    /\ now = 0
    /\ \E password \in BOOLEAN :
          ident = [active |-> TRUE, password |-> password, ledger |-> Clear]
    /\ att = [a \in Attempts |-> Idle]
    /\ audited = {}
    /\ session = [a \in Attempts |-> NoSession]
    /\ req = [r \in Requests |-> Idle]
    /\ wrong = 0
    /\ refused = {}

Tick ==
    /\ now < MaxNow
    /\ now' = now + 1
    /\ UNCHANGED <<ident, att, audited, session, req, wrong, refused>>

(* An attempt takes the time before it loads the row.                      *)
StartAttempt(a) ==
    /\ att[a] = Idle
    /\ now <= LastLogin
    /\ wrong < MaxWrong
    /\ att' = [att EXCEPT ![a] = [at |-> "load", now |-> now]]
    /\ UNCHANGED <<now, ident, audited, session, req, wrong, refused>>

(* The row, or none for an unknown name.                                   *)
LoadRow(a) ==
    /\ att[a].at = "load"
    /\ \E known \in BOOLEAN :
          att' = [att EXCEPT ![a] =
                    [at |-> "verify", now |-> att[a].now, known |-> known,
                     active |-> known /\ ident.active,
                     password |-> known /\ ident.password,
                     ledger |-> IF known THEN ident.ledger ELSE Clear]]
    /\ UNCHANGED <<now, ident, audited, session, req, wrong, refused>>

VerifyPassword(a) ==
    /\ att[a].at = "verify"
    /\ \E o \in Outcomes(a) :
          /\ att' = [att EXCEPT ![a] =
                        [at |-> "audit", now |-> att[a].now, known |-> att[a].known,
                         ledger |-> att[a].ledger, outcome |-> o]]
          /\ wrong' = IF o = "bad_password" THEN wrong + 1 ELSE wrong
    /\ UNCHANGED <<now, ident, audited, session, req, refused>>

(* _emit_auth_audit answers whether the row was written.                   *)
EmitAudit(a) ==
    /\ att[a].at = "audit"
    /\ \E written \in BOOLEAN :
          /\ att' = [att EXCEPT ![a] =
                        [at |-> "persist", now |-> att[a].now, known |-> att[a].known,
                         ledger |-> att[a].ledger, outcome |-> att[a].outcome,
                         written |-> written]]
          /\ audited' = IF written /\ att[a].outcome = "ok" THEN audited \cup {a}
                                                            ELSE audited
    /\ UNCHANGED <<now, ident, session, req, wrong, refused>>

PersistLedger(a) ==
    /\ att[a].at = "persist"
    /\ LET result == CompleteLogin(a)
       IN  /\ ident' = IF att[a].known THEN [ident EXCEPT !.ledger = result.ledger]
                                       ELSE ident
           /\ att' = [att EXCEPT ![a] = IF result.ok THEN Opening ELSE Idle]
    /\ UNCHANGED <<now, audited, session, req, wrong, refused>>

OpenSession(a) ==
    /\ att[a].at = "open"
    /\ now <= LastLogin
    /\ att' = [att EXCEPT ![a] = Over]
    /\ session' = [session EXCEPT ![a] =
                      [open |-> TRUE, created |-> now, seen |-> now, revoked |-> FALSE]]
    /\ UNCHANGED <<now, ident, audited, req, wrong, refused>>

(* The pepper cannot be read (503), a statement raises, or the process     *)
(* ends.                                                                   *)
AttemptRaises(a) ==
    /\ att[a].at \notin {"idle", "over"}
    /\ att' = [att EXCEPT ![a] = Over]
    /\ UNCHANGED <<now, ident, audited, session, req, wrong, refused>>

-----------------------------------------------------------------------------
(* _decode_session.  A request that presents a dead session changes        *)
(* nothing.                                                                *)
PresentSession(r, s) ==
    /\ req[r] = Idle
    /\ session[s].open
    /\ SessionDecision(session[s], now)
    /\ req' = [req EXCEPT ![r] = [at |-> "identity", sid |-> s, now |-> now]]
    /\ UNCHANGED <<now, ident, att, audited, session, wrong, refused>>

(* An identity that was removed is refused as one that is not active.      *)
LoadIdentity(r) ==
    /\ req[r].at = "identity"
    /\ req' = [req EXCEPT ![r].at = IF ident.active THEN "touch" ELSE "revoke"]
    /\ UNCHANGED <<now, ident, att, audited, session, wrong, refused>>

RevokeSession(r) ==
    /\ req[r].at = "revoke"
    /\ session' = [session EXCEPT ![req[r].sid].revoked = TRUE]
    /\ refused' = refused \cup {req[r].sid}
    /\ req' = [req EXCEPT ![r] = Idle]
    /\ UNCHANGED <<now, ident, att, audited, wrong>>

(* Mutant: save() of the row as it was read, when it was not revoked.      *)
TouchSessionWholeRow(r) ==
    /\ req[r].at = "touch"
    /\ session' = [session EXCEPT ![req[r].sid].seen = req[r].now,
                               ![req[r].sid].revoked = FALSE]
    /\ req' = [req EXCEPT ![r] = Idle]
    /\ UNCHANGED <<now, ident, att, audited, wrong, refused>>

(* save(update_fields=["last_seen_at"])                                    *)
TouchSession(r) ==
    /\ req[r].at = "touch"
    /\ session' = [session EXCEPT ![req[r].sid].seen = req[r].now]
    /\ req' = [req EXCEPT ![r] = Idle]
    /\ UNCHANGED <<now, ident, att, audited, wrong, refused>>

RequestRaises(r) ==
    /\ req[r] # Idle
    /\ req' = [req EXCEPT ![r] = Idle]
    /\ UNCHANGED <<now, ident, att, audited, session, wrong, refused>>

(* The operator disables the identity, or removes it, in the database.     *)
Offboard ==
    /\ ident.active
    /\ ident' = [ident EXCEPT !.active = FALSE]
    /\ UNCHANGED <<now, att, audited, session, req, wrong, refused>>

(* bootstrap_identity: the ledger is not part of the update.               *)
ProvisionIdentity ==
    /\ ~(ident.active /\ ident.password)
    /\ ident' = [ident EXCEPT !.active = TRUE, !.password = TRUE]
    /\ UNCHANGED <<now, att, audited, session, req, wrong, refused>>

Next ==
    \/ Tick
    \/ \E a \in Attempts :
          \/ StartAttempt(a) \/ LoadRow(a) \/ VerifyPassword(a) \/ EmitAudit(a)
          \/ PersistLedger(a) \/ OpenSession(a) \/ AttemptRaises(a)
    \/ \E r \in Requests :
          \/ \E s \in Attempts : PresentSession(r, s)
          \/ LoadIdentity(r) \/ RevokeSession(r) \/ TouchSession(r)
          \/ RequestRaises(r)
    \/ Offboard
    \/ ProvisionIdentity

Spec == Init /\ [][Next]_vars

(* Time passes.  Nobody has to log in or to present a session.             *)
FairSpec == Spec /\ WF_vars(Tick)

-----------------------------------------------------------------------------
(* Every variable has its type: no password is compared past the hard      *)
(* lock, so the count stops there.                                         *)
TypeOK ==
    /\ now \in 0..MaxNow
    /\ ident \in [active : BOOLEAN, password : BOOLEAN, ledger : Ledger]
    /\ att \in [Attempts -> Attempt]
    /\ audited \subseteq Attempts
    /\ session \in [Attempts -> LocalSession \cup {NoSession}]
    /\ req \in [Requests -> Request]
    /\ wrong \in Nat
    /\ refused \subseteq Attempts

(* login.py: "The ledger advances only when a password was actually        *)
(* compared."  However many attempts interleave their reads and writes of  *)
(* the ledger, it never counts more failures than passwords that were      *)
(* compared and wrong: a locked account that is poked, an unknown name and *)
(* an attempt without an audit row cannot bring the hard lock nearer, and  *)
(* a running lock has its threshold of failures behind it.                 *)
LockIsEarned ==
    /\ ident.ledger.count <= wrong
    /\ ident.ledger.hard => wrong >= HardLockAt
    /\ ident.ledger.until > now => \E i \in 1..3 : Reached(i, wrong)

(* login.py: "An authentication that could not be audited did not happen." *)
(* The audit row is written before, and in another statement than, the     *)
(* session it is about.                                                    *)
SessionIsAudited == \A a \in Attempts : session[a].open => a \in audited

(* _decode_session: "re-enabling the identity does not silently hand back  *)
(* an old session".  Once a request was refused because the identity was   *)
(* not active, its session is dead for good, although requests that read   *)
(* the row earlier still write to it.                                      *)
RefusedStaysDead == \A s \in refused : session[s].revoked

(* session.py: "active or not, it dies."  No use of a session keeps it     *)
(* alive for ever.                                                         *)
SessionsDie ==
    \A s \in Attempts :
        session[s].open ~> [](session[s].open /\ ~SessionDecision(session[s], now))
=============================================================================
