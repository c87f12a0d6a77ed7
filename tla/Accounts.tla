------------------------------ MODULE Accounts -------------------------------
(***************************************************************************)
(* The tables behind one account (api/src/auth, api/src/mfa): the users row *)
(* and its sessions, tokens, second factor and failed logins.  Accounts     *)
(* share nothing but the uniqueness of the email, so one account is enough. *)
(*                                                                          *)
(* A variable holds COMMITTED rows.  Only the writes the code groups with   *)
(* $transaction([...]) commit together; every other await of a handler is a *)
(* statement of its own, and what the handler read before it is in req[w].  *)
(***************************************************************************)
EXTENDS Naturals, FiniteSets

CONSTANTS
  Worker,       \* requests the API serves at the same time
  Session, MailToken, ResetToken, Challenge,   \* row identifiers
  Ip,           \* the addresses wrong passwords come from
  Code,         \* recovery codes of one setup
  MaxPassword,  \* bound: passwords the account ever has, numbered from 1
  MaxSetups,    \* bound: times a second factor is set up
  MaxFailed,    \* bound: failed logins counted
  MAX_FAILED_ATTEMPTS, ESCALATED_LOCKOUT_THRESHOLD, SEVERE_LOCKOUT_THRESHOLD,
  MAX_CHALLENGE_ATTEMPTS,
  None          \* SQL NULL

ASSUME AccountsAssumption ==
  /\ None \notin Session
  /\ MaxPassword \in Nat \ {0} /\ MaxSetups \in Nat /\ MaxFailed \in Nat
  /\ MAX_CHALLENGE_ATTEMPTS \in Nat \ {0}
  /\ MAX_FAILED_ATTEMPTS \in Nat
  /\ ESCALATED_LOCKOUT_THRESHOLD \in Nat
  /\ SEVERE_LOCKOUT_THRESHOLD \in Nat
  /\ MAX_FAILED_ATTEMPTS < ESCALATED_LOCKOUT_THRESHOLD
  /\ ESCALATED_LOCKOUT_THRESHOLD < SEVERE_LOCKOUT_THRESHOLD

VARIABLES
  account,    \* the users row
  attempts,   \* login_attempts of the email, per address
  session,    \* sessions
  mail,       \* email_verification_tokens
  reset,      \* password_reset_tokens
  mfa,        \* the mfa row, or None
  challenge,  \* mfa_challenges
  history,    \* what no table stores and the properties speak of
  req         \* the request each worker is serving

vars == <<account, attempts, session, mail, reset, mfa, challenge, history,
          req>>

-----------------------------------------------------------------------------
(* Row types *)

Password == 1..MaxPassword

\* "none": lockedUntil is NULL; "past": it lies in the past.
Lock == {"none", "first", "escalated", "severe", "past"}

Account == [status: {"PENDING_VERIFICATION", "ACTIVE"}, password: Password,
            authStage: {"NONE", "MFA_VERIFIED"}, failed: 0..MaxFailed,
            lock: Lock]

\* "old": the window started more than LOGIN_WINDOW_MS ago.
Attempt == {"none", "fresh", "old"}

\* How a family was opened, which a session hands on to the one it is rotated
\* into: the password its login proved, and whether its login, or a rotation
\* since, was under way while all sessions were being revoked.
Origin == [password: Password, straddles: BOOLEAN]

SessionRow == [family: Session, parent: Session \cup {None}, live: BOOLEAN,
               overdue: BOOLEAN, origin: Origin]

TokenRow == [used: BOOLEAN, overdue: BOOLEAN]

\* A code carries the number of the setup that generated it.
MfaRow == [setup: 1..MaxSetups, codes: SUBSET ((1..MaxSetups) \X Code)]

ASSUME MfaAssumption == None \notin MfaRow

\* When a request began to prove who it is: the password it matched, and the
\* last password that revoking all sessions had made good by then.
Proof == [password: Password, swept: 0..MaxPassword]

ChallengeRow == [used: BOOLEAN, revoked: BOOLEAN, overdue: BOOLEAN,
                 attempts: 0..MAX_CHALLENGE_ATTEMPTS, proof: Proof]

Absent == [absent |-> TRUE]     \* an identifier with no row yet
Exists(row) == row # Absent

\* seeded: the account came with the database; passwords, setups: how many there
\* were; swept: the password in force when
\* all sessions were last revoked; sources: addresses whose failures counted.
History == [seeded: BOOLEAN, passwords: 0..MaxPassword, setups: 0..MaxSetups,
            swept: 0..MaxPassword, sources: SUBSET Ip]

-----------------------------------------------------------------------------
(* Requests in flight *)

Idle == [op |-> "idle"]

Request ==
  {Idle}
  \cup [op: {"register", "mailToken", "resetToken", "change", "sweep",
             "setup", "disable"}]
  \cup [op: {"verifyEmail"}, token: MailToken]
  \cup [op: {"reset"}, token: ResetToken]
  \cup [op: {"factor", "challenge", "clear", "forget", "open"}, proof: Proof]
  \cup [op: {"failed"}, ip: Ip]
  \cup [op: {"attempt"}, ip: Ip, fresh: BOOLEAN]
  \cup [op: {"count"}]
  \cup [op: {"decide"}, attempt: 0..MaxFailed]
  \cup [op: {"lock"}, level: Lock]
  \cup [op: {"answer", "miss"}, challenge: Challenge,
        attempts: 0..MAX_CHALLENGE_ATTEMPTS]
  \cup [op: {"accept"}, challenge: Challenge, write: BOOLEAN,
        codes: SUBSET ((1..MaxSetups) \X Code)]
  \cup [op: {"refresh"}, session: Session, swept: 0..MaxPassword]
  \cup [op: {"revokeFamily", "revokeOne"}, session: Session]

IsIdle(w) == req[w] = Idle
Serve(w, r) == req' = [req EXCEPT ![w] = r]
Finish(w) == Serve(w, Idle)

Registered == Exists(account)

FirstPassword ==
  [status |-> "PENDING_VERIFICATION", password |-> 1, authStage |-> "NONE",
   failed |-> 0, lock |-> "none"]

\* seed.ts creates the administrator's account ACTIVE; the others register.
AccountsInit ==
  /\ \E seeded \in BOOLEAN :
       /\ account = IF seeded THEN [FirstPassword EXCEPT !.status = "ACTIVE"]
                    ELSE Absent
       /\ history = [seeded |-> seeded, passwords |-> IF seeded THEN 1 ELSE 0,
                     setups |-> 0, swept |-> 0, sources |-> {}]
  /\ attempts = [i \in Ip |-> "none"]
  /\ session = [s \in Session |-> Absent]
  /\ mail = [t \in MailToken |-> Absent]
  /\ reset = [t \in ResetToken |-> Absent]
  /\ mfa = None
  /\ challenge = [c \in Challenge |-> Absent]
  /\ req = [w \in Worker |-> Idle]

\* Every table holds rows of its type and every slot a well-formed request.
TypeOK ==
  /\ account \in Account \cup {Absent}
  /\ attempts \in [Ip -> Attempt]
  /\ session \in [Session -> SessionRow \cup {Absent}]
  /\ mail \in [MailToken -> TokenRow \cup {Absent}]
  /\ reset \in [ResetToken -> TokenRow \cup {Absent}]
  /\ mfa \in MfaRow \cup {None}
  /\ challenge \in [Challenge -> ChallengeRow \cup {Absent}]
  /\ history \in History
  /\ req \in [Worker -> Request]
=============================================================================
