------------------------------- MODULE Logins --------------------------------
(***************************************************************************)
(* api/src/auth/auth.service.ts: login, completeLogin, recordFailedLogin.   *)
(* A right password leads through the second factor, if there is one, to    *)
(* completeLogin; a wrong one is counted per address and per account, and   *)
(* the count decides whether the account is locked.                         *)
(***************************************************************************)
EXTENDS Sessions

\* What the user read at the start of login proves, when the password matches.
Proven == [password |-> account.password, swept |-> history.swept]

LoginLoad(w) ==
  /\ IsIdle(w)
  /\ Registered
  /\ account.lock \in {"none", "past"}
  /\ account.status = "ACTIVE"
  /\ Serve(w, [op |-> "factor", proof |-> Proven])
  /\ UNCHANGED <<account, attempts, session, mail, reset, mfa, challenge,
                 history>>

\* The second factor is looked up after the checks.
LoginFactor(w) ==
  /\ req[w].op = "factor"
  /\ Serve(w, [req[w] EXCEPT !.op = IF mfa = None THEN "clear"
                                                  ELSE "challenge"])
  /\ UNCHANGED <<account, attempts, session, mail, reset, mfa, challenge,
                 history>>

\* completeLogin: three statements, each committing alone.
CompleteClear(w) ==
  /\ req[w].op = "clear"
  /\ account' = [account EXCEPT !.failed = 0, !.lock = "none"]
  /\ Serve(w, [req[w] EXCEPT !.op = "forget"])
  /\ UNCHANGED <<attempts, session, mail, reset, mfa, challenge, history>>

CompleteForget(w) ==
  /\ req[w].op = "forget"
  /\ attempts' = [i \in Ip |-> "none"]
  /\ Serve(w, [req[w] EXCEPT !.op = "open"])
  /\ UNCHANGED <<account, session, mail, reset, mfa, challenge, history>>

CompleteOpen(w, n) ==
  /\ req[w].op = "open"
  /\ ~Exists(session[n])
  /\ CreateSession(n, req[w].proof)
  /\ Finish(w)
  /\ UNCHANGED <<account, attempts, mail, reset, mfa, challenge, history>>

-----------------------------------------------------------------------------
(* recordFailedLogin *)

\* The password is checked before the lock and the status are.
FailedLoad(w, i) ==
  /\ IsIdle(w)
  /\ Registered
  /\ Serve(w, [op |-> "failed", ip |-> i])
  /\ UNCHANGED <<account, attempts, session, mail, reset, mfa, challenge,
                 history>>

FailedRead(w) ==
  LET i == req[w].ip IN
  /\ req[w].op = "failed"
  /\ Serve(w, [op |-> "attempt", ip |-> i, fresh |-> attempts[i] = "fresh"])
  /\ UNCHANGED <<account, attempts, session, mail, reset, mfa, challenge,
                 history>>

\* A row whose window was open is updated by its id, which leaves its window
\* as it is; otherwise the row is upserted with a window that starts now.
FailedRow(w) ==
  LET i == req[w].ip IN
  /\ req[w].op = "attempt"
  /\ req[w].fresh => attempts[i] # "none"
  /\ attempts' = IF req[w].fresh THEN attempts
                 ELSE [attempts EXCEPT ![i] = "fresh"]
  /\ history' = [history EXCEPT !.sources = @ \cup {i}]
  /\ Serve(w, [op |-> "count"])
  /\ UNCHANGED <<account, session, mail, reset, mfa, challenge>>

\* A login that succeeded meanwhile deleted the row: P2025, the request ends.
FailedRowGone(w) ==
  /\ req[w].op = "attempt"
  /\ req[w].fresh /\ attempts[req[w].ip] = "none"
  /\ Finish(w)
  /\ UNCHANGED <<account, attempts, session, mail, reset, mfa, challenge,
                 history>>

FailedCount(w) ==
  /\ req[w].op = "count"
  /\ account.failed < MaxFailed
  /\ account' = [account EXCEPT !.failed = @ + 1]
  /\ Serve(w, [op |-> "decide", attempt |-> account.failed + 1])
  /\ UNCHANGED <<attempts, session, mail, reset, mfa, challenge, history>>

DistinctIps == Cardinality({i \in Ip : attempts[i] = "fresh"})

LockFor(attempt) ==
  CASE attempt = MAX_FAILED_ATTEMPTS -> "first"
    [] attempt = ESCALATED_LOCKOUT_THRESHOLD -> "escalated"
    [] attempt = SEVERE_LOCKOUT_THRESHOLD -> "severe"
    [] OTHER -> "none"

\* Mutant: failures from a single address count.
DecideAlways(w) ==
  LET level == LockFor(req[w].attempt) IN
  /\ req[w].op = "decide"
  /\ Serve(w, IF level = "none" THEN Idle ELSE [op |-> "lock", level |-> level])
  /\ UNCHANGED <<account, attempts, session, mail, reset, mfa, challenge,
                 history>>

FailedDecide(w) ==
  LET level == LockFor(req[w].attempt) IN
  /\ req[w].op = "decide"
  /\ Serve(w, IF DistinctIps < 2 \/ level = "none" THEN Idle
              ELSE [op |-> "lock", level |-> level])
  /\ UNCHANGED <<account, attempts, session, mail, reset, mfa, challenge,
                 history>>

FailedLock(w) ==
  /\ req[w].op = "lock"
  /\ account' = [account EXCEPT !.lock = req[w].level]
  /\ Finish(w)
  /\ UNCHANGED <<attempts, session, mail, reset, mfa, challenge, history>>

-----------------------------------------------------------------------------
(* The quarter of an hour of a window, and the time of a lock, pass. *)

WindowCloses(i) ==
  /\ attempts[i] = "fresh"
  /\ attempts' = [attempts EXCEPT ![i] = "old"]
  /\ UNCHANGED <<account, session, mail, reset, mfa, challenge, history, req>>

LockExpires ==
  /\ Registered
  /\ account.lock \notin {"none", "past"}
  /\ account' = [account EXCEPT !.lock = "past"]
  /\ UNCHANGED <<attempts, session, mail, reset, mfa, challenge, history, req>>

LoginNext ==
  \/ \E w \in Worker :
       \/ LoginLoad(w) \/ LoginFactor(w)
       \/ CompleteClear(w) \/ CompleteForget(w)
       \/ \E n \in Session : CompleteOpen(w, n)
       \/ \E i \in Ip : FailedLoad(w, i)
       \/ FailedRead(w) \/ FailedRow(w) \/ FailedRowGone(w)
       \/ FailedCount(w) \/ FailedDecide(w) \/ FailedLock(w)
  \/ \E i \in Ip : WindowCloses(i)
  \/ LockExpires
=============================================================================
