----------------------------- MODULE Credentials -----------------------------
(***************************************************************************)
(* api/src/auth/auth.service.ts: how an account comes to be, how its email  *)
(* is proven and how its password changes.  Hashing takes an await, so the  *)
(* row a handler checked may have changed when it writes.                   *)
(***************************************************************************)
EXTENDS Accounts

Fresh == [used |-> FALSE, overdue |-> FALSE]

\* What both services check before they trust a token from an email.
Usable(row) == Exists(row) /\ ~row.used /\ ~row.overdue

Revoked(s) == [session[s] EXCEPT !.live = FALSE]

\* sessions.updateMany over every session of the user that is not revoked.
RevokeAll ==
  [s \in Session |-> IF Exists(session[s]) THEN Revoked(s) ELSE Absent]

-----------------------------------------------------------------------------
(* register, resendVerification, verifyEmail *)

RegisterLoad(w) ==
  /\ IsIdle(w)
  /\ ~Registered
  /\ Serve(w, [op |-> "register"])
  /\ UNCHANGED <<account, attempts, session, mail, reset, mfa, challenge,
                 history>>

RegisterCreate(w) ==
  /\ req[w].op = "register"
  /\ ~Registered
  /\ account' = FirstPassword
  /\ history' = [history EXCEPT !.passwords = 1]
  /\ Serve(w, [op |-> "mailToken"])
  /\ UNCHANGED <<attempts, session, mail, reset, mfa, challenge>>

\* P2002 on users_email_key.
RegisterConflict(w) ==
  /\ req[w].op = "register"
  /\ Registered
  /\ Finish(w)
  /\ UNCHANGED <<account, attempts, session, mail, reset, mfa, challenge,
                 history>>

ResendLoad(w) ==
  /\ IsIdle(w)
  /\ Registered
  /\ account.status = "PENDING_VERIFICATION"
  /\ Serve(w, [op |-> "mailToken"])
  /\ UNCHANGED <<account, attempts, session, mail, reset, mfa, challenge,
                 history>>

\* The last write of register and of resendVerification.
MailTokenCreate(w, t) ==
  /\ req[w].op = "mailToken"
  /\ ~Exists(mail[t])
  /\ mail' = [mail EXCEPT ![t] = Fresh]
  /\ Finish(w)
  /\ UNCHANGED <<account, attempts, session, reset, mfa, challenge, history>>

VerifyEmailLoad(w, t) ==
  /\ IsIdle(w)
  /\ Usable(mail[t])
  /\ Serve(w, [op |-> "verifyEmail", token |-> t])
  /\ UNCHANGED <<account, attempts, session, mail, reset, mfa, challenge,
                 history>>

\* Mutant: the token is spent, the user is not activated with it.
VerifyEmailSpendsOnly(w) ==
  /\ req[w].op = "verifyEmail"
  /\ mail' = [mail EXCEPT ![req[w].token].used = TRUE]
  /\ Finish(w)
  /\ UNCHANGED <<account, attempts, session, reset, mfa, challenge, history>>

VerifyEmailCommit(w) ==
  /\ req[w].op = "verifyEmail"
  /\ mail' = [mail EXCEPT ![req[w].token].used = TRUE]
  /\ account' = [account EXCEPT !.status = "ACTIVE"]
  /\ Finish(w)
  /\ UNCHANGED <<attempts, session, reset, mfa, challenge, history>>

-----------------------------------------------------------------------------
(* forgotPassword, resetPassword, changePassword *)

ForgotLoad(w) ==
  /\ IsIdle(w)
  /\ Registered
  /\ Serve(w, [op |-> "resetToken"])
  /\ UNCHANGED <<account, attempts, session, mail, reset, mfa, challenge,
                 history>>

ForgotCreate(w, t) ==
  /\ req[w].op = "resetToken"
  /\ ~Exists(reset[t])
  /\ reset' = [reset EXCEPT ![t] = Fresh]
  /\ Finish(w)
  /\ UNCHANGED <<account, attempts, session, mail, mfa, challenge, history>>

ResetLoad(w, t) ==
  /\ IsIdle(w)
  /\ Usable(reset[t])
  /\ Serve(w, [op |-> "reset", token |-> t])
  /\ UNCHANGED <<account, attempts, session, mail, reset, mfa, challenge,
                 history>>

NextPassword == history.passwords + 1

\* Mutant: the sessions are left alone.
ResetKeepsSessions(w) ==
  /\ req[w].op = "reset"
  /\ NextPassword \in Password
  /\ reset' = [reset EXCEPT ![req[w].token].used = TRUE]
  /\ account' = [account EXCEPT !.password = NextPassword]
  /\ history' = [history EXCEPT !.passwords = NextPassword,
                                !.swept = NextPassword]
  /\ Finish(w)
  /\ UNCHANGED <<attempts, session, mail, mfa, challenge>>

\* Neither the token nor the user is checked again.  The lock of the account
\* and its pending challenges stay as they are.
ResetCommit(w) ==
  /\ req[w].op = "reset"
  /\ NextPassword \in Password
  /\ reset' = [reset EXCEPT ![req[w].token].used = TRUE]
  /\ account' = [account EXCEPT !.password = NextPassword]
  /\ session' = RevokeAll
  /\ history' = [history EXCEPT !.passwords = NextPassword,
                                !.swept = NextPassword]
  /\ Finish(w)
  /\ UNCHANGED <<attempts, mail, mfa, challenge>>

\* The caller is signed in and has typed the current password.
ChangeLoad(w) ==
  /\ IsIdle(w)
  /\ Registered
  /\ account.status = "ACTIVE"
  /\ Serve(w, [op |-> "change"])
  /\ UNCHANGED <<account, attempts, session, mail, reset, mfa, challenge,
                 history>>

ChangeWrite(w) ==
  /\ req[w].op = "change"
  /\ NextPassword \in Password
  /\ account' = [account EXCEPT !.password = NextPassword]
  /\ history' = [history EXCEPT !.passwords = NextPassword]
  /\ Serve(w, [op |-> "sweep"])
  /\ UNCHANGED <<attempts, session, mail, reset, mfa, challenge>>

\* A second statement, outside any transaction.
ChangeSweep(w) ==
  /\ req[w].op = "sweep"
  /\ session' = RevokeAll
  /\ history' = [history EXCEPT !.swept = account.password]
  /\ Finish(w)
  /\ UNCHANGED <<account, attempts, mail, reset, mfa, challenge>>

-----------------------------------------------------------------------------
(* The hour of a reset token and the day of a verification token pass. *)

MailExpires(t) ==
  /\ Exists(mail[t]) /\ ~mail[t].overdue
  /\ mail' = [mail EXCEPT ![t].overdue = TRUE]
  /\ UNCHANGED <<account, attempts, session, reset, mfa, challenge, history,
                 req>>

ResetExpires(t) ==
  /\ Exists(reset[t]) /\ ~reset[t].overdue
  /\ reset' = [reset EXCEPT ![t].overdue = TRUE]
  /\ UNCHANGED <<account, attempts, session, mail, mfa, challenge, history,
                 req>>

CredentialNext ==
  \/ \E w \in Worker :
       \/ RegisterLoad(w) \/ RegisterCreate(w) \/ RegisterConflict(w)
       \/ ResendLoad(w)
       \/ \E t \in MailToken : MailTokenCreate(w, t) \/ VerifyEmailLoad(w, t)
       \/ VerifyEmailCommit(w)
       \/ ForgotLoad(w)
       \/ \E t \in ResetToken : ForgotCreate(w, t) \/ ResetLoad(w, t)
       \/ ResetCommit(w)
       \/ ChangeLoad(w) \/ ChangeWrite(w) \/ ChangeSweep(w)
  \/ \E t \in MailToken : MailExpires(t)
  \/ \E t \in ResetToken : ResetExpires(t)
=============================================================================
