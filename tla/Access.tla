------------------------------- MODULE Access --------------------------------
(***************************************************************************)
(* The whole of api/src/auth and api/src/mfa over the tables of one         *)
(* account: requests that register, prove the email, sign in, answer a      *)
(* challenge, refresh, revoke and change the password, at the same time.    *)
(***************************************************************************)
EXTENDS Mfa

\* A request dies between two statements.  What it committed stays.
Abort(w) ==
  /\ ~IsIdle(w)
  /\ Finish(w)
  /\ UNCHANGED <<account, attempts, session, mail, reset, mfa, challenge,
                 history>>

Init == AccountsInit

Next ==
  \/ CredentialNext
  \/ SessionNext
  \/ LoginNext
  \/ MfaNext
  \/ \E w \in Worker : Abort(w)

Spec == Init /\ [][Next]_vars

-----------------------------------------------------------------------------
(* Sessions *)

Live(s) == Exists(session[s]) /\ session[s].live

\* auth.service.ts:539-542, :560-564: once all sessions have been revoked, the
\* only ones that live on an older password come from a login, a challenge or a
\* rotation that was under way just then.  A challenge waits for minutes, so
\* this is the way an old password opens a session after it was reset; nothing
\* else does, whether changePassword dies halfway or several changes overlap.
SurvivorsStraddle ==
  \A s \in Session :
    Live(s) /\ session[s].origin.password < history.swept =>
      session[s].origin.straddles

\* auth.service.ts:447-466: a token that was rotated is spent in the same
\* commit, so no session is alive together with the one it came from, however
\* refreshes, logouts and revocations interleave.
RotationSpendsParent ==
  \A s \in Session :
    Exists(session[s]) /\ session[s].parent # None =>
      ~Live(session[s].parent)

Rotating(f) ==
  \E w \in Worker : req[w].op = "refresh" /\ InFamily(req[w].session, f)

Ended(f) ==
  /\ Exists(session[f])
  /\ \A s \in Session : InFamily(s, f) => ~session[s].live
  /\ ~Rotating(f)

\* A family that has ended - by logout, by reuse of a spent token, by a reset
\* or one session at a time - and that no refresh is rotating at that moment
\* never comes back, whatever token of it is shown later (:430-445).
EndedFamilyStaysEnded ==
  [][\A f \in Session :
       Ended(f) /\ session[f].family = f => Ended(f)']_vars

-----------------------------------------------------------------------------
(* Email, second factor, lockout *)

\* An account is ACTIVE exactly when one of its verification tokens was spent
\* (:199-213): no crash or second click separates the two.
ActiveIffVerified ==
  Registered /\ ~history.seeded =>
    (account.status = "ACTIVE" <=> \E t \in MailToken :
                                     Exists(mail[t]) /\ mail[t].used)

\* users.authStage says MFA_VERIFIED exactly when the account has a second
\* factor (mfa.service.ts:92-104, :127-133), also when setups and removals race.
StageMatchesMfa ==
  /\ mfa # None => Registered
  /\ Registered => (account.authStage = "MFA_VERIFIED" <=> mfa # None)

Answering(c) ==
  \E w \in Worker :
    req[w].op \in {"answer", "miss", "accept"} /\ req[w].challenge = c

ChallengeOver(c) ==
  /\ Exists(challenge[c])
  /\ challenge[c].used \/ challenge[c].revoked \/ challenge[c].overdue
  /\ ~Answering(c)

\* A challenge that was used, ran out of attempts or expired, with no answer to
\* it under way, is never answered again: a count that went back down does not
\* reopen it (mfa.service.ts:157-173).
ChallengeStaysOver ==
  [][\A c \in Challenge : ChallengeOver(c) => ChallengeOver(c)']_vars

\* auth.service.ts:339-345: failures from one address alone never lock the
\* account, whatever other logins, window ends and resets come in between.
LockNeedsTwoSources ==
  Registered /\ account.lock # "none" =>
    \E i, j \in history.sources : i # j
=============================================================================
