------------------------------- MODULE Sessions -------------------------------
(***************************************************************************)
(* api/src/auth/auth.service.ts: the life of a session.  A refresh token is *)
(* spent by rotating its row into a new one of the same family; showing a   *)
(* spent token again revokes the family.  All writes are by primary key or  *)
(* updateMany; none of them asks again whether the row is still live.       *)
(***************************************************************************)
EXTENDS Credentials

\* The family of a session that was rotated out of nothing is its own.
CreateSession(n, proof) ==
  session' = [session EXCEPT ![n] =
    [family |-> n, parent |-> None, live |-> TRUE, overdue |-> FALSE,
     origin |-> [password |-> proof.password,
                 straddles |-> history.swept # proof.swept]]]

Rotated(s, swept) ==
  [family |-> session[s].family, parent |-> s, live |-> TRUE,
   overdue |-> FALSE,
   origin |-> [session[s].origin EXCEPT
                 !.straddles = @ \/ history.swept # swept]]

\* Mutant: a session is refreshed whether or not it was revoked.
RefreshAnyLoad(w, s) ==
  /\ IsIdle(w)
  /\ Exists(session[s]) /\ ~session[s].overdue
  /\ Serve(w, [op |-> "refresh", session |-> s, swept |-> history.swept])
  /\ UNCHANGED <<account, attempts, session, mail, reset, mfa, challenge,
                 history>>

\* The user is read after the session; no code takes ACTIVE from a user, so
\* that check passes.
RefreshLoad(w, s) ==
  /\ IsIdle(w)
  /\ Exists(session[s]) /\ ~session[s].overdue
  /\ session[s].live
  /\ Serve(w, [op |-> "refresh", session |-> s, swept |-> history.swept])
  /\ UNCHANGED <<account, attempts, session, mail, reset, mfa, challenge,
                 history>>

\* Mutant: the new session is created, the old one is not spent.
RefreshKeepsOld(w, n) ==
  /\ req[w].op = "refresh"
  /\ ~Exists(session[n])
  /\ session' = [session EXCEPT ![n] = Rotated(req[w].session, req[w].swept)]
  /\ Finish(w)
  /\ UNCHANGED <<account, attempts, mail, reset, mfa, challenge, history>>

RefreshCommit(w, n) ==
  LET s == req[w].session IN
  /\ req[w].op = "refresh"
  /\ ~Exists(session[n])
  /\ session' = [session EXCEPT ![s].live = FALSE,
                                ![n] = Rotated(s, req[w].swept)]
  /\ Finish(w)
  /\ UNCHANGED <<account, attempts, mail, reset, mfa, challenge, history>>

ReuseLoad(w, s) ==
  /\ IsIdle(w)
  /\ Exists(session[s]) /\ ~session[s].overdue
  /\ ~session[s].live
  /\ Serve(w, [op |-> "revokeFamily", session |-> s])
  /\ UNCHANGED <<account, attempts, session, mail, reset, mfa, challenge,
                 history>>

InFamily(s, f) == Exists(session[s]) /\ session[s].family = f

ReuseRevoke(w) ==
  LET f == session[req[w].session].family IN
  /\ req[w].op = "revokeFamily"
  /\ session' =
       [s \in Session |-> IF InFamily(s, f) THEN Revoked(s) ELSE session[s]]
  /\ Finish(w)
  /\ UNCHANGED <<account, attempts, mail, reset, mfa, challenge, history>>

\* logout with the session's token, or users.revokeSession with its id.
RevokeLoad(w, s) ==
  /\ IsIdle(w)
  /\ Exists(session[s])
  /\ Serve(w, [op |-> "revokeOne", session |-> s])
  /\ UNCHANGED <<account, attempts, session, mail, reset, mfa, challenge,
                 history>>

RevokeWrite(w) ==
  /\ req[w].op = "revokeOne"
  /\ session' = [session EXCEPT ![req[w].session].live = FALSE]
  /\ Finish(w)
  /\ UNCHANGED <<account, attempts, mail, reset, mfa, challenge, history>>

SessionExpires(s) ==
  /\ Exists(session[s]) /\ ~session[s].overdue
  /\ session' = [session EXCEPT ![s].overdue = TRUE]
  /\ UNCHANGED <<account, attempts, mail, reset, mfa, challenge, history,
                 req>>

SessionNext ==
  \/ \E w \in Worker, s \in Session :
       \/ RefreshLoad(w, s) \/ RefreshCommit(w, s)
       \/ ReuseLoad(w, s) \/ RevokeLoad(w, s)
  \/ \E w \in Worker : ReuseRevoke(w) \/ RevokeWrite(w)
  \/ \E s \in Session : SessionExpires(s)
=============================================================================
