--------------------------------- MODULE Mfa ---------------------------------
(***************************************************************************)
(* api/src/mfa/mfa.service.ts: setting the second factor up, taking it off  *)
(* and answering the challenge a login was given.                           *)
(***************************************************************************)
EXTENDS Logins

-----------------------------------------------------------------------------
(* setup keeps nothing; verifySetup and disable *)

SetupLoad(w) ==
  /\ IsIdle(w)
  /\ Registered
  /\ account.status = "ACTIVE"
  /\ mfa = None
  /\ Serve(w, [op |-> "setup"])
  /\ UNCHANGED <<account, attempts, session, mail, reset, mfa, challenge,
                 history>>

SetupCommit(w) ==
  LET n == history.setups + 1 IN
  /\ req[w].op = "setup"
  /\ mfa = None
  /\ n <= MaxSetups
  /\ mfa' = [setup |-> n, codes |-> {n} \X Code]
  /\ account' = [account EXCEPT !.authStage = "MFA_VERIFIED"]
  /\ history' = [history EXCEPT !.setups = n]
  /\ Finish(w)
  /\ UNCHANGED <<attempts, session, mail, reset, challenge>>

\* P2002 on mfa_user_id_key.
SetupConflict(w) ==
  /\ req[w].op = "setup"
  /\ mfa # None
  /\ Finish(w)
  /\ UNCHANGED <<account, attempts, session, mail, reset, mfa, challenge,
                 history>>

DisableLoad(w) ==
  /\ IsIdle(w)
  /\ mfa # None
  /\ Serve(w, [op |-> "disable"])
  /\ UNCHANGED <<account, attempts, session, mail, reset, mfa, challenge,
                 history>>

\* Mutant: the stage of the user is forgotten.
DisableRowOnly(w) ==
  /\ req[w].op = "disable"
  /\ mfa # None
  /\ mfa' = None
  /\ Finish(w)
  /\ UNCHANGED <<account, attempts, session, mail, reset, challenge, history>>

\* The factor that is taken off may be a later one than the code was for.
DisableCommit(w) ==
  /\ req[w].op = "disable"
  /\ mfa # None
  /\ mfa' = None
  /\ account' = [account EXCEPT !.authStage = "NONE"]
  /\ Finish(w)
  /\ UNCHANGED <<attempts, session, mail, reset, challenge, history>>

\* P2025: the delete finds no row and the transaction rolls back.
DisableConflict(w) ==
  /\ req[w].op = "disable"
  /\ mfa = None
  /\ Finish(w)
  /\ UNCHANGED <<account, attempts, session, mail, reset, mfa, challenge,
                 history>>

-----------------------------------------------------------------------------
(* Challenges *)

ChallengeCreate(w, c) ==
  /\ req[w].op = "challenge"
  /\ ~Exists(challenge[c])
  /\ challenge' = [challenge EXCEPT ![c] =
       [used |-> FALSE, revoked |-> FALSE, overdue |-> FALSE, attempts |-> 0,
        proof |-> req[w].proof]]
  /\ Finish(w)
  /\ UNCHANGED <<account, attempts, session, mail, reset, mfa, history>>

\* Mutant: an exhausted challenge is only told by its count.
UnspentChallenge(c) ==
  /\ Exists(challenge[c])
  /\ ~challenge[c].used /\ ~challenge[c].overdue
  /\ challenge[c].attempts < MAX_CHALLENGE_ATTEMPTS

\* loadValidChallenge.
ValidChallenge(c) ==
  /\ Exists(challenge[c])
  /\ ~challenge[c].used /\ ~challenge[c].revoked /\ ~challenge[c].overdue
  /\ challenge[c].attempts < MAX_CHALLENGE_ATTEMPTS

AnswerLoad(w, c) ==
  /\ IsIdle(w)
  /\ ValidChallenge(c)
  /\ Serve(w, [op |-> "answer", challenge |-> c,
               attempts |-> challenge[c].attempts])
  /\ UNCHANGED <<account, attempts, session, mail, reset, mfa, challenge,
                 history>>

AnswerWithoutFactor(w) ==
  /\ req[w].op = "answer"
  /\ mfa = None
  /\ Finish(w)
  /\ UNCHANGED <<account, attempts, session, mail, reset, mfa, challenge,
                 history>>

Accept(w, write, codes) ==
  Serve(w, [op |-> "accept", challenge |-> req[w].challenge, write |-> write,
            codes |-> codes])

\* A right TOTP code, or a recovery code of the list as it is read.
AnswerRight(w) ==
  /\ req[w].op = "answer"
  /\ mfa # None
  /\ \/ Accept(w, FALSE, {})
     \/ \E k \in mfa.codes : Accept(w, TRUE, mfa.codes \ {k})
  /\ UNCHANGED <<account, attempts, session, mail, reset, mfa, challenge,
                 history>>

AnswerWrong(w) ==
  /\ req[w].op = "answer"
  /\ mfa # None
  /\ Serve(w, [req[w] EXCEPT !.op = "miss"])
  /\ UNCHANGED <<account, attempts, session, mail, reset, mfa, challenge,
                 history>>

\* registerFailedAttempt counts from the number it read: two wrong answers at
\* a time count once, and a slow one can take the count back.
MissWrite(w) ==
  LET next == req[w].attempts + 1 IN
  /\ req[w].op = "miss"
  /\ challenge' = [challenge EXCEPT
       ![req[w].challenge].attempts = next,
       ![req[w].challenge].revoked = @ \/ next >= MAX_CHALLENGE_ATTEMPTS]
  /\ Finish(w)
  /\ UNCHANGED <<account, attempts, session, mail, reset, mfa, history>>

\* The challenge is not asked again (auth.service.ts then reads the user, who is
\* still ACTIVE, and goes on to completeLogin), and the list is written back as it was
\* read less the code that was used, over whatever the row holds now.
AcceptCommit(w) ==
  LET c == req[w].challenge IN
  /\ req[w].op = "accept"
  /\ mfa # None
  /\ challenge' = [challenge EXCEPT ![c].used = TRUE]
  /\ mfa' = IF req[w].write THEN [mfa EXCEPT !.codes = req[w].codes] ELSE mfa
  /\ Serve(w, [op |-> "clear", proof |-> challenge[c].proof])
  /\ UNCHANGED <<account, attempts, session, mail, reset, history>>

\* P2025: the factor was taken off, the transaction rolls back.
AcceptConflict(w) ==
  /\ req[w].op = "accept"
  /\ mfa = None
  /\ Finish(w)
  /\ UNCHANGED <<account, attempts, session, mail, reset, mfa, challenge,
                 history>>

\* The five minutes of a challenge pass.
ChallengeExpires(c) ==
  /\ Exists(challenge[c]) /\ ~challenge[c].overdue
  /\ challenge' = [challenge EXCEPT ![c].overdue = TRUE]
  /\ UNCHANGED <<account, attempts, session, mail, reset, mfa, history, req>>

MfaNext ==
  \/ \E w \in Worker :
       \/ SetupLoad(w) \/ SetupCommit(w) \/ SetupConflict(w)
       \/ DisableLoad(w) \/ DisableCommit(w) \/ DisableConflict(w)
       \/ \E c \in Challenge : ChallengeCreate(w, c) \/ AnswerLoad(w, c)
       \/ AnswerWithoutFactor(w) \/ AnswerRight(w) \/ AnswerWrong(w)
       \/ MissWrite(w) \/ AcceptCommit(w) \/ AcceptConflict(w)
  \/ \E c \in Challenge : ChallengeExpires(c)
=============================================================================
