---------------------------- MODULE AccessProofs -----------------------------
(***************************************************************************)
(* Proofs about Access, for every set of workers, rows, addresses and       *)
(* codes, and every limit.                                                  *)
(***************************************************************************)
EXTENDS Access, FiniteSetTheorems, TLAPS

\* A proof of who somebody is: what had been made good by then was made good at
\* the latest by the password that was typed, and nothing is ever made bad.
ProofSound(p) == p.swept <= p.password /\ p.swept <= history.swept

\* Two addresses have failed.
TwoSources == \E i, j \in history.sources : i # j

\* What a request has read stays true until it writes.
RequestSound(w) ==
  LET r == req[w] IN
  /\ r.op \notin {"idle", "register"} => Registered
  /\ r.op = "verifyEmail" => Exists(mail[r.token])
  /\ r.op = "reset" => Exists(reset[r.token])
  /\ r.op \in {"factor", "challenge", "clear", "forget", "open"} =>
       ProofSound(r.proof)
  /\ r.op = "lock" => TwoSources
  /\ r.op \in {"answer", "miss", "accept"} => Exists(challenge[r.challenge])
  /\ r.op \in {"answer", "miss"} => r.attempts < MAX_CHALLENGE_ATTEMPTS
  /\ r.op \in {"refresh", "revokeFamily", "revokeOne"} =>
       Exists(session[r.session])
  /\ r.op = "refresh" =>
       /\ r.swept <= history.swept
       /\ session[r.session].origin.password < r.swept =>
            session[r.session].origin.straddles

Requests == \A w \in Worker : RequestSound(w)

\* Everything belongs to the account; the history counts its passwords.
Owned ==
  /\ ~Registered =>
       /\ \A s \in Session : session[s] = Absent
       /\ \A t \in MailToken : mail[t] = Absent
       /\ \A t \in ResetToken : reset[t] = Absent
       /\ \A c \in Challenge : challenge[c] = Absent
       /\ mfa = None /\ history.passwords = 0
  /\ Registered => account.password = history.passwords
  /\ history.swept <= history.passwords

\* Sessions come from sessions, challenges from proofs, failures from addresses.
Sources ==
  /\ \A s \in Session :
       Exists(session[s]) /\ session[s].parent # None =>
         Exists(session[session[s].parent])
  /\ \A c \in Challenge : Exists(challenge[c]) => ProofSound(challenge[c].proof)
  /\ \A i \in Ip : attempts[i] # "none" => i \in history.sources

AccessInv ==
  /\ TypeOK /\ Requests /\ Owned /\ Sources
  /\ SurvivorsStraddle /\ RotationSpendsParent
  /\ ActiveIffVerified /\ StageMatchesMfa /\ LockNeedsTwoSources

-----------------------------------------------------------------------------
(* Rows *)

\* An absent row is no row, and the rows that handlers write are rows.
LEMMA Rows ==
  /\ Absent \notin Account /\ Absent \notin SessionRow
  /\ Absent \notin TokenRow /\ Absent \notin ChallengeRow
  /\ FirstPassword \in Account /\ FirstPassword.lock = "none"
  /\ FirstPassword.status = "PENDING_VERIFICATION"
  /\ FirstPassword.authStage = "NONE" /\ FirstPassword.password = 1
  /\ Fresh \in TokenRow /\ ~Fresh.used
<1>1. 1 \in Password /\ 0 \in 0..MaxFailed
  BY AccountsAssumption DEF Password
<1>2. FirstPassword \in Account
  BY <1>1 DEF FirstPassword, Account, Lock
<1>3. Absent \notin Account /\ Absent \notin SessionRow
  BY DEF Absent, Account, SessionRow
<1>4. Absent \notin TokenRow /\ Absent \notin ChallengeRow
  BY DEF Absent, TokenRow, ChallengeRow
<1>5. Fresh \in TokenRow /\ ~Fresh.used
  BY DEF Fresh, TokenRow
<1> QED  BY <1>2, <1>3, <1>4, <1>5 DEF FirstPassword

\* What the handlers change of the users row.
LEMMA AccountFields ==
  ASSUME NEW a \in Account
  PROVE /\ a # Absent /\ a.failed \in 0..MaxFailed /\ a.lock \in Lock
        /\ a.password \in Password
  BY Rows DEF Account

LEMMA ActivateRow ==
  ASSUME NEW a \in Account, NEW b, b = [a EXCEPT !.status = "ACTIVE"]
  PROVE /\ b \in Account /\ b.status = "ACTIVE" /\ b.lock = a.lock
        /\ b.authStage = a.authStage /\ b.password = a.password
  BY DEF Account

LEMMA PasswordRow ==
  ASSUME NEW a \in Account, NEW b, NEW p \in Password,
         b = [a EXCEPT !.password = p]
  PROVE /\ b \in Account /\ b.status = a.status /\ b.lock = a.lock
        /\ b.authStage = a.authStage /\ b.password = p
  BY DEF Account

LEMMA StageRow ==
  ASSUME NEW a \in Account, NEW b, NEW g \in {"NONE", "MFA_VERIFIED"},
         b = [a EXCEPT !.authStage = g]
  PROVE /\ b \in Account /\ b.status = a.status /\ b.lock = a.lock
        /\ b.authStage = g /\ b.password = a.password
  BY DEF Account

LEMMA CountRow ==
  ASSUME NEW a \in Account, NEW b, NEW n \in 0..MaxFailed,
         b = [a EXCEPT !.failed = n]
  PROVE /\ b \in Account /\ b.status = a.status /\ b.lock = a.lock
        /\ b.authStage = a.authStage /\ b.password = a.password
  BY DEF Account

LEMMA LockRow ==
  ASSUME NEW a \in Account, NEW b, NEW k \in Lock,
         b = [a EXCEPT !.lock = k]
  PROVE /\ b \in Account /\ b.status = a.status /\ b.lock = k
        /\ b.authStage = a.authStage /\ b.password = a.password
  BY DEF Account

LEMMA ClearRow ==
  ASSUME NEW a \in Account, NEW b, NEW k \in Lock,
         b = [a EXCEPT !.failed = 0, !.lock = k]
  PROVE /\ b \in Account /\ b.status = a.status /\ b.lock = k
        /\ b.authStage = a.authStage /\ b.password = a.password
<1>1. 0 \in 0..MaxFailed
  BY AccountsAssumption
<1> QED  BY <1>1 DEF Account

\* A session is revoked or expires: where it comes from stays.
LEMMA SessionRows ==
  ASSUME NEW x \in SessionRow
  PROVE /\ x # Absent /\ x.family \in Session /\ x.live \in BOOLEAN
        /\ x.parent \in Session \cup {None}
        /\ x.origin.password \in Password /\ x.origin.straddles \in BOOLEAN
        /\ LET y == [x EXCEPT !.live = FALSE] IN
             /\ y \in SessionRow /\ ~y.live /\ y.family = x.family
             /\ y.parent = x.parent /\ y.origin = x.origin
        /\ LET y == [x EXCEPT !.overdue = TRUE] IN
             /\ y \in SessionRow /\ y.live = x.live /\ y.family = x.family
             /\ y.parent = x.parent /\ y.origin = x.origin
<1>1. x # Absent
  BY Rows
<1>2. /\ x.family \in Session /\ x.live \in BOOLEAN
      /\ x.parent \in Session \cup {None}
      /\ x.origin.password \in Password /\ x.origin.straddles \in BOOLEAN
  BY DEF SessionRow, Origin
<1>3. LET y == [x EXCEPT !.live = FALSE] IN
        /\ y \in SessionRow /\ ~y.live /\ y.family = x.family
        /\ y.parent = x.parent /\ y.origin = x.origin
  BY DEF SessionRow
<1>4. LET y == [x EXCEPT !.overdue = TRUE] IN
        /\ y \in SessionRow /\ y.live = x.live /\ y.family = x.family
        /\ y.parent = x.parent /\ y.origin = x.origin
  BY DEF SessionRow
<1> QED  BY <1>1, <1>2, <1>3, <1>4

\* A token is spent or expires.
LEMMA TokenRows ==
  ASSUME NEW x \in TokenRow
  PROVE /\ x # Absent
        /\ [x EXCEPT !.used = TRUE] \in TokenRow
        /\ [x EXCEPT !.used = TRUE].used
        /\ [x EXCEPT !.overdue = TRUE] \in TokenRow
        /\ [x EXCEPT !.overdue = TRUE].used = x.used
<1>1. x # Absent
  BY Rows
<1> QED  BY <1>1 DEF TokenRow

\* A challenge is used, missed or expires.
LEMMA ChallengeRows ==
  ASSUME NEW x \in ChallengeRow
  PROVE /\ x # Absent /\ x.proof \in Proof
        /\ x.used \in BOOLEAN /\ x.revoked \in BOOLEAN /\ x.overdue \in BOOLEAN
        /\ x.attempts \in 0..MAX_CHALLENGE_ATTEMPTS
        /\ LET y == [x EXCEPT !.used = TRUE] IN
             /\ y \in ChallengeRow /\ y.used /\ y.revoked = x.revoked
             /\ y.overdue = x.overdue /\ y.attempts = x.attempts
             /\ y.proof = x.proof
        /\ LET y == [x EXCEPT !.overdue = TRUE] IN
             /\ y \in ChallengeRow /\ y.overdue /\ y.revoked = x.revoked
             /\ y.used = x.used /\ y.attempts = x.attempts
             /\ y.proof = x.proof
        /\ \A n \in 0..MAX_CHALLENGE_ATTEMPTS, b \in BOOLEAN :
             LET y == [x EXCEPT !.attempts = n, !.revoked = b] IN
             /\ y \in ChallengeRow /\ y.used = x.used /\ y.overdue = x.overdue
             /\ y.attempts = n /\ y.revoked = b /\ y.proof = x.proof
<1>1. x # Absent
  BY Rows
<1>2. /\ x.proof \in Proof
      /\ x.used \in BOOLEAN /\ x.revoked \in BOOLEAN /\ x.overdue \in BOOLEAN
      /\ x.attempts \in 0..MAX_CHALLENGE_ATTEMPTS
  BY DEF ChallengeRow
<1>3. LET y == [x EXCEPT !.used = TRUE] IN
        /\ y \in ChallengeRow /\ y.used /\ y.revoked = x.revoked
        /\ y.overdue = x.overdue /\ y.attempts = x.attempts
        /\ y.proof = x.proof
  BY DEF ChallengeRow
<1>4. LET y == [x EXCEPT !.overdue = TRUE] IN
        /\ y \in ChallengeRow /\ y.overdue /\ y.revoked = x.revoked
        /\ y.used = x.used /\ y.attempts = x.attempts
        /\ y.proof = x.proof
  BY DEF ChallengeRow
<1>5. \A n \in 0..MAX_CHALLENGE_ATTEMPTS, b \in BOOLEAN :
        LET y == [x EXCEPT !.attempts = n, !.revoked = b] IN
        /\ y \in ChallengeRow /\ y.used = x.used /\ y.overdue = x.overdue
        /\ y.attempts = n /\ y.revoked = b /\ y.proof = x.proof
  BY DEF ChallengeRow
<1> QED  BY <1>1, <1>2, <1>3, <1>4, <1>5

\* What the history counts.
LEMMA HistoryRow ==
  ASSUME NEW h \in History
  PROVE /\ h.swept \in 0..MaxPassword /\ h.passwords \in 0..MaxPassword
        /\ h.setups \in 0..MaxSetups /\ h.sources \in SUBSET Ip
        /\ h.seeded \in BOOLEAN
        /\ \A n \in 0..MaxPassword :
             /\ [h EXCEPT !.passwords = n] \in History
             /\ [h EXCEPT !.swept = n] \in History
             /\ [h EXCEPT !.passwords = n, !.swept = n] \in History
        /\ \A n \in 0..MaxSetups : [h EXCEPT !.setups = n] \in History
        /\ \A i \in Ip : [h EXCEPT !.sources = @ \cup {i}] \in History
<1>1. /\ h.swept \in 0..MaxPassword /\ h.passwords \in 0..MaxPassword
      /\ h.setups \in 0..MaxSetups /\ h.sources \in SUBSET Ip
      /\ h.seeded \in BOOLEAN
  BY DEF History
<1>2. \A n \in 0..MaxPassword :
        /\ [h EXCEPT !.passwords = n] \in History
        /\ [h EXCEPT !.swept = n] \in History
        /\ [h EXCEPT !.passwords = n, !.swept = n] \in History
  BY DEF History
<1>3. \A n \in 0..MaxSetups : [h EXCEPT !.setups = n] \in History
  BY DEF History
<1>4. \A i \in Ip : [h EXCEPT !.sources = @ \cup {i}] \in History
  BY DEF History
<1> QED  BY <1>1, <1>2, <1>3, <1>4

-----------------------------------------------------------------------------
(* Requests in flight *)

\* The fields of a request, by what it is for.
LEMMA Fields ==
  ASSUME TypeOK, NEW w \in Worker
  PROVE /\ req[w].op = "verifyEmail" => req[w].token \in MailToken
        /\ req[w].op = "reset" => req[w].token \in ResetToken
        /\ req[w].op \in {"factor", "challenge", "clear", "forget", "open"} =>
             req[w].proof \in Proof
        /\ req[w].op = "failed" => req[w].ip \in Ip
        /\ req[w].op = "attempt" => req[w].ip \in Ip /\ req[w].fresh \in BOOLEAN
        /\ req[w].op = "decide" => req[w].attempt \in 0..MaxFailed
        /\ req[w].op = "lock" => req[w].level \in Lock
        /\ req[w].op \in {"answer", "miss"} =>
             /\ req[w].challenge \in Challenge
             /\ req[w].attempts \in 0..MAX_CHALLENGE_ATTEMPTS
        /\ req[w].op = "accept" =>
             /\ req[w].challenge \in Challenge /\ req[w].write \in BOOLEAN
             /\ req[w].codes \in SUBSET ((1..MaxSetups) \X Code)
        /\ req[w].op = "refresh" =>
             req[w].session \in Session /\ req[w].swept \in 0..MaxPassword
        /\ req[w].op \in {"revokeFamily", "revokeOne"} =>
             req[w].session \in Session
<1>1. req[w] \in Request
  BY DEF TypeOK
<1> QED  BY <1>1 DEF Request, Idle

\* The requests there are.
LEMMA Requesting ==
  /\ Idle \in Request
  /\ \A o \in {"register", "mailToken", "resetToken", "change", "sweep",
               "setup", "disable", "count"} : [op |-> o] \in Request
  /\ \A t \in MailToken : [op |-> "verifyEmail", token |-> t] \in Request
  /\ \A t \in ResetToken : [op |-> "reset", token |-> t] \in Request
  /\ \A o \in {"factor", "challenge", "clear", "forget", "open"}, p \in Proof :
       [op |-> o, proof |-> p] \in Request
  /\ \A i \in Ip : [op |-> "failed", ip |-> i] \in Request
  /\ \A i \in Ip, b \in BOOLEAN :
       [op |-> "attempt", ip |-> i, fresh |-> b] \in Request
  /\ \A n \in 0..MaxFailed : [op |-> "decide", attempt |-> n] \in Request
  /\ \A k \in Lock : [op |-> "lock", level |-> k] \in Request
  /\ \A o \in {"answer", "miss"}, c \in Challenge,
        n \in 0..MAX_CHALLENGE_ATTEMPTS :
       [op |-> o, challenge |-> c, attempts |-> n] \in Request
  /\ \A c \in Challenge, b \in BOOLEAN,
        k \in SUBSET ((1..MaxSetups) \X Code) :
       [op |-> "accept", challenge |-> c, write |-> b, codes |-> k] \in Request
  /\ \A s \in Session, n \in 0..MaxPassword :
       [op |-> "refresh", session |-> s, swept |-> n] \in Request
  /\ \A o \in {"revokeFamily", "revokeOne"}, s \in Session :
       [op |-> o, session |-> s] \in Request
<1> USE DEF Request
<1>1. Idle \in Request
  OBVIOUS
<1>2. \A o \in {"register", "mailToken", "resetToken", "change", "sweep",
                "setup", "disable", "count"} : [op |-> o] \in Request
  OBVIOUS
<1>3. /\ \A t \in MailToken : [op |-> "verifyEmail", token |-> t] \in Request
      /\ \A t \in ResetToken : [op |-> "reset", token |-> t] \in Request
  OBVIOUS
<1>4. \A o \in {"factor", "challenge", "clear", "forget", "open"},
         p \in Proof : [op |-> o, proof |-> p] \in Request
  OBVIOUS
<1>5. /\ \A i \in Ip : [op |-> "failed", ip |-> i] \in Request
      /\ \A i \in Ip, b \in BOOLEAN :
           [op |-> "attempt", ip |-> i, fresh |-> b] \in Request
  OBVIOUS
<1>6. /\ \A n \in 0..MaxFailed : [op |-> "decide", attempt |-> n] \in Request
      /\ \A k \in Lock : [op |-> "lock", level |-> k] \in Request
  OBVIOUS
<1>7. \A o \in {"answer", "miss"}, c \in Challenge,
         n \in 0..MAX_CHALLENGE_ATTEMPTS :
        [op |-> o, challenge |-> c, attempts |-> n] \in Request
  OBVIOUS
<1>8. \A c \in Challenge, b \in BOOLEAN,
         k \in SUBSET ((1..MaxSetups) \X Code) :
        [op |-> "accept", challenge |-> c, write |-> b, codes |-> k] \in Request
  OBVIOUS
<1>9. /\ \A s \in Session, n \in 0..MaxPassword :
           [op |-> "refresh", session |-> s, swept |-> n] \in Request
      /\ \A o \in {"revokeFamily", "revokeOne"}, s \in Session :
           [op |-> o, session |-> s] \in Request
  OBVIOUS
<1> QED  BY <1>1, <1>2, <1>3, <1>4, <1>5, <1>6, <1>7, <1>8, <1>9

\* A request changes what it is for.
LEMMA Renamed ==
  ASSUME TypeOK, NEW w \in Worker
  PROVE /\ req[w].op \in {"factor", "challenge", "clear", "forget", "open"} =>
             \A o \in {"factor", "challenge", "clear", "forget", "open"} :
               [req[w] EXCEPT !.op = o] = [op |-> o, proof |-> req[w].proof]
        /\ req[w].op = "answer" =>
             [req[w] EXCEPT !.op = "miss"] =
               [op |-> "miss", challenge |-> req[w].challenge,
                attempts |-> req[w].attempts]
<1>1. req[w] \in Request
  BY DEF TypeOK
<1>2. CASE req[w].op \in {"factor", "challenge", "clear", "forget", "open"}
  <2>1. req[w] = [op |-> req[w].op, proof |-> req[w].proof]
    BY <1>1, <1>2 DEF Request, Idle
  <2> QED  BY <1>2, <2>1
<1>3. CASE req[w].op = "answer"
  <2>1. req[w] = [op |-> "answer", challenge |-> req[w].challenge,
                  attempts |-> req[w].attempts]
    BY <1>1, <1>3 DEF Request, Idle
  <2> QED  BY <1>3, <2>1
<1> QED  BY <1>2, <1>3

\* What a worker serves now; the others go on with what they had.
LEMMA Served ==
  ASSUME TypeOK, NEW w \in Worker, NEW r, Serve(w, r)
  PROVE /\ r \in Request => req' \in [Worker -> Request]
        /\ req'[w] = r
        /\ \A v \in Worker \ {w} : req'[v] = req[v]
  BY DEF TypeOK, Serve

LEMMA Missed ==
  ASSUME TypeOK, NEW w \in Worker, AnswerWrong(w)
  PROVE /\ req[w].op = "answer"
        /\ req'[w] = [op |-> "miss", challenge |-> req[w].challenge,
                      attempts |-> req[w].attempts]
<1>1. req[w].op = "answer" /\ Serve(w, [req[w] EXCEPT !.op = "miss"])
  BY DEF AnswerWrong
<1>2. [req[w] EXCEPT !.op = "miss"] =
        [op |-> "miss", challenge |-> req[w].challenge,
         attempts |-> req[w].attempts]
  BY <1>1, Renamed
<1> QED  BY <1>1, <1>2, Served

LEMMA Finished ==
  ASSUME TypeOK, NEW w \in Worker, Finish(w)
  PROVE /\ req' \in [Worker -> Request]
        /\ req'[w] = Idle
        /\ \A v \in Worker \ {w} : req'[v] = req[v]
  BY Requesting, Served DEF Finish

-----------------------------------------------------------------------------
(* Types *)

\* A step whose changes are typed.
LEMMA TypeKept ==
  ASSUME TypeOK,
         account' \in Account \cup {Absent}, attempts' \in [Ip -> Attempt],
         session' \in [Session -> SessionRow \cup {Absent}],
         mail' \in [MailToken -> TokenRow \cup {Absent}],
         reset' \in [ResetToken -> TokenRow \cup {Absent}],
         mfa' \in MfaRow \cup {None},
         challenge' \in [Challenge -> ChallengeRow \cup {Absent}],
         history' \in History, req' \in [Worker -> Request]
  PROVE TypeOK'
  BY DEF TypeOK

LEMMA Typed ==
  ASSUME TypeOK
  PROVE /\ account \in Account \cup {Absent} /\ attempts \in [Ip -> Attempt]
        /\ session \in [Session -> SessionRow \cup {Absent}]
        /\ mail \in [MailToken -> TokenRow \cup {Absent}]
        /\ reset \in [ResetToken -> TokenRow \cup {Absent}]
        /\ mfa \in MfaRow \cup {None}
        /\ challenge \in [Challenge -> ChallengeRow \cup {Absent}]
        /\ history \in History /\ req \in [Worker -> Request]
        /\ Registered => account \in Account
        /\ \A s \in Session : Exists(session[s]) => session[s] \in SessionRow
        /\ \A t \in MailToken : Exists(mail[t]) => mail[t] \in TokenRow
        /\ \A t \in ResetToken : Exists(reset[t]) => reset[t] \in TokenRow
        /\ \A c \in Challenge :
             Exists(challenge[c]) => challenge[c] \in ChallengeRow
  BY DEF TypeOK, Registered, Exists

\* What a login proves, and what sessions and challenges are made of it.
LEMMA Proving ==
  ASSUME TypeOK, Registered
  PROVE Proven \in Proof
<1>1. account.password \in Password /\ history.swept \in 0..MaxPassword
  BY Typed, AccountFields, HistoryRow
<1> QED  BY <1>1 DEF Proven, Proof

LEMMA NewRows ==
  ASSUME TypeOK, NEW p \in Proof
  PROVE /\ [used |-> FALSE, revoked |-> FALSE, overdue |-> FALSE,
            attempts |-> 0, proof |-> p] \in ChallengeRow
        /\ \A n \in Session :
             [family |-> n, parent |-> None, live |-> TRUE, overdue |-> FALSE,
              origin |-> [password |-> p.password,
                          straddles |-> history.swept # p.swept]]
               \in SessionRow
<1>1. 0 \in 0..MAX_CHALLENGE_ATTEMPTS
  BY AccountsAssumption
<1>2. [used |-> FALSE, revoked |-> FALSE, overdue |-> FALSE,
       attempts |-> 0, proof |-> p] \in ChallengeRow
  BY <1>1 DEF ChallengeRow
<1>3. p.password \in Password /\ (history.swept # p.swept) \in BOOLEAN
  BY DEF Proof
<1>4. [password |-> p.password, straddles |-> history.swept # p.swept] \in Origin
  BY <1>3 DEF Origin
<1> QED  BY <1>2, <1>4 DEF SessionRow

LEMMA RotatedRow ==
  ASSUME TypeOK, NEW s \in Session, Exists(session[s]), NEW n
  PROVE /\ Rotated(s, n) \in SessionRow
        /\ Rotated(s, n).family = session[s].family
        /\ Rotated(s, n).parent = s
        /\ Rotated(s, n).origin.password = session[s].origin.password
        /\ Rotated(s, n).origin.straddles <=>
             session[s].origin.straddles \/ history.swept # n
<1>1. session[s] \in SessionRow
  BY Typed
<1>2. session[s].origin \in Origin /\ session[s].family \in Session
  BY <1>1 DEF SessionRow
<1> DEFINE o == [session[s].origin EXCEPT
                   !.straddles = @ \/ history.swept # n]
<1>3. /\ o \in Origin /\ o.password = session[s].origin.password
      /\ o.straddles <=> session[s].origin.straddles \/ history.swept # n
  BY <1>2 DEF Origin
<1> QED  BY <1>2, <1>3 DEF Rotated, SessionRow

LEMMA RevokedRows ==
  ASSUME TypeOK
  PROVE /\ RevokeAll \in [Session -> SessionRow \cup {Absent}]
        /\ \A s \in Session :
             /\ Exists(RevokeAll[s]) <=> Exists(session[s])
             /\ Exists(session[s]) =>
                  /\ ~RevokeAll[s].live
                  /\ RevokeAll[s].family = session[s].family
                  /\ RevokeAll[s].parent = session[s].parent
                  /\ RevokeAll[s].origin = session[s].origin
<1>1. ASSUME NEW s \in Session
      PROVE /\ RevokeAll[s] \in SessionRow \cup {Absent}
            /\ Exists(RevokeAll[s]) <=> Exists(session[s])
            /\ Exists(session[s]) =>
                 /\ ~RevokeAll[s].live
                 /\ RevokeAll[s].family = session[s].family
                 /\ RevokeAll[s].parent = session[s].parent
                 /\ RevokeAll[s].origin = session[s].origin
  BY Typed, SessionRows DEF RevokeAll, Revoked, Exists
<1> QED  BY <1>1 DEF RevokeAll

\* A missed challenge: the new count, and revoked or not.
LEMMA MissedRow ==
  ASSUME TypeOK, NEW w \in Worker, MissWrite(w), req[w].challenge \in Challenge,
         challenge[req[w].challenge] \in ChallengeRow
  PROVE LET c == req[w].challenge
            b == challenge[c].revoked
                   \/ req[w].attempts + 1 >= MAX_CHALLENGE_ATTEMPTS IN
        /\ b \in BOOLEAN
        /\ challenge' = [challenge EXCEPT ![c] =
             [challenge[c] EXCEPT !.attempts = req[w].attempts + 1, !.revoked = b]]
  BY Typed DEF MissWrite, ChallengeRow

\* Every step keeps the types.
LEMMA TypeStep ==
  ASSUME AccessInv, [Next]_vars
  PROVE TypeOK'
<1>0. TypeOK /\ Requests
  BY DEF AccessInv
<1>t. /\ account \in Account \cup {Absent} /\ attempts \in [Ip -> Attempt]
      /\ session \in [Session -> SessionRow \cup {Absent}]
      /\ mail \in [MailToken -> TokenRow \cup {Absent}]
      /\ reset \in [ResetToken -> TokenRow \cup {Absent}]
      /\ mfa \in MfaRow \cup {None}
      /\ challenge \in [Challenge -> ChallengeRow \cup {Absent}]
      /\ history \in History /\ req \in [Worker -> Request]
      /\ Registered => account \in Account
      /\ \A s \in Session : Exists(session[s]) => session[s] \in SessionRow
      /\ \A t \in MailToken : Exists(mail[t]) => mail[t] \in TokenRow
      /\ \A t \in ResetToken : Exists(reset[t]) => reset[t] \in TokenRow
      /\ \A c \in Challenge :
           Exists(challenge[c]) => challenge[c] \in ChallengeRow
  BY <1>0, Typed
<1>1. ASSUME NEW w \in Worker, RegisterLoad(w) \/ ResendLoad(w) \/ ForgotLoad(w) \/ ChangeLoad(w)
      PROVE TypeOK'
  BY <1>0, <1>t, <1>1, Served, Requesting, TypeKept DEF RegisterLoad, ResendLoad, ForgotLoad, ChangeLoad
<1>2. ASSUME NEW w \in Worker, RegisterCreate(w)
      PROVE TypeOK'
  <2>1. history' \in History
    <3>1. 1 \in 0..MaxPassword
      BY AccountsAssumption
    <3> QED  BY <1>t, <1>2, <3>1, HistoryRow DEF RegisterCreate
  <2> QED  BY <1>0, <1>t, <1>2, <2>1, Rows, Served, Requesting, TypeKept
           DEF RegisterCreate
<1>3. ASSUME NEW w \in Worker, RegisterConflict(w)
      PROVE TypeOK'
  BY <1>0, <1>t, <1>3, Finished, TypeKept DEF RegisterConflict
<1>4. ASSUME NEW w \in Worker, NEW t \in MailToken, MailTokenCreate(w, t)
      PROVE TypeOK'
  <2>1. mail' \in [MailToken -> TokenRow \cup {Absent}]
    BY <1>t, <1>4, Rows DEF MailTokenCreate
  <2> QED  BY <1>0, <1>t, <1>4, <2>1, Finished, TypeKept DEF MailTokenCreate
<1>5. ASSUME NEW w \in Worker, NEW t \in MailToken, VerifyEmailLoad(w, t)
      PROVE TypeOK'
  BY <1>0, <1>t, <1>5, Served, Requesting, TypeKept DEF VerifyEmailLoad
<1>6. ASSUME NEW w \in Worker, VerifyEmailCommit(w)
      PROVE TypeOK'
  <2>1. req[w].token \in MailToken /\ Exists(mail[req[w].token]) /\ Registered
    BY <1>0, <1>6, Fields DEF VerifyEmailCommit, Requests, RequestSound
  <2>2. [mail[req[w].token] EXCEPT !.used = TRUE] \in TokenRow
    BY <1>t, <2>1, TokenRows
  <2>3. mail' \in [MailToken -> TokenRow \cup {Absent}]
    BY <1>t, <1>6, <2>1, <2>2 DEF VerifyEmailCommit
  <2>4. account' \in Account
    BY <1>t, <1>6, <2>1, ActivateRow DEF VerifyEmailCommit
  <2> QED  BY <1>0, <1>t, <1>6, <2>3, <2>4, Finished, TypeKept
           DEF VerifyEmailCommit
<1>7. ASSUME NEW w \in Worker, NEW t \in ResetToken, ForgotCreate(w, t)
      PROVE TypeOK'
  <2>1. reset' \in [ResetToken -> TokenRow \cup {Absent}]
    BY <1>t, <1>7, Rows DEF ForgotCreate
  <2> QED  BY <1>0, <1>t, <1>7, <2>1, Finished, TypeKept DEF ForgotCreate
<1>8. ASSUME NEW w \in Worker, NEW t \in ResetToken, ResetLoad(w, t)
      PROVE TypeOK'
  BY <1>0, <1>t, <1>8, Served, Requesting, TypeKept DEF ResetLoad
<1>9. ASSUME NEW w \in Worker, ResetCommit(w)
      PROVE TypeOK'
  <2>1. req[w].token \in ResetToken /\ Exists(reset[req[w].token]) /\ Registered
    BY <1>0, <1>9, Fields DEF ResetCommit, Requests, RequestSound
  <2>2. [reset[req[w].token] EXCEPT !.used = TRUE] \in TokenRow
    BY <1>t, <2>1, TokenRows
  <2>3. reset' \in [ResetToken -> TokenRow \cup {Absent}]
    BY <1>t, <1>9, <2>1, <2>2 DEF ResetCommit
  <2>4. account' \in Account
    BY <1>t, <1>9, <2>1, PasswordRow DEF ResetCommit
  <2>5. history' \in History
    <3>1. NextPassword \in 0..MaxPassword
      BY <1>9 DEF ResetCommit, Password
    <3> QED  BY <1>t, <1>9, <3>1, HistoryRow DEF ResetCommit
  <2> QED  BY <1>0, <1>t, <1>9, <2>3, <2>4, <2>5, RevokedRows, Finished, TypeKept
           DEF ResetCommit
<1>10. ASSUME NEW w \in Worker, ChangeWrite(w)
      PROVE TypeOK'
  <2>1. Registered
    BY <1>0, <1>10 DEF ChangeWrite, Requests, RequestSound
  <2>2. account' \in Account
    BY <1>t, <1>10, <2>1, PasswordRow DEF ChangeWrite
  <2>3. history' \in History
    <3>1. NextPassword \in 0..MaxPassword
      BY <1>10 DEF ChangeWrite, Password
    <3> QED  BY <1>t, <1>10, <3>1, HistoryRow DEF ChangeWrite
  <2> QED  BY <1>0, <1>t, <1>10, <2>2, <2>3, Served, Requesting, TypeKept
           DEF ChangeWrite
<1>11. ASSUME NEW w \in Worker, ChangeSweep(w)
      PROVE TypeOK'
  <2>1. Registered
    BY <1>0, <1>11 DEF ChangeSweep, Requests, RequestSound
  <2>2. history' \in History
    <3>1. account.password \in 1..MaxPassword
      BY <1>t, <2>1, AccountFields DEF Password
    <3>2. account.password \in 0..MaxPassword
      BY <3>1, AccountsAssumption
    <3> QED  BY <1>t, <1>11, <3>2, HistoryRow DEF ChangeSweep
  <2> QED  BY <1>0, <1>t, <1>11, <2>2, RevokedRows, Finished, TypeKept
           DEF ChangeSweep
<1>12. ASSUME NEW t \in MailToken, MailExpires(t)
      PROVE TypeOK'
  <2>1. [mail[t] EXCEPT !.overdue = TRUE] \in TokenRow
    BY <1>0, <1>12, Typed, TokenRows DEF MailExpires
  <2>2. mail' \in [MailToken -> TokenRow \cup {Absent}]
    BY <1>t, <1>12, <2>1 DEF MailExpires
  <2> QED  BY <1>0, <1>t, <1>12, <2>2, TypeKept DEF MailExpires
<1>13. ASSUME NEW t \in ResetToken, ResetExpires(t)
      PROVE TypeOK'
  <2>1. [reset[t] EXCEPT !.overdue = TRUE] \in TokenRow
    BY <1>0, <1>13, Typed, TokenRows DEF ResetExpires
  <2>2. reset' \in [ResetToken -> TokenRow \cup {Absent}]
    BY <1>t, <1>13, <2>1 DEF ResetExpires
  <2> QED  BY <1>0, <1>t, <1>13, <2>2, TypeKept DEF ResetExpires
<1>14. ASSUME NEW w \in Worker, NEW s \in Session, RefreshLoad(w, s) \/ ReuseLoad(w, s) \/ RevokeLoad(w, s)
      PROVE TypeOK'
  <2>1. CASE RefreshLoad(w, s)
    <3>1. [op |-> "refresh", session |-> s, swept |-> history.swept] \in Request
      BY <1>t, HistoryRow, Requesting
    <3> QED  BY <1>0, <1>t, <2>1, <3>1, Served, TypeKept DEF RefreshLoad
  <2>2. CASE ReuseLoad(w, s)
    BY <1>0, <1>t, <2>2, Served, Requesting, TypeKept DEF ReuseLoad
  <2>3. CASE RevokeLoad(w, s)
    BY <1>0, <1>t, <2>3, Served, Requesting, TypeKept DEF RevokeLoad
  <2> QED  BY <1>14, <2>1, <2>2, <2>3
<1>15. ASSUME NEW w \in Worker, NEW m \in Session, RefreshCommit(w, m)
      PROVE TypeOK'
  <2>1. req[w].session \in Session /\ Exists(session[req[w].session])
    BY <1>0, <1>15, Fields DEF RefreshCommit, Requests, RequestSound
  <2>2. /\ [session[req[w].session] EXCEPT !.live = FALSE] \in SessionRow
        /\ Rotated(req[w].session, req[w].swept) \in SessionRow
    BY <1>0, <1>t, <2>1, SessionRows, RotatedRow
  <2>3. session' \in [Session -> SessionRow \cup {Absent}]
    BY <1>t, <1>15, <2>1, <2>2 DEF RefreshCommit
  <2> QED  BY <1>0, <1>t, <1>15, <2>3, Finished, TypeKept DEF RefreshCommit
<1>16. ASSUME NEW w \in Worker, ReuseRevoke(w)
      PROVE TypeOK'
  <2>1. session' \in [Session -> SessionRow \cup {Absent}]
    BY <1>t, <1>16, SessionRows DEF ReuseRevoke, InFamily, Exists, Revoked
  <2> QED  BY <1>0, <1>t, <1>16, <2>1, Finished, TypeKept DEF ReuseRevoke
<1>17. ASSUME NEW w \in Worker, RevokeWrite(w)
      PROVE TypeOK'
  <2>1. req[w].session \in Session /\ Exists(session[req[w].session])
    BY <1>0, <1>17, Fields DEF RevokeWrite, Requests, RequestSound
  <2>2. [session[req[w].session] EXCEPT !.live = FALSE] \in SessionRow
    BY <1>t, <2>1, SessionRows
  <2>3. session' \in [Session -> SessionRow \cup {Absent}]
    BY <1>t, <1>17, <2>1, <2>2 DEF RevokeWrite
  <2> QED  BY <1>0, <1>t, <1>17, <2>3, Finished, TypeKept DEF RevokeWrite
<1>18. ASSUME NEW s \in Session, SessionExpires(s)
      PROVE TypeOK'
  <2>1. [session[s] EXCEPT !.overdue = TRUE] \in SessionRow
    BY <1>0, <1>18, Typed, SessionRows DEF SessionExpires
  <2>2. session' \in [Session -> SessionRow \cup {Absent}]
    BY <1>t, <1>18, <2>1 DEF SessionExpires
  <2> QED  BY <1>0, <1>t, <1>18, <2>2, TypeKept DEF SessionExpires
<1>19. ASSUME NEW w \in Worker, LoginLoad(w)
      PROVE TypeOK'
  BY <1>0, <1>t, <1>19, Served, Requesting, Proving, TypeKept DEF LoginLoad
<1>20. ASSUME NEW w \in Worker, LoginFactor(w)
      PROVE TypeOK'
  <2>1. PICK o \in {"clear", "challenge"} : Serve(w, [req[w] EXCEPT !.op = o])
    BY <1>20 DEF LoginFactor
  <2>2. req[w].proof \in Proof
    BY <1>0, <1>20, Fields DEF LoginFactor
  <2>3. [req[w] EXCEPT !.op = o] = [op |-> o, proof |-> req[w].proof]
    BY <1>0, <1>20, Renamed DEF LoginFactor
  <2>4. [op |-> o, proof |-> req[w].proof] \in Request
    BY <2>2, Requesting
  <2>5. req' \in [Worker -> Request]
    BY <1>0, <2>1, <2>3, <2>4, Served
  <2> QED  BY <1>0, <1>t, <1>20, <2>5, TypeKept DEF LoginFactor
<1>21. ASSUME NEW w \in Worker, CompleteClear(w)
      PROVE TypeOK'
  <2>1. req[w].proof \in Proof /\ account \in Account /\ "none" \in Lock
    BY <1>0, <1>t, <1>21, Fields
       DEF CompleteClear, Requests, RequestSound, Lock
  <2>2. account' \in Account
    BY <1>21, <2>1, ClearRow DEF CompleteClear
  <2>3. req' \in [Worker -> Request]
    <3>1. [req[w] EXCEPT !.op = "forget"] = [op |-> "forget", proof |-> req[w].proof]
      BY <1>0, <1>21, Renamed DEF CompleteClear
    <3>2. [op |-> "forget", proof |-> req[w].proof] \in Request
      BY <2>1, Requesting
    <3> QED  BY <1>0, <1>21, <3>1, <3>2, Served DEF CompleteClear
  <2> QED  BY <1>0, <1>t, <1>21, <2>2, <2>3, TypeKept DEF CompleteClear
<1>22. ASSUME NEW w \in Worker, CompleteForget(w)
      PROVE TypeOK'
  <2>1. attempts' \in [Ip -> Attempt]
    BY <1>22 DEF CompleteForget, Attempt
  <2>0. req[w].proof \in Proof
    BY <1>0, <1>22, Fields DEF CompleteForget
  <2>2. req' \in [Worker -> Request]
    <3>1. [req[w] EXCEPT !.op = "open"] = [op |-> "open", proof |-> req[w].proof]
      BY <1>0, <1>22, Renamed DEF CompleteForget
    <3>2. [op |-> "open", proof |-> req[w].proof] \in Request
      BY <2>0, Requesting
    <3> QED  BY <1>0, <1>22, <3>1, <3>2, Served DEF CompleteForget
  <2> QED  BY <1>0, <1>t, <1>22, <2>1, <2>2, TypeKept DEF CompleteForget
<1>23. ASSUME NEW w \in Worker, NEW m \in Session, CompleteOpen(w, m)
      PROVE TypeOK'
  <2>1. req[w].proof \in Proof
    BY <1>0, <1>23, Fields DEF CompleteOpen
  <2>2. session' \in [Session -> SessionRow \cup {Absent}]
    BY <1>0, <1>t, <1>23, <2>1, NewRows DEF CompleteOpen, CreateSession
  <2> QED  BY <1>0, <1>t, <1>23, <2>2, Finished, TypeKept DEF CompleteOpen
<1>24. ASSUME NEW w \in Worker, NEW i \in Ip, FailedLoad(w, i)
      PROVE TypeOK'
  BY <1>0, <1>t, <1>24, Served, Requesting, TypeKept DEF FailedLoad
<1>25. ASSUME NEW w \in Worker, FailedRead(w)
      PROVE TypeOK'
  <2>1. req[w].ip \in Ip /\ (attempts[req[w].ip] = "fresh") \in BOOLEAN
    BY <1>0, <1>25, Fields DEF FailedRead
  <2>2. [op |-> "attempt", ip |-> req[w].ip,
         fresh |-> (attempts[req[w].ip] = "fresh")] \in Request
    BY <2>1, Requesting
  <2>3. req' \in [Worker -> Request]
    BY <1>0, <1>25, <2>2, Served DEF FailedRead
  <2> QED  BY <1>0, <1>t, <1>25, <2>3, TypeKept DEF FailedRead
<1>26. ASSUME NEW w \in Worker, FailedRow(w)
      PROVE TypeOK'
  <2>1. req[w].ip \in Ip
    BY <1>0, <1>26, Fields DEF FailedRow
  <2>2. attempts' \in [Ip -> Attempt]
    BY <1>t, <1>26, <2>1 DEF FailedRow, Attempt
  <2>3. history' \in History
    BY <1>t, <1>26, <2>1, HistoryRow DEF FailedRow
  <2> QED  BY <1>0, <1>t, <1>26, <2>2, <2>3, Served, Requesting, TypeKept
           DEF FailedRow
<1>27. ASSUME NEW w \in Worker, FailedRowGone(w)
      PROVE TypeOK'
  BY <1>0, <1>t, <1>27, Finished, TypeKept DEF FailedRowGone
<1>28. ASSUME NEW w \in Worker, FailedCount(w)
      PROVE TypeOK'
  <2>1. account \in Account
    BY <1>0, <1>t, <1>28 DEF FailedCount, Requests, RequestSound
  <2>2. account.failed + 1 \in 0..MaxFailed
    <3>1. account.failed \in 0..MaxFailed /\ account.failed < MaxFailed
      BY <1>28, <2>1, AccountFields DEF FailedCount
    <3> QED  BY <3>1, AccountsAssumption
  <2>3. account' \in Account
    BY <1>28, <2>1, <2>2, CountRow DEF FailedCount
  <2> QED  BY <1>0, <1>t, <1>28, <2>2, <2>3, Served, Requesting, TypeKept
           DEF FailedCount
<1>29. ASSUME NEW w \in Worker, FailedDecide(w)
      PROVE TypeOK'
  BY <1>0, <1>t, <1>29, Served, Requesting, TypeKept DEF FailedDecide, LockFor, Lock
<1>30. ASSUME NEW w \in Worker, FailedLock(w)
      PROVE TypeOK'
  <2>1. account \in Account /\ req[w].level \in Lock
    BY <1>0, <1>t, <1>30, Fields DEF FailedLock, Requests, RequestSound
  <2>2. account' \in Account
    BY <1>30, <2>1, LockRow DEF FailedLock
  <2> QED  BY <1>0, <1>t, <1>30, <2>2, Finished, TypeKept DEF FailedLock
<1>31. ASSUME NEW i \in Ip, WindowCloses(i)
      PROVE TypeOK'
  <2>1. attempts' \in [Ip -> Attempt]
    BY <1>t, <1>31 DEF WindowCloses, Attempt
  <2> QED  BY <1>0, <1>t, <1>31, <2>1, TypeKept DEF WindowCloses
<1>32. ASSUME LockExpires
      PROVE TypeOK'
  <2>1. account' \in Account
    BY <1>t, <1>32, LockRow DEF LockExpires, Lock
  <2> QED  BY <1>0, <1>t, <1>32, <2>1, TypeKept DEF LockExpires
<1>33. ASSUME NEW w \in Worker, SetupLoad(w) \/ DisableLoad(w)
      PROVE TypeOK'
  BY <1>0, <1>t, <1>33, Served, Requesting, TypeKept DEF SetupLoad, DisableLoad
<1>34. ASSUME NEW w \in Worker, SetupCommit(w)
      PROVE TypeOK'
  <2>1. account \in Account
    BY <1>0, <1>t, <1>34 DEF SetupCommit, Requests, RequestSound
  <2>2. account' \in Account
    BY <1>34, <2>1, StageRow DEF SetupCommit
  <2>3. history.setups + 1 \in 1..MaxSetups /\ history.setups + 1 \in 0..MaxSetups
    <3>1. history.setups \in 0..MaxSetups /\ history.setups + 1 <= MaxSetups
      BY <1>t, <1>34, HistoryRow DEF SetupCommit
    <3> QED  BY <3>1, AccountsAssumption
  <2>4. history' \in History
    BY <1>t, <1>34, <2>3, HistoryRow DEF SetupCommit
  <2>5. mfa' \in MfaRow
    BY <1>34, <2>3 DEF SetupCommit, MfaRow
  <2> QED  BY <1>0, <1>t, <1>34, <2>2, <2>4, <2>5, Finished, TypeKept
           DEF SetupCommit
<1>35. ASSUME NEW w \in Worker, SetupConflict(w) \/ DisableConflict(w)
      PROVE TypeOK'
  BY <1>0, <1>t, <1>35, Finished, TypeKept DEF SetupConflict, DisableConflict
<1>36. ASSUME NEW w \in Worker, DisableCommit(w)
      PROVE TypeOK'
  <2>1. account \in Account
    BY <1>0, <1>t, <1>36 DEF DisableCommit, Requests, RequestSound
  <2>2. account' \in Account
    BY <1>36, <2>1, StageRow DEF DisableCommit
  <2> QED  BY <1>0, <1>t, <1>36, <2>2, Finished, TypeKept DEF DisableCommit
<1>37. ASSUME NEW w \in Worker, NEW c \in Challenge, ChallengeCreate(w, c)
      PROVE TypeOK'
  <2>1. req[w].proof \in Proof
    BY <1>0, <1>37, Fields DEF ChallengeCreate
  <2>2. challenge' \in [Challenge -> ChallengeRow \cup {Absent}]
    BY <1>0, <1>t, <1>37, <2>1, NewRows DEF ChallengeCreate
  <2> QED  BY <1>0, <1>t, <1>37, <2>2, Finished, TypeKept DEF ChallengeCreate
<1>38. ASSUME NEW w \in Worker, NEW c \in Challenge, AnswerLoad(w, c)
      PROVE TypeOK'
  <2>1. challenge[c].attempts \in 0..MAX_CHALLENGE_ATTEMPTS
    BY <1>0, <1>38, Typed, ChallengeRows DEF AnswerLoad, ValidChallenge
  <2> QED  BY <1>0, <1>t, <1>38, <2>1, Served, Requesting, TypeKept
           DEF AnswerLoad
<1>39. ASSUME NEW w \in Worker, AnswerWithoutFactor(w) \/ AcceptConflict(w)
      PROVE TypeOK'
  BY <1>0, <1>t, <1>39, Finished, TypeKept DEF AnswerWithoutFactor, AcceptConflict
<1>40. ASSUME NEW w \in Worker, AnswerRight(w)
      PROVE TypeOK'
  <2>1. mfa.codes \in SUBSET ((1..MaxSetups) \X Code)
    BY <1>t, <1>40 DEF AnswerRight, MfaRow
  <2>2. PICK b \in BOOLEAN, k \in SUBSET ((1..MaxSetups) \X Code) :
          Accept(w, b, k)
    <3>1. CASE Accept(w, FALSE, {})
      BY <3>1
    <3>2. ASSUME NEW k \in mfa.codes, Accept(w, TRUE, mfa.codes \ {k})
          PROVE \E b \in BOOLEAN, j \in SUBSET ((1..MaxSetups) \X Code) :
                  Accept(w, b, j)
      <4>1. mfa.codes \ {k} \in SUBSET ((1..MaxSetups) \X Code)
        BY <2>1
      <4> QED  BY <3>2, <4>1
    <3> QED  BY <1>40, <3>1, <3>2 DEF AnswerRight
  <2>3. req' \in [Worker -> Request]
    <3>1. req[w].challenge \in Challenge
      BY <1>0, <1>40, Fields DEF AnswerRight
    <3>2. [op |-> "accept", challenge |-> req[w].challenge, write |-> b,
           codes |-> k] \in Request
      BY <3>1, Requesting
    <3> QED  BY <1>0, <2>2, <3>2, Served DEF Accept
  <2> QED  BY <1>0, <1>t, <1>40, <2>3, TypeKept DEF AnswerRight
<1>41. ASSUME NEW w \in Worker, AnswerWrong(w)
      PROVE TypeOK'
  <2>1. /\ req[w].challenge \in Challenge
        /\ req[w].attempts \in 0..MAX_CHALLENGE_ATTEMPTS
    BY <1>0, <1>41, Fields DEF AnswerWrong
  <2>2. [req[w] EXCEPT !.op = "miss"] =
          [op |-> "miss", challenge |-> req[w].challenge,
           attempts |-> req[w].attempts]
    BY <1>0, <1>41, Renamed DEF AnswerWrong
  <2>3. [op |-> "miss", challenge |-> req[w].challenge,
         attempts |-> req[w].attempts] \in Request
    BY <2>1, Requesting
  <2>4. req' \in [Worker -> Request]
    BY <1>0, <1>41, <2>2, <2>3, Served DEF AnswerWrong
  <2> QED  BY <1>0, <1>t, <1>41, <2>4, TypeKept DEF AnswerWrong
<1>42. ASSUME NEW w \in Worker, MissWrite(w)
      PROVE TypeOK'
  <2>1. /\ req[w].challenge \in Challenge
        /\ challenge[req[w].challenge] \in ChallengeRow
        /\ req[w].attempts \in 0..MAX_CHALLENGE_ATTEMPTS
        /\ req[w].attempts < MAX_CHALLENGE_ATTEMPTS
    BY <1>0, <1>42, Typed, Fields DEF MissWrite, Requests, RequestSound
  <2>2. req[w].attempts + 1 \in 0..MAX_CHALLENGE_ATTEMPTS
    BY <2>1, AccountsAssumption
  <2>3. PICK b \in BOOLEAN :
          challenge' = [challenge EXCEPT ![req[w].challenge] =
            [challenge[req[w].challenge] EXCEPT
               !.attempts = req[w].attempts + 1, !.revoked = b]]
    BY <1>0, <1>42, <2>1, MissedRow
  <2>5. [challenge[req[w].challenge] EXCEPT
           !.attempts = req[w].attempts + 1, !.revoked = b] \in ChallengeRow
    BY <2>1, <2>2, ChallengeRows
  <2>4. challenge' \in [Challenge -> ChallengeRow \cup {Absent}]
    BY <1>t, <2>1, <2>3, <2>5
  <2> QED  BY <1>0, <1>t, <1>42, <2>4, Finished, TypeKept DEF MissWrite
<1>43. ASSUME NEW w \in Worker, AcceptCommit(w)
      PROVE TypeOK'
  <2>1. /\ req[w].challenge \in Challenge
        /\ challenge[req[w].challenge] \in ChallengeRow
        /\ req[w].codes \in SUBSET ((1..MaxSetups) \X Code)
    BY <1>0, <1>43, Typed, Fields DEF AcceptCommit, Requests, RequestSound
  <2>2. [challenge[req[w].challenge] EXCEPT !.used = TRUE] \in ChallengeRow
        /\ challenge[req[w].challenge].proof \in Proof
    BY <2>1, ChallengeRows
  <2>3. challenge' \in [Challenge -> ChallengeRow \cup {Absent}]
    BY <1>t, <1>43, <2>1, <2>2 DEF AcceptCommit
  <2>4. mfa' \in MfaRow
    <3>1. mfa \in MfaRow
      BY <1>t, <1>43 DEF AcceptCommit
    <3>2. [mfa EXCEPT !.codes = req[w].codes] \in MfaRow
      BY <2>1, <3>1 DEF MfaRow
    <3> QED  BY <1>43, <3>1, <3>2 DEF AcceptCommit
  <2>5. req' \in [Worker -> Request]
    BY <1>0, <1>43, <2>2, Served, Requesting DEF AcceptCommit
  <2> QED  BY <1>0, <1>t, <1>43, <2>3, <2>4, <2>5, TypeKept DEF AcceptCommit
<1>44. ASSUME NEW c \in Challenge, ChallengeExpires(c)
      PROVE TypeOK'
  <2>1. [challenge[c] EXCEPT !.overdue = TRUE] \in ChallengeRow
    BY <1>0, <1>44, Typed, ChallengeRows DEF ChallengeExpires
  <2>2. challenge' \in [Challenge -> ChallengeRow \cup {Absent}]
    BY <1>t, <1>44, <2>1 DEF ChallengeExpires
  <2> QED  BY <1>0, <1>t, <1>44, <2>2, TypeKept DEF ChallengeExpires
<1>45. ASSUME NEW w \in Worker, Abort(w)
      PROVE TypeOK'
  BY <1>0, <1>t, <1>45, Finished, TypeKept DEF Abort
<1>46. ASSUME UNCHANGED vars
      PROVE TypeOK'
  BY <1>0, <1>t, <1>46, TypeKept DEF vars
<1> QED
  <2>1. CASE CredentialNext
    BY <1>1, <1>2, <1>3, <1>4, <1>5, <1>6, <1>7, <1>8, <1>9, <1>10, <1>11, <1>12, <1>13, <2>1
       DEF CredentialNext
  <2>2. CASE SessionNext
    BY <1>14, <1>15, <1>16, <1>17, <1>18, <2>2 DEF SessionNext
  <2>3. CASE LoginNext
    BY <1>19, <1>20, <1>21, <1>22, <1>23, <1>24, <1>25, <1>26, <1>27, <1>28, <1>29, <1>30, <1>31, <1>32, <2>3
       DEF LoginNext
  <2>4. CASE MfaNext
    BY <1>33, <1>34, <1>35, <1>36, <1>37, <1>38, <1>39, <1>40, <1>41, <1>42, <1>43, <1>44, <2>4
       DEF MfaNext
  <2> QED  BY <1>45, <1>46, <2>1, <2>2, <2>3, <2>4 DEF Next

-----------------------------------------------------------------------------
(* Which steps write which table *)

LEMMA AccountFrame ==
  ASSUME [Next]_vars
  PROVE \/ UNCHANGED account
        \/ \E w \in Worker :
             \/ RegisterCreate(w) \/ VerifyEmailCommit(w) \/ ResetCommit(w)
             \/ ChangeWrite(w) \/ CompleteClear(w) \/ FailedCount(w)
             \/ FailedLock(w) \/ SetupCommit(w) \/ DisableCommit(w)
        \/ LockExpires
<1> USE DEF vars
<1>1. CASE CredentialNext
  BY <1>1 DEF CredentialNext, RegisterLoad, RegisterConflict, ResendLoad,
       MailTokenCreate, VerifyEmailLoad, ForgotLoad, ForgotCreate, ResetLoad,
       ChangeLoad, ChangeSweep, MailExpires, ResetExpires
<1>2. CASE SessionNext
  BY <1>2 DEF SessionNext, RefreshLoad, RefreshCommit, ReuseLoad, RevokeLoad,
       ReuseRevoke, RevokeWrite, SessionExpires
<1>3. CASE LoginNext
  BY <1>3 DEF LoginNext, LoginLoad, LoginFactor, CompleteForget, CompleteOpen,
       FailedLoad, FailedRead, FailedRow, FailedRowGone, FailedDecide,
       WindowCloses
<1>4. CASE MfaNext
  BY <1>4 DEF MfaNext, SetupLoad, SetupConflict, DisableLoad, DisableConflict,
       ChallengeCreate, AnswerLoad, AnswerWithoutFactor, AnswerRight,
       AnswerWrong, MissWrite, AcceptCommit, AcceptConflict, ChallengeExpires
<1> QED  BY <1>1, <1>2, <1>3, <1>4 DEF Next, Abort

LEMMA SessionFrame ==
  ASSUME [Next]_vars
  PROVE \/ UNCHANGED session
        \/ \E w \in Worker :
             \/ ResetCommit(w) \/ ChangeSweep(w) \/ ReuseRevoke(w)
             \/ RevokeWrite(w)
             \/ \E n \in Session : RefreshCommit(w, n) \/ CompleteOpen(w, n)
        \/ \E s \in Session : SessionExpires(s)
<1> USE DEF vars
<1>1. CASE CredentialNext
  BY <1>1 DEF CredentialNext, RegisterLoad, RegisterCreate, RegisterConflict,
       ResendLoad, MailTokenCreate, VerifyEmailLoad, VerifyEmailCommit,
       ForgotLoad, ForgotCreate, ResetLoad, ChangeLoad, ChangeWrite,
       MailExpires, ResetExpires
<1>2. CASE SessionNext
  BY <1>2 DEF SessionNext, RefreshLoad, ReuseLoad, RevokeLoad
<1>3. CASE LoginNext
  BY <1>3 DEF LoginNext, LoginLoad, LoginFactor, CompleteClear, CompleteForget,
       FailedLoad, FailedRead, FailedRow, FailedRowGone, FailedCount,
       FailedDecide, FailedLock, WindowCloses, LockExpires
<1>4. CASE MfaNext
  BY <1>4 DEF MfaNext, SetupLoad, SetupCommit, SetupConflict, DisableLoad,
       DisableCommit, DisableConflict, ChallengeCreate, AnswerLoad,
       AnswerWithoutFactor, AnswerRight, AnswerWrong, MissWrite, AcceptCommit,
       AcceptConflict, ChallengeExpires
<1> QED  BY <1>1, <1>2, <1>3, <1>4 DEF Next, Abort

LEMMA MailFrame ==
  ASSUME [Next]_vars
  PROVE \/ UNCHANGED mail
        \/ \E w \in Worker : VerifyEmailCommit(w)
        \/ \E w \in Worker, t \in MailToken : MailTokenCreate(w, t)
        \/ \E t \in MailToken : MailExpires(t)
<1> USE DEF vars
<1>1. CASE CredentialNext
  BY <1>1 DEF CredentialNext, RegisterLoad, RegisterCreate, RegisterConflict,
       ResendLoad, VerifyEmailLoad, ForgotLoad, ForgotCreate, ResetLoad,
       ResetCommit, ChangeLoad, ChangeWrite, ChangeSweep, ResetExpires
<1>2. CASE SessionNext
  BY <1>2 DEF SessionNext, RefreshLoad, RefreshCommit, ReuseLoad, RevokeLoad,
       ReuseRevoke, RevokeWrite, SessionExpires
<1>3. CASE LoginNext
  BY <1>3 DEF LoginNext, LoginLoad, LoginFactor, CompleteClear, CompleteForget,
       CompleteOpen, FailedLoad, FailedRead, FailedRow, FailedRowGone,
       FailedCount, FailedDecide, FailedLock, WindowCloses, LockExpires
<1>4. CASE MfaNext
  BY <1>4 DEF MfaNext, SetupLoad, SetupCommit, SetupConflict, DisableLoad,
       DisableCommit, DisableConflict, ChallengeCreate, AnswerLoad,
       AnswerWithoutFactor, AnswerRight, AnswerWrong, MissWrite, AcceptCommit,
       AcceptConflict, ChallengeExpires
<1> QED  BY <1>1, <1>2, <1>3, <1>4 DEF Next, Abort

LEMMA ResetFrame ==
  ASSUME [Next]_vars
  PROVE \/ UNCHANGED reset
        \/ \E w \in Worker : ResetCommit(w)
        \/ \E w \in Worker, t \in ResetToken : ForgotCreate(w, t)
        \/ \E t \in ResetToken : ResetExpires(t)
<1> USE DEF vars
<1>1. CASE CredentialNext
  BY <1>1 DEF CredentialNext, RegisterLoad, RegisterCreate, RegisterConflict,
       ResendLoad, MailTokenCreate, VerifyEmailLoad, VerifyEmailCommit,
       ForgotLoad, ResetLoad, ChangeLoad, ChangeWrite, ChangeSweep, MailExpires
<1>2. CASE SessionNext
  BY <1>2 DEF SessionNext, RefreshLoad, RefreshCommit, ReuseLoad, RevokeLoad,
       ReuseRevoke, RevokeWrite, SessionExpires
<1>3. CASE LoginNext
  BY <1>3 DEF LoginNext, LoginLoad, LoginFactor, CompleteClear, CompleteForget,
       CompleteOpen, FailedLoad, FailedRead, FailedRow, FailedRowGone,
       FailedCount, FailedDecide, FailedLock, WindowCloses, LockExpires
<1>4. CASE MfaNext
  BY <1>4 DEF MfaNext, SetupLoad, SetupCommit, SetupConflict, DisableLoad,
       DisableCommit, DisableConflict, ChallengeCreate, AnswerLoad,
       AnswerWithoutFactor, AnswerRight, AnswerWrong, MissWrite, AcceptCommit,
       AcceptConflict, ChallengeExpires
<1> QED  BY <1>1, <1>2, <1>3, <1>4 DEF Next, Abort

LEMMA MfaFrame ==
  ASSUME [Next]_vars
  PROVE \/ UNCHANGED mfa
        \/ \E w \in Worker :
             SetupCommit(w) \/ DisableCommit(w) \/ AcceptCommit(w)
<1> USE DEF vars
<1>1. CASE CredentialNext
  BY <1>1 DEF CredentialNext, RegisterLoad, RegisterCreate, RegisterConflict,
       ResendLoad, MailTokenCreate, VerifyEmailLoad, VerifyEmailCommit,
       ForgotLoad, ForgotCreate, ResetLoad, ResetCommit, ChangeLoad,
       ChangeWrite, ChangeSweep, MailExpires, ResetExpires
<1>2. CASE SessionNext
  BY <1>2 DEF SessionNext, RefreshLoad, RefreshCommit, ReuseLoad, RevokeLoad,
       ReuseRevoke, RevokeWrite, SessionExpires
<1>3. CASE LoginNext
  BY <1>3 DEF LoginNext, LoginLoad, LoginFactor, CompleteClear, CompleteForget,
       CompleteOpen, FailedLoad, FailedRead, FailedRow, FailedRowGone,
       FailedCount, FailedDecide, FailedLock, WindowCloses, LockExpires
<1>4. CASE MfaNext
  BY <1>4 DEF MfaNext, SetupLoad, SetupConflict, DisableLoad, DisableConflict,
       ChallengeCreate, AnswerLoad, AnswerWithoutFactor, AnswerRight,
       AnswerWrong, MissWrite, AcceptConflict, ChallengeExpires
<1> QED  BY <1>1, <1>2, <1>3, <1>4 DEF Next, Abort

LEMMA ChallengeFrame ==
  ASSUME [Next]_vars
  PROVE \/ UNCHANGED challenge
        \/ \E w \in Worker : MissWrite(w) \/ AcceptCommit(w)
        \/ \E w \in Worker, c \in Challenge : ChallengeCreate(w, c)
        \/ \E c \in Challenge : ChallengeExpires(c)
<1> USE DEF vars
<1>1. CASE CredentialNext
  BY <1>1 DEF CredentialNext, RegisterLoad, RegisterCreate, RegisterConflict,
       ResendLoad, MailTokenCreate, VerifyEmailLoad, VerifyEmailCommit,
       ForgotLoad, ForgotCreate, ResetLoad, ResetCommit, ChangeLoad,
       ChangeWrite, ChangeSweep, MailExpires, ResetExpires
<1>2. CASE SessionNext
  BY <1>2 DEF SessionNext, RefreshLoad, RefreshCommit, ReuseLoad, RevokeLoad,
       ReuseRevoke, RevokeWrite, SessionExpires
<1>3. CASE LoginNext
  BY <1>3 DEF LoginNext, LoginLoad, LoginFactor, CompleteClear, CompleteForget,
       CompleteOpen, FailedLoad, FailedRead, FailedRow, FailedRowGone,
       FailedCount, FailedDecide, FailedLock, WindowCloses, LockExpires
<1>4. CASE MfaNext
  BY <1>4 DEF MfaNext, SetupLoad, SetupCommit, SetupConflict, DisableLoad,
       DisableCommit, DisableConflict, AnswerLoad, AnswerWithoutFactor,
       AnswerRight, AnswerWrong, AcceptConflict
<1> QED  BY <1>1, <1>2, <1>3, <1>4 DEF Next, Abort

LEMMA HistoryFrame ==
  ASSUME [Next]_vars
  PROVE \/ UNCHANGED history
        \/ \E w \in Worker :
             \/ RegisterCreate(w) \/ ResetCommit(w) \/ ChangeWrite(w)
             \/ ChangeSweep(w) \/ FailedRow(w) \/ SetupCommit(w)
<1> USE DEF vars
<1>1. CASE CredentialNext
  BY <1>1 DEF CredentialNext, RegisterLoad, RegisterConflict, ResendLoad,
       MailTokenCreate, VerifyEmailLoad, VerifyEmailCommit, ForgotLoad,
       ForgotCreate, ResetLoad, ChangeLoad, MailExpires, ResetExpires
<1>2. CASE SessionNext
  BY <1>2 DEF SessionNext, RefreshLoad, RefreshCommit, ReuseLoad, RevokeLoad,
       ReuseRevoke, RevokeWrite, SessionExpires
<1>3. CASE LoginNext
  BY <1>3 DEF LoginNext, LoginLoad, LoginFactor, CompleteClear, CompleteForget,
       CompleteOpen, FailedLoad, FailedRead, FailedRowGone, FailedCount,
       FailedDecide, FailedLock, WindowCloses, LockExpires
<1>4. CASE MfaNext
  BY <1>4 DEF MfaNext, SetupLoad, SetupConflict, DisableLoad, DisableCommit,
       DisableConflict, ChallengeCreate, AnswerLoad, AnswerWithoutFactor,
       AnswerRight, AnswerWrong, MissWrite, AcceptCommit, AcceptConflict,
       ChallengeExpires
<1> QED  BY <1>1, <1>2, <1>3, <1>4 DEF Next, Abort

LEMMA AttemptsFrame ==
  ASSUME [Next]_vars
  PROVE \/ UNCHANGED attempts
        \/ \E w \in Worker : CompleteForget(w) \/ FailedRow(w)
        \/ \E i \in Ip : WindowCloses(i)
<1> USE DEF vars
<1>1. CASE CredentialNext
  BY <1>1 DEF CredentialNext, RegisterLoad, RegisterCreate, RegisterConflict,
       ResendLoad, MailTokenCreate, VerifyEmailLoad, VerifyEmailCommit,
       ForgotLoad, ForgotCreate, ResetLoad, ResetCommit, ChangeLoad,
       ChangeWrite, ChangeSweep, MailExpires, ResetExpires
<1>2. CASE SessionNext
  BY <1>2 DEF SessionNext, RefreshLoad, RefreshCommit, ReuseLoad, RevokeLoad,
       ReuseRevoke, RevokeWrite, SessionExpires
<1>3. CASE LoginNext
  BY <1>3 DEF LoginNext, LoginLoad, LoginFactor, CompleteClear, CompleteOpen,
       FailedLoad, FailedRead, FailedRowGone, FailedCount, FailedDecide,
       FailedLock, LockExpires
<1>4. CASE MfaNext
  BY <1>4 DEF MfaNext, SetupLoad, SetupCommit, SetupConflict, DisableLoad,
       DisableCommit, DisableConflict, ChallengeCreate, AnswerLoad,
       AnswerWithoutFactor, AnswerRight, AnswerWrong, MissWrite, AcceptCommit,
       AcceptConflict, ChallengeExpires
<1> QED  BY <1>1, <1>2, <1>3, <1>4 DEF Next, Abort

-----------------------------------------------------------------------------
(* What a step does to each table *)

\* The passwords only grow in number, what was made good stays so, the
\* addresses that failed are remembered, and sweeping ends every session.
LEMMA HistoryStep ==
  ASSUME AccessInv, [Next]_vars
  PROVE /\ history'.seeded = history.seeded
        /\ history.sources \subseteq history'.sources
        /\ history.swept <= history'.swept
        /\ history'.swept # history.swept =>
             \A s \in Session : session'[s] # Absent => ~session'[s].live
<1>0. TypeOK /\ Requests /\ Owned /\ history \in History
  BY Typed DEF AccessInv
<1>1. /\ TypeOK /\ Requests /\ Owned /\ history \in History
      /\ history.swept \in Nat /\ history.passwords \in Nat
  <2>1. history.swept \in 0..MaxPassword /\ history.passwords \in 0..MaxPassword
    BY <1>0, HistoryRow
  <2> QED  BY <1>0, <2>1, AccountsAssumption
<1>2. CASE UNCHANGED history
  BY <1>1, <1>2
<1>3. ASSUME NEW w \in Worker, RegisterCreate(w) \/ ChangeWrite(w)
      PROVE /\ history'.seeded = history.seeded
            /\ history'.sources = history.sources
            /\ history'.swept = history.swept
  BY <1>1, <1>3 DEF RegisterCreate, ChangeWrite, History
<1>4. ASSUME NEW w \in Worker, FailedRow(w)
      PROVE /\ history'.seeded = history.seeded
            /\ history.sources \subseteq history'.sources
            /\ history'.swept = history.swept
  BY <1>1, <1>4 DEF FailedRow, History
<1>5. ASSUME NEW w \in Worker, SetupCommit(w)
      PROVE /\ history'.seeded = history.seeded
            /\ history'.sources = history.sources
            /\ history'.swept = history.swept
  BY <1>1, <1>5 DEF SetupCommit, History
<1>6. ASSUME NEW w \in Worker, ResetCommit(w) \/ ChangeSweep(w)
      PROVE /\ history'.seeded = history.seeded
            /\ history'.sources = history.sources
            /\ history.swept <= history'.swept
            /\ \A s \in Session : session'[s] # Absent => ~session'[s].live
  <2>1. session' = RevokeAll
    BY <1>6 DEF ResetCommit, ChangeSweep
  <2>2. \A s \in Session : session'[s] # Absent => ~session'[s].live
    BY <1>1, <2>1, RevokedRows DEF Exists
  <2>3. Registered /\ account.password = history.passwords
        /\ history.swept <= history.passwords
    BY <1>1, <1>6 DEF ResetCommit, ChangeSweep, Requests, RequestSound, Owned
  <2>4. /\ history'.seeded = history.seeded
        /\ history'.sources = history.sources
        /\ \/ history'.swept = history.passwords + 1
           \/ history'.swept = account.password
    BY <1>1, <1>6 DEF ResetCommit, ChangeSweep, History, NextPassword
  <2>5. history.swept <= history'.swept
    BY <1>1, <2>3, <2>4
  <2> QED  BY <2>2, <2>4, <2>5
<1> QED  BY <1>1, <1>2, <1>3, <1>4, <1>5, <1>6, HistoryFrame

\* How a session begins: a login opens it, or another one is rotated into it
\* and ends with that.
Opened(s) ==
  /\ Registered
  /\ \E p \in Proof :
       /\ ProofSound(p)
       /\ session'[s].origin =
            [password |-> p.password, straddles |-> history.swept # p.swept]
  /\ session'[s].family = s /\ session'[s].parent = None

RotatedFrom(s, q) ==
  /\ q # s /\ Exists(session[q])
  /\ \E w \in Worker :
       /\ req[w].op = "refresh" /\ req[w].session = q
       /\ session'[s] = Rotated(q, req[w].swept)
  /\ ~session'[q].live

\* A row that is left alone, revoked or expires.
LEMMA RowStays ==
  ASSUME TypeOK, NEW s \in Session, NEW y,
         \/ y = session[s]
         \/ Exists(session[s]) /\ y = Revoked(s)
         \/ Exists(session[s]) /\ y = [session[s] EXCEPT !.overdue = TRUE]
  PROVE /\ y # Absent <=> Exists(session[s])
        /\ Exists(session[s]) =>
             /\ y.family = session[s].family /\ y.parent = session[s].parent
             /\ y.origin = session[s].origin
             /\ y.live => session[s].live
<1>1. CASE y = session[s]
  BY <1>1 DEF Exists
<1>2. CASE Exists(session[s])
  <2>1. session[s] \in SessionRow
    BY <1>2, Typed
  <2>2. CASE y = Revoked(s)
    <3>1. y = [session[s] EXCEPT !.live = FALSE]
      BY <2>2 DEF Revoked
    <3> QED  BY <1>2, <2>1, <3>1, Rows DEF SessionRow
  <2>3. CASE y = [session[s] EXCEPT !.overdue = TRUE]
    BY <1>2, <2>1, <2>3, Rows DEF SessionRow
  <2> QED  BY <1>1, <2>2, <2>3
<1> QED  BY <1>1, <1>2

\* A session keeps where it comes from, never revives, and a new one begins in
\* one of the two ways.
LEMMA SessionStep ==
  ASSUME AccessInv, [Next]_vars
  PROVE \A s \in Session :
          /\ Exists(session[s]) =>
               /\ session'[s] # Absent
               /\ session'[s].family = session[s].family
               /\ session'[s].parent = session[s].parent
               /\ session'[s].origin = session[s].origin
               /\ session'[s].live => session[s].live
          /\ ~Exists(session[s]) /\ session'[s] # Absent =>
               /\ history' = history
               /\ Opened(s) \/ \E q \in Session : RotatedFrom(s, q)
<1>1. /\ TypeOK /\ Requests
      /\ session \in [Session -> SessionRow \cup {Absent}]
      /\ \A s \in Session : Exists(session[s]) => session[s] \in SessionRow
  BY Typed DEF AccessInv
<1> DEFINE Stays(s) ==
      /\ session'[s] # Absent <=> Exists(session[s])
      /\ Exists(session[s]) =>
           /\ session'[s].family = session[s].family
           /\ session'[s].parent = session[s].parent
           /\ session'[s].origin = session[s].origin
           /\ session'[s].live => session[s].live
<1> DEFINE Begins(s) ==
      /\ ~Exists(session[s])
      /\ history' = history
      /\ Opened(s) \/ \E q \in Session : RotatedFrom(s, q)
<1>2. CASE UNCHANGED session
  <2>1. \A s \in Session : Stays(s)
    BY <1>2 DEF Exists
  <2> QED  BY <2>1
<1>3. ASSUME NEW w \in Worker, ResetCommit(w) \/ ChangeSweep(w)
      PROVE \A s \in Session : Stays(s)
  <2>1. session' = RevokeAll
    BY <1>3 DEF ResetCommit, ChangeSweep
  <2> QED  BY <1>1, <2>1, RevokedRows DEF Exists
<1>4. ASSUME NEW w \in Worker, ReuseRevoke(w)
      PROVE \A s \in Session : Stays(s)
  <2>1. ASSUME NEW s \in Session
        PROVE \/ session'[s] = session[s]
              \/ Exists(session[s]) /\ session'[s] = Revoked(s)
    <3> DEFINE f == session[req[w].session].family
    <3>1. session'[s] = IF InFamily(s, f) THEN Revoked(s) ELSE session[s]
      BY <1>4 DEF ReuseRevoke
    <3>2. InFamily(s, f) => Exists(session[s])
      BY DEF InFamily
    <3> HIDE DEF f
    <3>3. CASE InFamily(s, f)
      BY <3>1, <3>2, <3>3
    <3>4. CASE ~InFamily(s, f)
      BY <3>1, <3>4
    <3> QED  BY <3>3, <3>4
  <2> QED  BY <1>1, <2>1, RowStays
<1>5. ASSUME NEW w \in Worker, RevokeWrite(w)
      PROVE \A s \in Session : Stays(s)
  <2>1. req[w].session \in Session /\ Exists(session[req[w].session])
    BY <1>1, <1>5, Fields DEF RevokeWrite, Requests, RequestSound
  <2>2. ASSUME NEW s \in Session
        PROVE \/ session'[s] = session[s]
              \/ Exists(session[s]) /\ session'[s] = Revoked(s)
    <3>1. CASE s = req[w].session
      <4>1. session'[s] = [session[s] EXCEPT !.live = FALSE]
        BY <1>1, <1>5, <2>1, <3>1 DEF RevokeWrite
      <4> QED  BY <2>1, <3>1, <4>1 DEF Revoked
    <3>2. CASE s # req[w].session
      BY <1>1, <1>5, <2>1, <3>2 DEF RevokeWrite
    <3> QED  BY <3>1, <3>2
  <2> QED  BY <1>1, <2>2, RowStays
<1>6. ASSUME NEW x \in Session, SessionExpires(x)
      PROVE \A s \in Session : Stays(s)
  <2>1. ASSUME NEW s \in Session
        PROVE \/ session'[s] = session[s]
              \/ /\ Exists(session[s])
                 /\ session'[s] = [session[s] EXCEPT !.overdue = TRUE]
    BY <1>1, <1>6 DEF SessionExpires
  <2> QED  BY <1>1, <2>1, RowStays
<1>7. ASSUME NEW w \in Worker, NEW n \in Session, CompleteOpen(w, n)
      PROVE \A s \in Session : Stays(s) \/ Begins(s)
  <2>1. req[w].proof \in Proof /\ ProofSound(req[w].proof) /\ Registered
    BY <1>1, <1>7, Fields DEF CompleteOpen, Requests, RequestSound
  <2>2. \A s \in Session \ {n} : session'[s] = session[s]
    BY <1>1, <1>7 DEF CompleteOpen, CreateSession
  <2>3. session'[n] = [family |-> n, parent |-> None, live |-> TRUE,
                       overdue |-> FALSE,
                       origin |-> [password |-> req[w].proof.password,
                         straddles |-> history.swept # req[w].proof.swept]]
    BY <1>1, <1>7 DEF CompleteOpen, CreateSession
  <2>4. Begins(n)
    <3>1. ~Exists(session[n]) /\ history' = history
      BY <1>7 DEF CompleteOpen
    <3>2. Opened(n)
      BY <2>1, <2>3 DEF Opened
    <3> QED  BY <3>1, <3>2
  <2>5. \A s \in Session \ {n} : Stays(s)
    BY <2>2 DEF Exists
  <2> QED  BY <2>4, <2>5
<1>8. ASSUME NEW w \in Worker, NEW n \in Session, RefreshCommit(w, n)
      PROVE \A s \in Session : Stays(s) \/ Begins(s)
  <2> DEFINE q == req[w].session
  <2>1. q \in Session /\ Exists(session[q]) /\ ~Exists(session[n]) /\ q # n
    BY <1>1, <1>8, Fields DEF RefreshCommit, Requests, RequestSound
  <2>2. /\ \A s \in Session \ {n, q} : session'[s] = session[s]
        /\ session'[q] = [session[q] EXCEPT !.live = FALSE]
        /\ session'[n] = Rotated(q, req[w].swept)
    BY <1>1, <1>8, <2>1 DEF RefreshCommit
  <2>3. \A s \in Session \ {n} : Stays(s)
    <3>1. ASSUME NEW s \in Session \ {n}
          PROVE \/ session'[s] = session[s]
                \/ Exists(session[s]) /\ session'[s] = Revoked(s)
      <4>1. CASE s = q
        <5>1. session'[s] = Revoked(s)
          BY <2>2, <4>1 DEF Revoked
        <5> QED  BY <2>1, <4>1, <5>1
      <4>2. CASE s # q
        BY <2>2, <4>2
      <4> QED  BY <4>1, <4>2
    <3> QED  BY <1>1, <3>1, RowStays
  <2>4. Begins(n)
    <3>1. ~Exists(session[n]) /\ history' = history /\ req[w].op = "refresh"
      BY <1>8 DEF RefreshCommit
    <3>2. ~session'[q].live
      BY <1>1, <2>1, <2>2, SessionRows
    <3>3. RotatedFrom(n, q)
      BY <2>1, <2>2, <3>1, <3>2 DEF RotatedFrom
    <3> QED  BY <2>1, <3>1, <3>3
  <2> QED  BY <2>3, <2>4
<1>9. \A s \in Session : Stays(s) \/ Begins(s)
  BY <1>2, <1>3, <1>4, <1>5, <1>6, <1>7, <1>8, SessionFrame DEF Exists
<1> QED  BY <1>9 DEF Exists

\* The users row, once there, stays.
LEMMA AccountStays ==
  ASSUME AccessInv, [Next]_vars, Registered
  PROVE account' # Absent
<1>1. TypeOK /\ TypeOK' /\ account \in Account
  BY Typed, TypeStep DEF AccessInv
<1>2. "none" \in Lock /\ "past" \in Lock
  BY DEF Lock
<1>3. CASE UNCHANGED account
  BY <1>1, <1>3, Rows
<1>4. ASSUME NEW w \in Worker, RegisterCreate(w)
      PROVE account' # Absent
  BY <1>4, Rows DEF RegisterCreate
<1>5. ASSUME NEW w \in Worker, VerifyEmailCommit(w)
      PROVE account' # Absent
  BY <1>1, <1>5, ActivateRow, Rows DEF VerifyEmailCommit
<1>6. ASSUME NEW w \in Worker, ResetCommit(w) \/ ChangeWrite(w)
      PROVE account' # Absent
  <2>1. /\ NextPassword \in Password
        /\ account' = [account EXCEPT !.password = NextPassword]
    BY <1>6 DEF ResetCommit, ChangeWrite
  <2>2. account' \in Account
    BY <1>1, <2>1, PasswordRow
  <2> QED  BY <2>2, Rows
<1>7. ASSUME NEW w \in Worker, CompleteClear(w)
      PROVE account' # Absent
  BY <1>1, <1>2, <1>7, ClearRow, Rows DEF CompleteClear
<1>8. ASSUME NEW w \in Worker, FailedCount(w)
      PROVE account' # Absent
  <2>1. account.failed \in 0..MaxFailed /\ account.failed < MaxFailed
    BY <1>1, <1>8, AccountFields DEF FailedCount
  <2>2. account.failed + 1 \in 0..MaxFailed
    BY <2>1, AccountsAssumption
  <2> QED  BY <1>1, <1>8, <2>2, CountRow, Rows DEF FailedCount
<1>9. ASSUME NEW w \in Worker, FailedLock(w)
      PROVE account' # Absent
  <2>1. req[w].level \in Lock
    BY <1>1, <1>9, Fields DEF FailedLock
  <2> QED  BY <1>1, <1>9, <2>1, LockRow, Rows DEF FailedLock
<1>10. ASSUME NEW w \in Worker, SetupCommit(w) \/ DisableCommit(w)
       PROVE account' # Absent
  <2>1. PICK g \in {"NONE", "MFA_VERIFIED"} :
          account' = [account EXCEPT !.authStage = g]
    BY <1>10 DEF SetupCommit, DisableCommit
  <2>2. account' \in Account
    BY <1>1, <2>1, StageRow
  <2> QED  BY <2>2, Rows
<1>11. CASE LockExpires
  BY <1>1, <1>2, <1>11, LockRow, Rows DEF LockExpires
<1> QED  BY <1>3, <1>4, <1>5, <1>6, <1>7, <1>8, <1>9, <1>10, <1>11, AccountFrame

\* Tokens stay once created, and a spent one stays spent.
LEMMA MailStep ==
  ASSUME AccessInv, [Next]_vars
  PROVE \A t \in MailToken :
          /\ Exists(mail[t]) =>
               /\ mail'[t] # Absent
               /\ mail[t].used => mail'[t].used
               /\ mail'[t].used => mail[t].used \/ account'.status = "ACTIVE"
          /\ ~Exists(mail[t]) /\ mail'[t] # Absent =>
               Registered /\ ~mail'[t].used
<1>1. /\ TypeOK /\ Requests /\ mail \in [MailToken -> TokenRow \cup {Absent}]
      /\ Registered => account \in Account
      /\ \A t \in MailToken : Exists(mail[t]) => mail[t] \in TokenRow
  BY Typed DEF AccessInv
<1>2. CASE UNCHANGED mail
  BY <1>2 DEF Exists
<1>3. ASSUME NEW w \in Worker, VerifyEmailCommit(w), NEW t \in MailToken
      PROVE /\ Exists(mail[t]) =>
                 /\ mail'[t] # Absent
                 /\ mail[t].used => mail'[t].used
                 /\ mail'[t].used => mail[t].used \/ account'.status = "ACTIVE"
            /\ ~Exists(mail[t]) => mail'[t] = Absent
  <2>1. /\ req[w].token \in MailToken /\ Exists(mail[req[w].token])
        /\ Registered
    BY <1>1, <1>3, Fields DEF VerifyEmailCommit, Requests, RequestSound
  <2>2. account'.status = "ACTIVE"
    BY <1>1, <1>3, <2>1, ActivateRow DEF VerifyEmailCommit
  <2>3. CASE t = req[w].token
    <3>1. mail'[t] = [mail[t] EXCEPT !.used = TRUE]
      BY <1>1, <1>3, <2>1, <2>3 DEF VerifyEmailCommit
    <3>2. Exists(mail[t]) /\ mail[t] \in TokenRow
      BY <1>1, <2>1, <2>3
    <3> QED  BY <2>2, <3>1, <3>2, TokenRows
  <2>4. CASE t # req[w].token
    <3>1. mail'[t] = mail[t]
      BY <1>1, <1>3, <2>1, <2>4 DEF VerifyEmailCommit
    <3> QED  BY <3>1 DEF Exists
  <2> QED  BY <2>3, <2>4
<1>4. ASSUME NEW w \in Worker, NEW n \in MailToken, MailTokenCreate(w, n),
             NEW t \in MailToken
      PROVE /\ Exists(mail[t]) => mail'[t] = mail[t]
            /\ ~Exists(mail[t]) /\ mail'[t] # Absent =>
                 Registered /\ ~mail'[t].used
  <2>1. Registered
    BY <1>1, <1>4 DEF MailTokenCreate, Requests, RequestSound
  <2>2. /\ ~Exists(mail[n]) /\ mail'[n] = Fresh
        /\ t # n => mail'[t] = mail[t]
    BY <1>1, <1>4 DEF MailTokenCreate
  <2> QED  BY <2>1, <2>2, Rows DEF Exists
<1>5. ASSUME NEW x \in MailToken, MailExpires(x), NEW t \in MailToken
      PROVE /\ Exists(mail[t]) =>
                 mail'[t] # Absent /\ mail'[t].used = mail[t].used
            /\ ~Exists(mail[t]) => mail'[t] = Absent
  <2>1. CASE t = x
    <3>1. mail'[t] = [mail[t] EXCEPT !.overdue = TRUE] /\ Exists(mail[t])
      BY <1>1, <1>5, <2>1 DEF MailExpires
    <3>2. mail[t] \in TokenRow
      BY <1>1, <3>1
    <3> QED  BY <3>1, <3>2, TokenRows
  <2>2. CASE t # x
    <3>1. mail'[t] = mail[t]
      BY <1>1, <1>5, <2>2 DEF MailExpires
    <3> QED  BY <3>1 DEF Exists
  <2> QED  BY <2>1, <2>2
<1>6. ASSUME NEW t \in MailToken, Exists(mail[t]), mail'[t] = mail[t]
      PROVE mail'[t] # Absent
  BY <1>6 DEF Exists
<1> QED  BY <1>2, <1>3, <1>4, <1>5, <1>6, MailFrame

LEMMA ResetStep ==
  ASSUME AccessInv, [Next]_vars
  PROVE \A t \in ResetToken :
          /\ Exists(reset[t]) => reset'[t] # Absent
          /\ ~Exists(reset[t]) /\ reset'[t] # Absent => Registered
<1>1. /\ TypeOK /\ Requests
      /\ reset \in [ResetToken -> TokenRow \cup {Absent}]
      /\ \A t \in ResetToken : Exists(reset[t]) => reset[t] \in TokenRow
  BY Typed DEF AccessInv
<1>2. CASE UNCHANGED reset
  BY <1>2 DEF Exists
<1>3. ASSUME NEW w \in Worker, ResetCommit(w), NEW t \in ResetToken
      PROVE /\ Exists(reset[t]) => reset'[t] # Absent
            /\ ~Exists(reset[t]) /\ reset'[t] # Absent => Registered
  <2>1. Registered
    BY <1>1, <1>3 DEF ResetCommit, Requests, RequestSound
  <2>2. req[w].token \in ResetToken /\ Exists(reset[req[w].token])
    BY <1>1, <1>3, Fields DEF ResetCommit, Requests, RequestSound
  <2>3. CASE t = req[w].token
    <3>1. reset'[t] = [reset[t] EXCEPT !.used = TRUE] /\ reset[t] \in TokenRow
      BY <1>1, <1>3, <2>2, <2>3 DEF ResetCommit
    <3> QED  BY <2>1, <3>1, TokenRows, Rows
  <2>4. CASE t # req[w].token
    BY <1>1, <1>3, <2>1, <2>2, <2>4 DEF ResetCommit, Exists
  <2> QED  BY <2>3, <2>4
<1>4. ASSUME NEW w \in Worker, NEW n \in ResetToken, ForgotCreate(w, n),
             NEW t \in ResetToken
      PROVE /\ Exists(reset[t]) => reset'[t] # Absent
            /\ ~Exists(reset[t]) /\ reset'[t] # Absent => Registered
  <2>1. Registered
    BY <1>1, <1>4 DEF ForgotCreate, Requests, RequestSound
  <2>2. reset'[n] = Fresh /\ (t # n => reset'[t] = reset[t])
    BY <1>1, <1>4 DEF ForgotCreate
  <2> QED  BY <2>1, <2>2, Rows DEF Exists
<1>5. ASSUME NEW x \in ResetToken, ResetExpires(x), NEW t \in ResetToken
      PROVE /\ Exists(reset[t]) => reset'[t] # Absent
            /\ ~Exists(reset[t]) => reset'[t] = Absent
  <2>1. CASE t = x
    <3>1. reset'[t] = [reset[t] EXCEPT !.overdue = TRUE] /\ Exists(reset[t])
      BY <1>1, <1>5, <2>1 DEF ResetExpires
    <3>2. reset[t] \in TokenRow
      BY <1>1, <3>1
    <3>3. [reset[t] EXCEPT !.overdue = TRUE] \in TokenRow
      BY <3>2, TokenRows
    <3> QED  BY <3>1, <3>3, Rows
  <2>2. CASE t # x
    BY <1>1, <1>5, <2>2 DEF ResetExpires, Exists
  <2> QED  BY <2>1, <2>2
<1> QED  BY <1>2, <1>3, <1>4, <1>5, ResetFrame

\* A challenge keeps its proof and never becomes good again; a count that
\* reaches the limit closes it.
LEMMA ChallengeStep ==
  ASSUME AccessInv, [Next]_vars
  PROVE \A c \in Challenge :
          /\ Exists(challenge[c]) =>
               /\ challenge'[c] # Absent
               /\ challenge'[c].proof = challenge[c].proof
               /\ challenge[c].used => challenge'[c].used
               /\ challenge[c].revoked => challenge'[c].revoked
               /\ challenge[c].overdue => challenge'[c].overdue
               /\ challenge'[c].attempts = challenge[c].attempts
                    \/ challenge'[c].attempts < MAX_CHALLENGE_ATTEMPTS
                    \/ challenge'[c].revoked
          /\ ~Exists(challenge[c]) /\ challenge'[c] # Absent =>
               /\ Registered /\ history' = history
               /\ ProofSound(challenge'[c].proof)
               /\ challenge'[c].attempts = 0
<1>1. /\ TypeOK /\ Requests
      /\ challenge \in [Challenge -> ChallengeRow \cup {Absent}]
      /\ \A c \in Challenge :
           Exists(challenge[c]) => challenge[c] \in ChallengeRow
  BY Typed DEF AccessInv
<1> DEFINE Stays(c) ==
      /\ challenge'[c] # Absent <=> Exists(challenge[c])
      /\ Exists(challenge[c]) =>
           /\ challenge'[c].proof = challenge[c].proof
           /\ challenge[c].used => challenge'[c].used
           /\ challenge[c].revoked => challenge'[c].revoked
           /\ challenge[c].overdue => challenge'[c].overdue
           /\ \/ challenge'[c].attempts = challenge[c].attempts
              \/ challenge'[c].attempts < MAX_CHALLENGE_ATTEMPTS
              \/ challenge'[c].revoked
<1>s. ASSUME NEW c \in Challenge, challenge'[c] = challenge[c]
      PROVE Stays(c)
  BY <1>s DEF Exists
<1>2. ASSUME NEW w \in Worker, MissWrite(w), NEW c \in Challenge
      PROVE Stays(c)
  <2> DEFINE d == req[w].challenge
             n == req[w].attempts + 1
             b == challenge[d].revoked \/ n >= MAX_CHALLENGE_ATTEMPTS
  <2>1. /\ d \in Challenge /\ Exists(challenge[d])
        /\ challenge[d] \in ChallengeRow
        /\ req[w].attempts \in 0..MAX_CHALLENGE_ATTEMPTS
        /\ req[w].attempts < MAX_CHALLENGE_ATTEMPTS
    BY <1>1, <1>2, Fields DEF MissWrite, Requests, RequestSound
  <2>2. n \in 0..MAX_CHALLENGE_ATTEMPTS
    BY <2>1, AccountsAssumption
  <2>3. /\ b \in BOOLEAN
        /\ challenge' = [challenge EXCEPT ![d] =
             [challenge[d] EXCEPT !.attempts = n, !.revoked = b]]
    BY <1>1, <1>2, <2>1, MissedRow
  <2>4. n < MAX_CHALLENGE_ATTEMPTS \/ b
    BY <2>2, AccountsAssumption
  <2>5. challenge[d].revoked => b
    OBVIOUS
  <2>6. CASE c = d
    <3>1. challenge'[c] = [challenge[d] EXCEPT !.attempts = n, !.revoked = b]
      BY <1>1, <2>1, <2>3, <2>6
    <3>2. b \in BOOLEAN
      BY <2>3
    <3> HIDE DEF n, b
    <3>3. PICK x \in ChallengeRow : x = challenge[d]
      BY <2>1
    <3>4. challenge'[c] = [x EXCEPT !.attempts = n, !.revoked = b]
      BY <3>1, <3>3
    <3>5. /\ challenge'[c] \in ChallengeRow
          /\ challenge'[c].used = challenge[d].used
          /\ challenge'[c].overdue = challenge[d].overdue
          /\ challenge'[c].attempts = n /\ challenge'[c].revoked = b
          /\ challenge'[c].proof = challenge[d].proof
      BY <2>2, <3>2, <3>3, <3>4 DEF ChallengeRow
    <3> QED  BY <2>1, <2>4, <2>5, <2>6, <3>5, Rows
  <2>7. CASE c # d
    <3> HIDE DEF n, b
    <3>1. challenge'[c] = challenge[c]
      BY <1>1, <2>1, <2>3, <2>7
    <3> QED  BY <1>s, <3>1
  <2> QED  BY <2>6, <2>7
<1>3. ASSUME NEW w \in Worker, AcceptCommit(w), NEW c \in Challenge
      PROVE Stays(c)
  <2> DEFINE d == req[w].challenge
  <2>1. /\ d \in Challenge /\ Exists(challenge[d])
        /\ challenge[d] \in ChallengeRow
    BY <1>1, <1>3, Fields DEF AcceptCommit, Requests, RequestSound
  <2>2. CASE c = d
    <3>1. challenge'[c] = [challenge[c] EXCEPT !.used = TRUE]
      BY <1>1, <1>3, <2>1, <2>2 DEF AcceptCommit
    <3>2. LET y == [challenge[c] EXCEPT !.used = TRUE] IN
            /\ y \in ChallengeRow /\ y.used /\ y.revoked = challenge[c].revoked
            /\ y.overdue = challenge[c].overdue
            /\ y.attempts = challenge[c].attempts
            /\ y.proof = challenge[c].proof
      BY <2>1, <2>2, ChallengeRows
    <3> QED  BY <2>1, <2>2, <3>1, <3>2, Rows
  <2>3. CASE c # d
    <3>1. challenge'[c] = challenge[c]
      BY <1>1, <1>3, <2>1, <2>3 DEF AcceptCommit
    <3> QED  BY <1>s, <3>1
  <2> QED  BY <2>2, <2>3
<1>4. ASSUME NEW x \in Challenge, ChallengeExpires(x), NEW c \in Challenge
      PROVE Stays(c)
  <2>1. CASE c = x
    <3>1. /\ challenge'[c] = [challenge[c] EXCEPT !.overdue = TRUE]
          /\ Exists(challenge[c]) /\ challenge[c] \in ChallengeRow
      BY <1>1, <1>4, <2>1 DEF ChallengeExpires
    <3>2. LET y == [challenge[c] EXCEPT !.overdue = TRUE] IN
            /\ y \in ChallengeRow /\ y.overdue /\ y.revoked = challenge[c].revoked
            /\ y.used = challenge[c].used
            /\ y.attempts = challenge[c].attempts
            /\ y.proof = challenge[c].proof
      BY <3>1, ChallengeRows
    <3> QED  BY <3>1, <3>2, Rows
  <2>2. CASE c # x
    <3>1. challenge'[c] = challenge[c]
      BY <1>1, <1>4, <2>2 DEF ChallengeExpires
    <3> QED  BY <1>s, <3>1
  <2> QED  BY <2>1, <2>2
<1>5. ASSUME NEW w \in Worker, NEW n \in Challenge, ChallengeCreate(w, n),
             NEW c \in Challenge
      PROVE \/ Stays(c)
            \/ /\ ~Exists(challenge[c]) /\ Registered /\ history' = history
               /\ ProofSound(challenge'[c].proof)
               /\ challenge'[c].attempts = 0
  <2>1. Registered /\ ProofSound(req[w].proof)
    BY <1>1, <1>5 DEF ChallengeCreate, Requests, RequestSound
  <2>2. CASE c = n
    BY <1>1, <1>5, <2>1, <2>2 DEF ChallengeCreate
  <2>3. CASE c # n
    <3>1. challenge'[c] = challenge[c]
      BY <1>1, <1>5, <2>3 DEF ChallengeCreate
    <3> QED  BY <1>s, <3>1
  <2> QED  BY <2>2, <2>3
<1>6. CASE UNCHANGED challenge
  <2>1. \A c \in Challenge : Stays(c)
    BY <1>6, <1>s
  <2> QED  BY <2>1
<1>7. \A c \in Challenge :
        \/ Stays(c)
        \/ /\ ~Exists(challenge[c]) /\ Registered /\ history' = history
           /\ ProofSound(challenge'[c].proof)
           /\ challenge'[c].attempts = 0
  <2> HIDE DEF Stays
  <2> QED  BY <1>2, <1>3, <1>4, <1>5, <1>6, <1>s, ChallengeFrame
<1> QED  BY <1>7

-----------------------------------------------------------------------------
(* Requests *)

\* What the requests of the others rely on only grows.
Grown ==
  /\ Registered => account' # Absent
  /\ history.swept <= history'.swept
  /\ history.sources \subseteq history'.sources
  /\ \A t \in MailToken : Exists(mail[t]) => mail'[t] # Absent
  /\ \A t \in ResetToken : Exists(reset[t]) => reset'[t] # Absent
  /\ \A c \in Challenge : Exists(challenge[c]) => challenge'[c] # Absent
  /\ \A s \in Session :
       Exists(session[s]) =>
         session'[s] # Absent /\ session'[s].origin = session[s].origin

LEMMA Grows ==
  ASSUME AccessInv, [Next]_vars
  PROVE Grown
  BY AccountStays, HistoryStep, MailStep, ResetStep, ChallengeStep, SessionStep
     DEF Grown

LEMMA ProofKept ==
  ASSUME AccessInv, [Next]_vars, NEW p \in Proof, ProofSound(p)
  PROVE p.swept <= p.password /\ p.swept <= history'.swept
<1>1. history \in History /\ history' \in History
  BY TypeStep, Typed DEF AccessInv, TypeOK
<1>2. history.swept \in 0..MaxPassword /\ history'.swept \in 0..MaxPassword
  BY <1>1, HistoryRow
<1>3. p.swept \in 0..MaxPassword
  BY DEF Proof
<1>4. history.swept <= history'.swept
  BY HistoryStep
<1> QED  BY <1>2, <1>3, <1>4, AccountsAssumption DEF ProofSound

\* A request that is not served in a step stays sound.
LEMMA OthersKept ==
  ASSUME AccessInv, [Next]_vars, NEW v \in Worker, req'[v] = req[v]
  PROVE RequestSound(v)'
<1>1. TypeOK /\ RequestSound(v) /\ Grown
  BY Grows DEF AccessInv, Requests
<1>2. TwoSources => TwoSources'
  BY <1>1 DEF TwoSources, Grown
<1>3. req[v].op \in {"factor", "challenge", "clear", "forget", "open"} =>
        ProofSound(req[v].proof)'
  <2>1. SUFFICES ASSUME req[v].op \in {"factor", "challenge", "clear",
                                       "forget", "open"}
                 PROVE ProofSound(req[v].proof)'
    OBVIOUS
  <2>2. req[v].proof \in Proof /\ ProofSound(req[v].proof)
    BY <1>1, <2>1, Fields DEF RequestSound
  <2>3. req'[v].proof = req[v].proof
    OBVIOUS
  <2> QED  BY <2>2, <2>3, ProofKept DEF ProofSound
<1>4. req[v].op = "refresh" =>
        /\ req[v].swept <= history'.swept
        /\ session'[req[v].session].origin.password < req[v].swept =>
             session'[req[v].session].origin.straddles
  <2>1. SUFFICES ASSUME req[v].op = "refresh"
                 PROVE /\ req[v].swept <= history'.swept
                       /\ session'[req[v].session].origin.password
                            < req[v].swept =>
                              session'[req[v].session].origin.straddles
    OBVIOUS
  <2>2. req[v].session \in Session /\ req[v].swept \in 0..MaxPassword
        /\ Exists(session[req[v].session]) /\ req[v].swept <= history.swept
    BY <1>1, <2>1, Fields DEF RequestSound
  <2>3. session'[req[v].session].origin = session[req[v].session].origin
    BY <1>1, <2>2 DEF Grown
  <2>4. history.swept \in 0..MaxPassword /\ history'.swept \in 0..MaxPassword
        /\ history.swept <= history'.swept
    BY <1>1, TypeStep, Typed, HistoryRow DEF Grown, TypeOK
  <2>5. req[v].swept <= history'.swept
    BY <2>2, <2>4, AccountsAssumption
  <2> QED  BY <1>1, <2>1, <2>3, <2>5 DEF RequestSound
<1>5. /\ req[v].op = "verifyEmail" => mail'[req[v].token] # Absent
      /\ req[v].op = "reset" => reset'[req[v].token] # Absent
      /\ req[v].op \in {"answer", "miss", "accept"} =>
           challenge'[req[v].challenge] # Absent
      /\ req[v].op \in {"refresh", "revokeFamily", "revokeOne"} =>
           session'[req[v].session] # Absent
      /\ req[v].op \notin {"idle", "register"} => account' # Absent
  BY <1>1, Fields DEF RequestSound, Grown
<1> QED  BY <1>1, <1>2, <1>3, <1>4, <1>5
         DEF RequestSound, Registered, Exists, ProofSound

\* The requests after a step in which w was served, when what it was given is
\* sound: by what it is for.
LEMMA SoundServed ==
  ASSUME AccessInv, [Next]_vars, NEW w \in Worker, NEW r, Serve(w, r),
         RequestSound(w)'
  PROVE Requests'
<1>1. ASSUME NEW v \in Worker PROVE RequestSound(v)'
  <2>1. CASE v = w
    BY <2>1
  <2>2. CASE v # w
    BY <2>2, Served, OthersKept DEF AccessInv
  <2> QED  BY <2>1, <2>2
<1> QED  BY <1>1 DEF Requests

LEMMA SoundFinished ==
  ASSUME AccessInv, [Next]_vars, NEW w \in Worker, Finish(w)
  PROVE Requests'
<1>1. req'[w] = Idle /\ Idle.op = "idle"
  BY Finished DEF AccessInv, Idle
<1>2. RequestSound(w)'
  BY <1>1 DEF RequestSound
<1> QED  BY <1>2, SoundServed DEF Finish

LEMMA SoundPlain ==
  ASSUME AccessInv, [Next]_vars, NEW w \in Worker, NEW r, Serve(w, r),
         r.op \in {"register", "mailToken", "resetToken", "change", "sweep",
                   "setup", "disable", "failed", "attempt", "count", "decide"},
         r.op # "register" => account' # Absent
  PROVE Requests'
<1>1. req'[w] = r
  BY Served DEF AccessInv
<1>2. RequestSound(w)'
  BY <1>1 DEF RequestSound, Registered, Exists
<1> QED  BY <1>2, SoundServed

LEMMA SoundProof ==
  ASSUME AccessInv, [Next]_vars, NEW w \in Worker, NEW r, Serve(w, r),
         r.op \in {"factor", "challenge", "clear", "forget", "open"},
         r.proof \in Proof, ProofSound(r.proof), Registered
  PROVE Requests'
<1>1. req'[w] = r
  BY Served DEF AccessInv
<1>2. r.proof.swept <= r.proof.password /\ r.proof.swept <= history'.swept
  BY ProofKept
<1>3. account' # Absent
  BY AccountStays
<1>4. RequestSound(w)'
  BY <1>1, <1>2, <1>3 DEF RequestSound, Registered, Exists, ProofSound
<1> QED  BY <1>4, SoundServed

\* Two addresses must have failed within the window for a lock.
LEMMA TwoAddresses ==
  ASSUME Sources, ~(DistinctIps < 2)
  PROVE TwoSources
<1> DEFINE F == {i \in Ip : attempts[i] = "fresh"}
<1>1. F \subseteq history.sources
  BY DEF Sources
<1>2. F # {}
  BY FS_EmptySet DEF DistinctIps
<1>3. PICK i : i \in F
  BY <1>2
<1>4. F # {i}
  <2>1. SUFFICES ASSUME F = {i} PROVE FALSE
    OBVIOUS
  <2>2. IsFiniteSet({i}) /\ Cardinality({i}) = 1
    BY FS_Singleton
  <2>3. Cardinality(F) = 1
    BY <2>1, <2>2
  <2> QED  BY <2>3 DEF DistinctIps
<1>5. PICK j \in F : j # i
  BY <1>3, <1>4
<1> QED  BY <1>1, <1>3, <1>5 DEF TwoSources

\* Every step keeps the requests sound.
LEMMA RequestsStep ==
  ASSUME AccessInv, [Next]_vars
  PROVE Requests'
<1>1. /\ TypeOK /\ Requests /\ Owned /\ Sources /\ SurvivorsStraddle
      /\ history \in History
  BY Typed DEF AccessInv
<1>2. Registered => account' # Absent
  BY AccountStays
<1>3. CASE UNCHANGED req
  BY <1>3, OthersKept DEF Requests
<1>4. ASSUME NEW w \in Worker, RegisterLoad(w) PROVE Requests'
  <2> DEFINE r == [op |-> "register"]
  <2>1. Serve(w, r) /\ r.op = "register"
    BY <1>4 DEF RegisterLoad
  <2> QED  BY <2>1, SoundPlain
<1>5. ASSUME NEW w \in Worker, RegisterCreate(w) PROVE Requests'
  <2> DEFINE r == [op |-> "mailToken"]
  <2>1. Serve(w, r) /\ r.op = "mailToken" /\ account' # Absent
    BY <1>5, Rows DEF RegisterCreate
  <2> QED  BY <2>1, SoundPlain
<1>6. ASSUME NEW w \in Worker,
             ResendLoad(w) \/ ForgotLoad(w) \/ ChangeLoad(w) \/ SetupLoad(w)
      PROVE Requests'
  <2>1. PICK o \in {"mailToken", "resetToken", "change", "setup"} :
          Serve(w, [op |-> o])
    BY <1>6 DEF ResendLoad, ForgotLoad, ChangeLoad, SetupLoad
  <2>2. Registered
    BY <1>6 DEF ResendLoad, ForgotLoad, ChangeLoad, SetupLoad
  <2> DEFINE r == [op |-> o]
  <2>3. r.op = o
    OBVIOUS
  <2> HIDE DEF r
  <2> QED  BY <1>2, <2>1, <2>2, <2>3, SoundPlain DEF r
<1>7. ASSUME NEW w \in Worker, DisableLoad(w) PROVE Requests'
  <2> DEFINE r == [op |-> "disable"]
  <2>1. Serve(w, r) /\ r.op = "disable" /\ Registered
    BY <1>1, <1>7 DEF DisableLoad, Owned
  <2> QED  BY <1>2, <2>1, SoundPlain
<1>8. ASSUME NEW w \in Worker, NEW t \in MailToken, VerifyEmailLoad(w, t)
      PROVE Requests'
  <2>1. Registered /\ Exists(mail[t]) /\ mail' = mail
    BY <1>1, <1>8 DEF VerifyEmailLoad, Usable, Owned, Exists
  <2>2. req'[w] = [op |-> "verifyEmail", token |-> t]
    BY <1>1, <1>8, Served DEF VerifyEmailLoad
  <2>3. RequestSound(w)'
    BY <1>2, <2>1, <2>2 DEF RequestSound, Registered, Exists
  <2> QED  BY <1>8, <2>3, SoundServed DEF VerifyEmailLoad
<1>9. ASSUME NEW w \in Worker, NEW t \in ResetToken, ResetLoad(w, t)
      PROVE Requests'
  <2>1. Registered /\ Exists(reset[t]) /\ reset' = reset
    BY <1>1, <1>9 DEF ResetLoad, Usable, Owned, Exists
  <2>2. req'[w] = [op |-> "reset", token |-> t]
    BY <1>1, <1>9, Served DEF ResetLoad
  <2>3. RequestSound(w)'
    BY <1>2, <2>1, <2>2 DEF RequestSound, Registered, Exists
  <2> QED  BY <1>9, <2>3, SoundServed DEF ResetLoad
<1>10. ASSUME NEW w \in Worker, ChangeWrite(w) PROVE Requests'
  <2> DEFINE r == [op |-> "sweep"]
  <2>1. Serve(w, r) /\ r.op = "sweep" /\ Registered
    BY <1>1, <1>10 DEF ChangeWrite, Requests, RequestSound
  <2> QED  BY <1>2, <2>1, SoundPlain
<1>11. ASSUME NEW w \in Worker, NEW s \in Session, RefreshLoad(w, s)
       PROVE Requests'
  <2>1. /\ Registered /\ Exists(session[s]) /\ session[s].live
        /\ session' = session /\ history' = history
    BY <1>1, <1>11 DEF RefreshLoad, Owned, Exists
  <2>2. req'[w] = [op |-> "refresh", session |-> s, swept |-> history.swept]
    BY <1>1, <1>11, Served DEF RefreshLoad
  <2>3. session[s].origin.password < history.swept =>
          session[s].origin.straddles
    BY <1>1, <2>1 DEF SurvivorsStraddle, Live
  <2>4. history.swept <= history.swept
    <3>1. history.swept \in 0..MaxPassword
      BY <1>1, HistoryRow
    <3> QED  BY <3>1
  <2>5. RequestSound(w)'
    BY <1>2, <2>1, <2>2, <2>3, <2>4 DEF RequestSound, Registered, Exists
  <2> QED  BY <1>11, <2>5, SoundServed DEF RefreshLoad
<1>12. ASSUME NEW w \in Worker, NEW s \in Session,
              ReuseLoad(w, s) \/ RevokeLoad(w, s)
       PROVE Requests'
  <2>1. Registered /\ Exists(session[s]) /\ session' = session
    BY <1>1, <1>12 DEF ReuseLoad, RevokeLoad, Owned, Exists
  <2>2. PICK o \in {"revokeFamily", "revokeOne"} :
          Serve(w, [op |-> o, session |-> s])
    BY <1>12 DEF ReuseLoad, RevokeLoad
  <2>3. req'[w] = [op |-> o, session |-> s]
    BY <1>1, <2>2, Served
  <2>4. RequestSound(w)'
    BY <1>2, <2>1, <2>3 DEF RequestSound, Registered, Exists
  <2> QED  BY <2>2, <2>4, SoundServed
<1>13. ASSUME NEW w \in Worker, LoginLoad(w) PROVE Requests'
  <2> DEFINE r == [op |-> "factor", proof |-> Proven]
  <2>1. Serve(w, r) /\ Registered /\ r.op = "factor" /\ r.proof = Proven
    BY <1>13 DEF LoginLoad
  <2>2. Proven \in Proof
    BY <1>1, <2>1, Proving
  <2>3. ProofSound(Proven)
    <3>1. history.swept \in 0..MaxPassword
      BY <1>1, HistoryRow
    <3> QED  BY <1>1, <2>1, <3>1 DEF Owned, ProofSound, Proven
  <2> HIDE DEF r
  <2> QED  BY <2>1, <2>2, <2>3, SoundProof
<1>14. ASSUME NEW w \in Worker,
              LoginFactor(w) \/ CompleteClear(w) \/ CompleteForget(w)
       PROVE Requests'
  <2>1. PICK o \in {"clear", "challenge", "forget", "open"} :
          Serve(w, [req[w] EXCEPT !.op = o])
    BY <1>14 DEF LoginFactor, CompleteClear, CompleteForget
  <2>2. /\ req[w].op \in {"factor", "clear", "forget"} /\ Registered
        /\ req[w].proof \in Proof /\ ProofSound(req[w].proof)
    BY <1>1, <1>14, Fields
       DEF LoginFactor, CompleteClear, CompleteForget, Requests, RequestSound
  <2> DEFINE r == [req[w] EXCEPT !.op = o]
  <2>3. r = [op |-> o, proof |-> req[w].proof]
    BY <1>1, <2>2, Renamed
  <2>4. r.op = o /\ r.proof = req[w].proof
    BY <2>3
  <2> HIDE DEF r
  <2> QED  BY <2>1, <2>2, <2>4, SoundProof DEF r
<1>15. ASSUME NEW w \in Worker, NEW i \in Ip, FailedLoad(w, i) PROVE Requests'
  <2> DEFINE r == [op |-> "failed", ip |-> i]
  <2>1. Serve(w, r) /\ r.op = "failed" /\ Registered
    BY <1>15 DEF FailedLoad
  <2> QED  BY <1>2, <2>1, SoundPlain
<1>16. ASSUME NEW w \in Worker, FailedRead(w) \/ FailedRow(w) \/ FailedCount(w)
       PROVE Requests'
  <2>1. Registered
    BY <1>1, <1>16
       DEF FailedRead, FailedRow, FailedCount, Requests, RequestSound
  <2>2. \E r : Serve(w, r) /\ r.op \in {"attempt", "count", "decide"}
    BY <1>16 DEF FailedRead, FailedRow, FailedCount
  <2> QED  BY <1>2, <2>1, <2>2, SoundPlain
<1>17. ASSUME NEW w \in Worker, FailedDecide(w) PROVE Requests'
  <2> DEFINE level == LockFor(req[w].attempt)
             r == [op |-> "lock", level |-> level]
  <2>1. Registered
    BY <1>1, <1>17 DEF FailedDecide, Requests, RequestSound
  <2>2. \/ Finish(w)
        \/ Serve(w, r) /\ ~(DistinctIps < 2) /\ history' = history
    BY <1>17 DEF FailedDecide, Finish
  <2>3. ASSUME Serve(w, r), ~(DistinctIps < 2), history' = history
        PROVE Requests'
    <3>1. TwoSources'
      BY <1>1, <2>3, TwoAddresses DEF TwoSources
    <3>2. req'[w] = r /\ r.op = "lock"
      BY <1>1, <2>3, Served
    <3>3. RequestSound(w)'
      BY <1>2, <2>1, <3>1, <3>2 DEF RequestSound, Registered, Exists
    <3> QED  BY <2>3, <3>3, SoundServed
  <2> QED  BY <2>2, <2>3, SoundFinished
<1>18. ASSUME NEW w \in Worker, NEW c \in Challenge, AnswerLoad(w, c)
       PROVE Requests'
  <2>1. /\ Registered /\ Exists(challenge[c]) /\ challenge' = challenge
        /\ challenge[c].attempts < MAX_CHALLENGE_ATTEMPTS
    BY <1>1, <1>18 DEF AnswerLoad, ValidChallenge, Owned, Exists
  <2>2. req'[w] = [op |-> "answer", challenge |-> c,
                   attempts |-> challenge[c].attempts]
    BY <1>1, <1>18, Served DEF AnswerLoad
  <2>3. RequestSound(w)'
    BY <1>2, <2>1, <2>2 DEF RequestSound, Registered, Exists
  <2> QED  BY <1>18, <2>3, SoundServed DEF AnswerLoad
<1>19. ASSUME NEW w \in Worker, AnswerRight(w) PROVE Requests'
  <2>1. /\ Registered /\ Exists(challenge[req[w].challenge])
        /\ challenge' = challenge
    BY <1>1, <1>19 DEF AnswerRight, Requests, RequestSound
  <2>2. PICK b, k : Accept(w, b, k)
    BY <1>19 DEF AnswerRight
  <2>3. req'[w] = [op |-> "accept", challenge |-> req[w].challenge,
                   write |-> b, codes |-> k]
    BY <1>1, <2>2, Served DEF Accept
  <2>4. RequestSound(w)'
    BY <1>2, <2>1, <2>3 DEF RequestSound, Registered, Exists
  <2> QED  BY <2>2, <2>4, SoundServed DEF Accept
<1>20. ASSUME NEW w \in Worker, AnswerWrong(w) PROVE Requests'
  <2>1. /\ Registered /\ Exists(challenge[req[w].challenge])
        /\ challenge' = challenge /\ req[w].op = "answer"
        /\ req[w].attempts < MAX_CHALLENGE_ATTEMPTS
    BY <1>1, <1>20 DEF AnswerWrong, Requests, RequestSound
  <2>2. req'[w] = [op |-> "miss", challenge |-> req[w].challenge,
                   attempts |-> req[w].attempts]
    BY <1>1, <1>20, Missed
  <2>3. RequestSound(w)'
    BY <1>2, <2>1, <2>2 DEF RequestSound, Registered, Exists
  <2> QED  BY <1>20, <2>3, SoundServed DEF AnswerWrong
<1>21. ASSUME NEW w \in Worker, AcceptCommit(w) PROVE Requests'
  <2> DEFINE p == challenge[req[w].challenge].proof
             r == [op |-> "clear", proof |-> p]
  <2>1. /\ req[w].challenge \in Challenge /\ Registered
        /\ Exists(challenge[req[w].challenge])
    BY <1>1, <1>21, Fields DEF AcceptCommit, Requests, RequestSound
  <2>2. p \in Proof /\ ProofSound(p)
    BY <1>1, <2>1, Typed, ChallengeRows DEF Sources
  <2>3. Serve(w, r) /\ r.op = "clear" /\ r.proof = p
    BY <1>21 DEF AcceptCommit
  <2> HIDE DEF r, p
  <2> QED  BY <2>1, <2>2, <2>3, SoundProof
<1> USE SoundFinished
<1>22. CASE CredentialNext
  BY <1>4, <1>5, <1>6, <1>8, <1>9, <1>10, <1>22, <1>3
     DEF CredentialNext, RegisterConflict, MailTokenCreate, VerifyEmailCommit,
         ForgotCreate, ResetCommit, ChangeSweep, MailExpires, ResetExpires
<1>23. CASE SessionNext
  BY <1>11, <1>12, <1>23, <1>3
     DEF SessionNext, RefreshCommit, ReuseRevoke, RevokeWrite, SessionExpires
<1>24. CASE LoginNext
  BY <1>13, <1>14, <1>15, <1>16, <1>17, <1>24, <1>3
     DEF LoginNext, CompleteOpen, FailedRowGone, FailedLock, WindowCloses,
         LockExpires
<1>25. CASE MfaNext
  BY <1>6, <1>7, <1>18, <1>19, <1>20, <1>21, <1>25, <1>3
     DEF MfaNext, SetupCommit, SetupConflict, DisableCommit, DisableConflict,
         ChallengeCreate, AnswerWithoutFactor, MissWrite, AcceptConflict,
         ChallengeExpires
<1> QED  BY <1>3, <1>22, <1>23, <1>24, <1>25 DEF Next, Abort, vars

-----------------------------------------------------------------------------
(* The account owns its rows *)

\* The users row has the last password there was; revoking all sessions makes
\* good a password there was.
LEMMA PasswordStep ==
  ASSUME AccessInv, [Next]_vars
  PROVE /\ account' # Absent => account'.password = history'.passwords
        /\ account' = Absent => history'.passwords = 0
        /\ history'.swept <= history'.passwords
<1> DEFINE Same ==
      /\ account' # Absent <=> Registered
      /\ Registered => account'.password = account.password
      /\ history'.passwords = history.passwords
<1>1. /\ TypeOK /\ Requests /\ Owned /\ history \in History
      /\ Registered => account \in Account
  BY Typed DEF AccessInv
<1>2. history.swept \in Nat /\ history.passwords \in Nat
  <2>1. history.swept \in 0..MaxPassword /\ history.passwords \in 0..MaxPassword
    BY <1>1, HistoryRow
  <2> QED  BY <2>1, AccountsAssumption
<1>3. history.swept <= history.passwords
  BY <1>1 DEF Owned
<1>4. CASE UNCHANGED <<account, history>>
  BY <1>1, <1>4 DEF Owned, Registered, Exists
<1>5. ASSUME NEW w \in Worker, RegisterCreate(w)
      PROVE /\ account' # Absent /\ account'.password = history'.passwords
            /\ history'.swept <= history'.passwords
  <2>1. account' = FirstPassword /\ history.passwords = 0
    BY <1>1, <1>5 DEF RegisterCreate, Owned
  <2>2. history'.passwords = 1 /\ history'.swept = history.swept
    BY <1>1, <1>5 DEF RegisterCreate, History
  <2> QED  BY <1>2, <1>3, <2>1, <2>2, Rows
<1>6. ASSUME NEW w \in Worker, ResetCommit(w) \/ ChangeWrite(w)
      PROVE /\ account' # Absent /\ account'.password = history'.passwords
            /\ history'.swept <= history'.passwords
  <2>1. /\ Registered /\ NextPassword \in Password
        /\ account' = [account EXCEPT !.password = NextPassword]
    BY <1>1, <1>6 DEF ResetCommit, ChangeWrite, Requests, RequestSound
  <2>2. account' \in Account /\ account'.password = NextPassword
    BY <1>1, <2>1, PasswordRow
  <2>3. /\ history'.passwords = NextPassword
        /\ history'.swept = NextPassword \/ history'.swept = history.swept
    BY <1>1, <1>6 DEF ResetCommit, ChangeWrite, History
  <2> QED  BY <1>2, <1>3, <2>2, <2>3, Rows DEF NextPassword
<1>7. ASSUME NEW w \in Worker, ChangeSweep(w)
      PROVE /\ account' = account /\ Registered
            /\ account.password = history.passwords
            /\ history'.passwords = history.passwords
            /\ history'.swept <= history'.passwords
  <2>1. Registered /\ account.password = history.passwords
    BY <1>1, <1>7 DEF ChangeSweep, Requests, RequestSound, Owned
  <2>2. /\ account' = account /\ history'.passwords = history.passwords
        /\ history'.swept = account.password
    BY <1>1, <1>7 DEF ChangeSweep, History
  <2> QED  BY <1>2, <2>1, <2>2
<1>8. ASSUME NEW w \in Worker,
             VerifyEmailCommit(w) \/ DisableCommit(w) \/ SetupCommit(w)
      PROVE Same /\ history'.swept = history.swept
  <2>1. Registered
    BY <1>1, <1>8
       DEF VerifyEmailCommit, DisableCommit, SetupCommit, Requests, RequestSound
  <2>2. \/ account' = [account EXCEPT !.status = "ACTIVE"]
        \/ \E g \in {"NONE", "MFA_VERIFIED"} :
             account' = [account EXCEPT !.authStage = g]
    BY <1>8 DEF VerifyEmailCommit, DisableCommit, SetupCommit
  <2>3. account' \in Account /\ account'.password = account.password
    <3>1. CASE account' = [account EXCEPT !.status = "ACTIVE"]
      BY <1>1, <2>1, <3>1, ActivateRow
    <3>2. ASSUME NEW g \in {"NONE", "MFA_VERIFIED"},
                 account' = [account EXCEPT !.authStage = g]
          PROVE account' \in Account /\ account'.password = account.password
      BY <1>1, <2>1, <3>2, StageRow
    <3> QED  BY <2>2, <3>1, <3>2
  <2>4. /\ history'.passwords = history.passwords
        /\ history'.swept = history.swept
    BY <1>1, <1>8 DEF VerifyEmailCommit, DisableCommit, SetupCommit, History
  <2> QED  BY <2>1, <2>3, <2>4, Rows
<1>9. ASSUME \/ \E w \in Worker :
                  CompleteClear(w) \/ FailedCount(w) \/ FailedLock(w)
             \/ LockExpires
      PROVE Same /\ history' = history
  <2>1. Registered /\ history' = history
    BY <1>1, <1>9 DEF CompleteClear, FailedCount, FailedLock, LockExpires,
                      Requests, RequestSound
  <2>2. "none" \in Lock /\ "past" \in Lock
    BY DEF Lock
  <2>3. ASSUME NEW w \in Worker, CompleteClear(w)
        PROVE account' \in Account /\ account'.password = account.password
    BY <1>1, <2>1, <2>2, <2>3, ClearRow DEF CompleteClear
  <2>4. ASSUME NEW w \in Worker, FailedCount(w)
        PROVE account' \in Account /\ account'.password = account.password
    <3>1. account.failed \in 0..MaxFailed /\ account.failed < MaxFailed
      BY <1>1, <2>1, <2>4, AccountFields DEF FailedCount
    <3>2. account.failed + 1 \in 0..MaxFailed
      BY <3>1, AccountsAssumption
    <3> QED  BY <1>1, <2>1, <2>4, <3>2, CountRow DEF FailedCount
  <2>5. ASSUME NEW w \in Worker, FailedLock(w)
        PROVE account' \in Account /\ account'.password = account.password
    <3>1. req[w].level \in Lock
      BY <1>1, <2>5, Fields DEF FailedLock
    <3> QED  BY <1>1, <2>1, <2>5, <3>1, LockRow DEF FailedLock
  <2>6. ASSUME LockExpires
        PROVE account' \in Account /\ account'.password = account.password
    BY <1>1, <2>1, <2>2, <2>6, LockRow DEF LockExpires
  <2>7. account' \in Account /\ account'.password = account.password
    BY <1>9, <2>3, <2>4, <2>5, <2>6
  <2> QED  BY <2>1, <2>7, Rows
<1>10. ASSUME NEW w \in Worker, FailedRow(w)
       PROVE Same /\ history'.swept = history.swept
  <2>1. /\ account' = account /\ history'.passwords = history.passwords
        /\ history'.swept = history.swept
    BY <1>1, <1>10 DEF FailedRow, History
  <2> QED  BY <2>1 DEF Registered, Exists
<1>11. Same /\ history'.swept = history.swept =>
         /\ account' # Absent => account'.password = history'.passwords
         /\ account' = Absent => history'.passwords = 0
         /\ history'.swept <= history'.passwords
  BY <1>1, <1>3 DEF Owned
<1> HIDE DEF Same
<1> QED  BY <1>1, <1>4, <1>5, <1>6, <1>7, <1>8, <1>9, <1>10, <1>11,
            AccountFrame, HistoryFrame DEF Registered, Exists

\* A second factor belongs to a registered account.
LEMMA FactorOwned ==
  ASSUME AccessInv, [Next]_vars, ~Registered
  PROVE mfa' = None
<1>1. Requests /\ mfa = None
  BY DEF AccessInv, Owned
<1> QED  BY <1>1, MfaFrame
         DEF SetupCommit, DisableCommit, AcceptCommit, Requests, RequestSound

LEMMA OwnedStep ==
  ASSUME AccessInv, [Next]_vars
  PROVE Owned'
<1>1. Owned
  BY DEF AccessInv
<1>2. ASSUME account' = Absent
      PROVE /\ \A s \in Session : session'[s] = Absent
            /\ \A t \in MailToken : mail'[t] = Absent
            /\ \A t \in ResetToken : reset'[t] = Absent
            /\ \A c \in Challenge : challenge'[c] = Absent
            /\ mfa' = None /\ history'.passwords = 0
  <2>1. ~Registered
    BY <1>2, AccountStays
  <2>2. /\ \A s \in Session : ~Exists(session[s])
        /\ \A t \in MailToken : ~Exists(mail[t])
        /\ \A t \in ResetToken : ~Exists(reset[t])
        /\ \A c \in Challenge : ~Exists(challenge[c])
    BY <1>1, <2>1 DEF Owned, Exists
  <2>3. \A s \in Session : session'[s] = Absent
    BY <2>1, <2>2, SessionStep DEF Opened, RotatedFrom
  <2>4. /\ \A t \in MailToken : mail'[t] = Absent
        /\ \A t \in ResetToken : reset'[t] = Absent
        /\ \A c \in Challenge : challenge'[c] = Absent
    BY <2>1, <2>2, MailStep, ResetStep, ChallengeStep
  <2> QED  BY <1>2, <2>1, <2>3, <2>4, FactorOwned, PasswordStep
<1> QED  BY <1>2, PasswordStep DEF Owned, Registered, Exists

\* Every step keeps what rows come from.
LEMMA SourcesStep ==
  ASSUME AccessInv, [Next]_vars
  PROVE Sources'
<1>1. /\ TypeOK /\ Sources /\ TypeOK'
  BY TypeStep DEF AccessInv
<1>2. ASSUME NEW s \in Session, session'[s] # Absent, session'[s].parent # None
      PROVE session'[session'[s].parent] # Absent
  <2>1. CASE Exists(session[s])
    <3>1. /\ session'[s].parent = session[s].parent
          /\ session[s].parent \in Session
      <4>1. session'[s].parent = session[s].parent
        BY <2>1, SessionStep
      <4>2. session[s] \in SessionRow
        BY <1>1, <2>1, Typed
      <4>3. session[s].parent \in Session \cup {None}
        BY <4>2, SessionRows
      <4> QED  BY <1>2, <4>1, <4>3
    <3>2. Exists(session[session[s].parent])
      BY <1>1, <1>2, <2>1, <3>1 DEF Sources
    <3> QED  BY <3>1, <3>2, SessionStep
  <2>2. CASE ~Exists(session[s])
    <3>1. PICK q \in Session : RotatedFrom(s, q)
      BY <1>2, <2>2, SessionStep DEF Opened
    <3>2. session'[s].parent = q /\ Exists(session[q])
      BY <1>1, <3>1, RotatedRow DEF RotatedFrom
    <3> QED  BY <3>2, SessionStep
  <2> QED  BY <2>1, <2>2
<1>3. ASSUME NEW c \in Challenge, challenge'[c] # Absent
      PROVE /\ challenge'[c].proof.swept <= challenge'[c].proof.password
            /\ challenge'[c].proof.swept <= history'.swept
  <2>1. challenge'[c].proof \in Proof
    <3>1. challenge'[c] \in ChallengeRow
      BY <1>1, <1>3 DEF TypeOK
    <3> QED  BY <3>1, ChallengeRows
  <2>2. ProofSound(challenge'[c].proof)
    <3>1. CASE Exists(challenge[c])
      <4>1. challenge'[c].proof = challenge[c].proof
        BY <3>1, ChallengeStep
      <4>2. ProofSound(challenge[c].proof)
        BY <1>1, <3>1 DEF Sources
      <4> QED  BY <4>1, <4>2 DEF ProofSound
    <3>2. CASE ~Exists(challenge[c])
      BY <1>3, <3>2, ChallengeStep
    <3> QED  BY <3>1, <3>2
  <2> QED  BY <2>1, <2>2, ProofKept
<1>4. ASSUME NEW i \in Ip, attempts'[i] # "none"
      PROVE i \in history'.sources
  <2>1. attempts[i] # "none" => i \in history'.sources
    BY <1>1, HistoryStep DEF Sources
  <2>2. ASSUME NEW w \in Worker, FailedRow(w), attempts[i] = "none"
        PROVE i \in history'.sources
    <3>1. req[w].ip = i
      BY <1>1, <1>4, <2>2, Typed DEF FailedRow
    <3>2. history'.sources = history.sources \cup {req[w].ip}
      BY <1>1, <2>2, Typed DEF FailedRow, History
    <3> QED  BY <3>1, <3>2
  <2>3. ASSUME NEW w \in Worker, CompleteForget(w) PROVE FALSE
    BY <1>4, <2>3 DEF CompleteForget
  <2>4. ASSUME NEW j \in Ip, WindowCloses(j) PROVE attempts[i] # "none"
    <3>1. CASE i = j
      BY <2>4, <3>1 DEF WindowCloses
    <3>2. CASE i # j
      BY <1>1, <1>4, <2>4, <3>2, Typed DEF WindowCloses
    <3> QED  BY <3>1, <3>2
  <2> QED  BY <1>4, <2>1, <2>2, <2>3, <2>4, AttemptsFrame
<1> QED  BY <1>2, <1>3, <1>4 DEF Sources, Exists, ProofSound

-----------------------------------------------------------------------------
(* Sessions *)

LEMMA SweptTypes ==
  ASSUME AccessInv, [Next]_vars
  PROVE history.swept \in Nat /\ history'.swept \in Nat
<1>1. history \in History /\ history' \in History
  BY TypeStep, Typed DEF AccessInv, TypeOK
<1>2. history.swept \in 0..MaxPassword /\ history'.swept \in 0..MaxPassword
  BY <1>1, HistoryRow
<1> QED  BY <1>2, AccountsAssumption

\* A session on a password that sweeping had made bad comes from somewhere that
\* was under way then.
LEMMA SurvivorsStep ==
  ASSUME AccessInv, [Next]_vars
  PROVE SurvivorsStraddle'
<1>1. TypeOK /\ Requests /\ SurvivorsStraddle
  BY DEF AccessInv
<1>2. ASSUME NEW s \in Session, session'[s] # Absent, session'[s].live,
             session'[s].origin.password < history'.swept
      PROVE session'[s].origin.straddles
  <2>1. history'.swept = history.swept
    BY <1>2, HistoryStep
  <2>2. CASE Exists(session[s])
    BY <1>1, <1>2, <2>1, <2>2, SessionStep DEF SurvivorsStraddle, Live
  <2>3. CASE ~Exists(session[s]) /\ Opened(s)
    <3>1. PICK p \in Proof :
            /\ ProofSound(p)
            /\ session'[s].origin =
                 [password |-> p.password,
                  straddles |-> history.swept # p.swept]
      BY <2>3 DEF Opened
    <3>2. p.password < history.swept /\ p.swept <= p.password
      BY <1>2, <2>1, <3>1 DEF ProofSound
    <3>3. p.swept \in 0..MaxPassword /\ p.password \in 1..MaxPassword
      BY DEF Proof, Password
    <3>4. history.swept # p.swept
      BY <3>2, <3>3, SweptTypes, AccountsAssumption
    <3>5. session'[s].origin.straddles = (history.swept # p.swept)
      BY <3>1
    <3> QED  BY <3>4, <3>5
  <2>4. ASSUME ~Exists(session[s]), NEW q \in Session, RotatedFrom(s, q)
        PROVE session'[s].origin.straddles
    <3>1. PICK w \in Worker :
            /\ req[w].op = "refresh" /\ req[w].session = q
            /\ session'[s] = Rotated(q, req[w].swept)
      BY <2>4 DEF RotatedFrom
    <3>2. Exists(session[q])
      BY <2>4 DEF RotatedFrom
    <3>3. /\ session'[s].origin.password = session[q].origin.password
          /\ session'[s].origin.straddles <=>
               session[q].origin.straddles \/ history.swept # req[w].swept
      BY <1>1, <3>1, <3>2, RotatedRow
    <3>4. session[q].origin.password < req[w].swept =>
            session[q].origin.straddles
      BY <1>1, <3>1 DEF Requests, RequestSound
    <3> QED  BY <1>2, <2>1, <3>3, <3>4
  <2> QED  BY <1>2, <2>2, <2>3, <2>4, SessionStep
<1> QED  BY <1>2 DEF SurvivorsStraddle, Live, Exists

LEMMA RotationStep ==
  ASSUME AccessInv, [Next]_vars
  PROVE RotationSpendsParent'
<1>1. TypeOK /\ Sources /\ RotationSpendsParent
  BY DEF AccessInv
<1>2. ASSUME NEW s \in Session, session'[s] # Absent, session'[s].parent # None
      PROVE ~session'[session'[s].parent].live
  <2>1. CASE Exists(session[s])
    <3>1. /\ session'[s].parent = session[s].parent
          /\ session[s].parent \in Session
      <4>1. session'[s].parent = session[s].parent
        BY <2>1, SessionStep
      <4>2. session[s] \in SessionRow
        BY <1>1, <2>1, Typed
      <4>3. session[s].parent \in Session \cup {None}
        BY <4>2, SessionRows
      <4> QED  BY <1>2, <4>1, <4>3
    <3>2. /\ Exists(session[session[s].parent])
          /\ ~session[session[s].parent].live
      BY <1>1, <1>2, <2>1, <3>1 DEF Sources, RotationSpendsParent, Live
    <3> QED  BY <3>1, <3>2, SessionStep
  <2>2. CASE ~Exists(session[s])
    <3>1. PICK q \in Session : RotatedFrom(s, q)
      BY <1>2, <2>2, SessionStep DEF Opened
    <3>2. session'[s].parent = q /\ ~session'[q].live
      BY <1>1, <3>1, RotatedRow DEF RotatedFrom
    <3> QED  BY <3>2
  <2> QED  BY <2>1, <2>2
<1> QED  BY <1>2 DEF RotationSpendsParent, Live, Exists

-----------------------------------------------------------------------------
(* Email, second factor, lockout *)

\* What a step does to the status, the stage and the lock of an account.
LEMMA AccountStep ==
  ASSUME AccessInv, [Next]_vars, account' # Absent
  PROVE \/ /\ ~Registered /\ account' = FirstPassword
           /\ mail' = mail /\ mfa' = mfa
        \/ /\ Registered
           /\ \/ account'.status = account.status
              \/ \E w \in Worker : VerifyEmailCommit(w)
           /\ \/ account'.authStage = account.authStage
                   /\ (mfa' = None <=> mfa = None)
              \/ account'.authStage = "MFA_VERIFIED" /\ mfa' # None
              \/ account'.authStage = "NONE" /\ mfa' = None
           /\ account'.lock # "none" => account.lock # "none" \/ TwoSources
<1> DEFINE Stage == \/ /\ account'.authStage = account.authStage
                       /\ (mfa' = None <=> mfa = None)
                    \/ account'.authStage = "MFA_VERIFIED" /\ mfa' # None
                    \/ account'.authStage = "NONE" /\ mfa' = None
           Locks == account'.lock # "none" =>
                      account.lock # "none" \/ TwoSources
           Kept == /\ Registered /\ account'.status = account.status
                   /\ Stage /\ Locks
<1>1. /\ TypeOK /\ Requests /\ Owned
      /\ Registered => account \in Account
      /\ mfa \in MfaRow \cup {None}
  BY Typed DEF AccessInv
<1>2. "none" \in Lock /\ "past" \in Lock
  BY DEF Lock
<1>3. ASSUME UNCHANGED account,
             UNCHANGED mfa \/ \E w \in Worker : AcceptCommit(w)
      PROVE Kept
  <2>1. Registered
    BY <1>3 DEF Registered, Exists
  <2>2. CASE UNCHANGED mfa
    BY <1>3, <2>1, <2>2
  <2>3. ASSUME NEW w \in Worker, AcceptCommit(w)
        PROVE mfa' # None /\ mfa # None
    <3>1. mfa \in MfaRow
      BY <1>1, <2>3 DEF AcceptCommit
    <3>2. req[w].codes \in SUBSET ((1..MaxSetups) \X Code)
      BY <1>1, <2>3, Fields DEF AcceptCommit
    <3>3. mfa' \in MfaRow
      BY <2>3, <3>1, <3>2 DEF AcceptCommit, MfaRow
    <3> QED  BY <3>1, <3>3, MfaAssumption
  <2> QED  BY <1>3, <2>1, <2>2, <2>3
<1>4. ASSUME NEW w \in Worker, RegisterCreate(w)
      PROVE /\ ~Registered /\ account' = FirstPassword
            /\ mail' = mail /\ mfa' = mfa
  BY <1>4 DEF RegisterCreate
<1>5. ASSUME NEW w \in Worker, VerifyEmailCommit(w)
      PROVE Registered /\ Stage /\ Locks
  <2>1. Registered /\ account' = [account EXCEPT !.status = "ACTIVE"]
        /\ mfa' = mfa
    BY <1>1, <1>5 DEF VerifyEmailCommit, Requests, RequestSound
  <2> QED  BY <1>1, <2>1, ActivateRow
<1>6. ASSUME NEW w \in Worker, ResetCommit(w) \/ ChangeWrite(w)
      PROVE Kept
  <2>1. /\ Registered /\ NextPassword \in Password /\ mfa' = mfa
        /\ account' = [account EXCEPT !.password = NextPassword]
    BY <1>1, <1>6 DEF ResetCommit, ChangeWrite, Requests, RequestSound
  <2>2. /\ account'.status = account.status
        /\ account'.authStage = account.authStage
        /\ account'.lock = account.lock
    BY <1>1, <2>1, PasswordRow
  <2> QED  BY <2>1, <2>2
<1>7. ASSUME NEW w \in Worker, CompleteClear(w)
      PROVE Kept
  <2>1. /\ Registered /\ mfa' = mfa
        /\ account' = [account EXCEPT !.failed = 0, !.lock = "none"]
    BY <1>1, <1>7 DEF CompleteClear, Requests, RequestSound
  <2>2. /\ account'.status = account.status
        /\ account'.authStage = account.authStage
        /\ account'.lock = "none"
    BY <1>1, <2>1 DEF Account
  <2> QED  BY <2>1, <2>2
<1>8. ASSUME NEW w \in Worker, FailedCount(w)
      PROVE Kept
  <2>1. Registered /\ mfa' = mfa
        /\ account' = [account EXCEPT !.failed = account.failed + 1]
    BY <1>1, <1>8 DEF FailedCount, Requests, RequestSound
  <2>2. account.failed \in 0..MaxFailed /\ account.failed < MaxFailed
    BY <1>1, <1>8, <2>1, AccountFields DEF FailedCount
  <2>3. account.failed + 1 \in 0..MaxFailed
    BY <2>2, AccountsAssumption
  <2>4. /\ account'.status = account.status
        /\ account'.authStage = account.authStage
        /\ account'.lock = account.lock
    BY <1>1, <2>1, <2>3, CountRow
  <2> QED  BY <2>1, <2>4
<1>9. ASSUME NEW w \in Worker, FailedLock(w)
      PROVE Kept
  <2>1. /\ Registered /\ mfa' = mfa /\ TwoSources
        /\ account' = [account EXCEPT !.lock = req[w].level]
    BY <1>1, <1>9 DEF FailedLock, Requests, RequestSound
  <2>2. req[w].level \in Lock
    BY <1>1, <1>9, Fields DEF FailedLock
  <2> QED  BY <1>1, <2>1, <2>2, LockRow
<1>10. ASSUME NEW w \in Worker, SetupCommit(w) \/ DisableCommit(w)
       PROVE Kept
  <2>1. Registered
    BY <1>1, <1>10 DEF SetupCommit, DisableCommit, Requests, RequestSound
  <2>2. PICK g \in {"NONE", "MFA_VERIFIED"} :
          /\ account' = [account EXCEPT !.authStage = g]
          /\ g = "NONE" => mfa' = None
          /\ g = "MFA_VERIFIED" => SetupCommit(w)
    BY <1>10 DEF SetupCommit, DisableCommit
  <2>3. SetupCommit(w) => mfa' # None
    <3>1. ASSUME SetupCommit(w) PROVE mfa' \in MfaRow
      <4>1. history.setups \in 0..MaxSetups /\ history.setups + 1 <= MaxSetups
        BY <1>1, <3>1, Typed, HistoryRow DEF SetupCommit
      <4>2. history.setups + 1 \in 1..MaxSetups
        BY <4>1, AccountsAssumption
      <4> QED  BY <3>1, <4>2 DEF SetupCommit, MfaRow
    <3> QED  BY <3>1, MfaAssumption
  <2> QED  BY <1>1, <2>1, <2>2, <2>3, StageRow
<1>11. CASE LockExpires
  <2>1. /\ Registered /\ mfa' = mfa /\ account.lock # "none"
        /\ account' = [account EXCEPT !.lock = "past"]
    BY <1>11 DEF LockExpires
  <2>2. Kept
    BY <1>1, <1>2, <2>1, LockRow
  <2> QED  BY <2>2
<1>12. Kept => /\ Registered /\ account'.status = account.status
               /\ Stage /\ Locks
  OBVIOUS
<1> QED
  <2> HIDE DEF Kept, Locks
  <2> QED  BY <1>3, <1>4, <1>5, <1>6, <1>7, <1>8, <1>9, <1>10, <1>11, <1>12,
              AccountFrame, MfaFrame DEF Locks

LEMMA ActiveStep ==
  ASSUME AccessInv, [Next]_vars
  PROVE ActiveIffVerified'
<1>1. TypeOK /\ Requests /\ Owned /\ ActiveIffVerified
  BY DEF AccessInv
<1>2. SUFFICES ASSUME account' # Absent, ~history'.seeded
               PROVE account'.status = "ACTIVE" <=>
                       \E t \in MailToken : mail'[t] # Absent /\ mail'[t].used
  BY DEF ActiveIffVerified, Registered, Exists
<1>3. CASE ~Registered
  <2>1. account' = FirstPassword /\ mail' = mail
    BY <1>2, <1>3, AccountStep
  <2>2. \A t \in MailToken : mail'[t] = Absent
    BY <1>1, <1>3, <2>1 DEF Owned
  <2> QED  BY <2>1, <2>2, Rows
<1>4. CASE Registered
  <2>1. account.status = "ACTIVE" <=>
          \E t \in MailToken : Exists(mail[t]) /\ mail[t].used
    BY <1>1, <1>2, <1>4, HistoryStep DEF ActiveIffVerified
  <2>2. ASSUME NEW w \in Worker, VerifyEmailCommit(w)
        PROVE /\ account'.status = "ACTIVE"
              /\ \E t \in MailToken : mail'[t] # Absent /\ mail'[t].used
    <3> DEFINE t == req[w].token
    <3>1. t \in MailToken /\ Exists(mail[t]) /\ mail[t] \in TokenRow
      BY <1>1, <2>2, Fields, Typed DEF VerifyEmailCommit, Requests, RequestSound
    <3>2. mail'[t] = [mail[t] EXCEPT !.used = TRUE]
      BY <1>1, <2>2, <3>1, Typed DEF VerifyEmailCommit
    <3>3. mail'[t].used
      BY <3>1, <3>2, TokenRows
    <3>4. mail'[t] # Absent
      BY <3>1, MailStep
    <3>5. account'.status = "ACTIVE"
      BY <1>1, <1>4, <2>2, Typed, ActivateRow DEF VerifyEmailCommit
    <3> HIDE DEF t
    <3> QED  BY <3>1, <3>3, <3>4, <3>5
  <2>3. CASE account'.status = account.status
    <3>1. ASSUME account.status = "ACTIVE"
          PROVE \E t \in MailToken : mail'[t] # Absent /\ mail'[t].used
      BY <2>1, <3>1, MailStep
    <3>2. ASSUME NEW t \in MailToken, mail'[t] # Absent, mail'[t].used
          PROVE account'.status = "ACTIVE"
      BY <2>1, <2>3, <3>2, MailStep
    <3> QED  BY <2>3, <3>1, <3>2
  <2> QED  BY <1>2, <1>4, <2>2, <2>3, AccountStep
<1> QED  BY <1>3, <1>4

LEMMA StageStep ==
  ASSUME AccessInv, [Next]_vars
  PROVE StageMatchesMfa'
<1>1. Owned /\ StageMatchesMfa
  BY DEF AccessInv
<1>2. mfa' # None => account' # Absent
  BY FactorOwned, AccountStays
<1>3. ASSUME account' # Absent
      PROVE account'.authStage = "MFA_VERIFIED" <=> mfa' # None
  <2>1. CASE ~Registered
    BY <1>1, <1>3, <2>1, AccountStep, Rows DEF Owned
  <2>2. CASE Registered
    BY <1>1, <1>3, <2>2, AccountStep DEF StageMatchesMfa
  <2> QED  BY <2>1, <2>2
<1> QED  BY <1>2, <1>3 DEF StageMatchesMfa, Registered, Exists

LEMMA LockStep ==
  ASSUME AccessInv, [Next]_vars
  PROVE LockNeedsTwoSources'
<1>1. LockNeedsTwoSources /\ history.sources \subseteq history'.sources
  BY HistoryStep DEF AccessInv
<1>2. ASSUME account' # Absent, account'.lock # "none" PROVE TwoSources
  BY <1>1, <1>2, AccountStep, Rows DEF LockNeedsTwoSources, TwoSources
<1> QED  BY <1>1, <1>2 DEF LockNeedsTwoSources, TwoSources, Registered, Exists

-----------------------------------------------------------------------------
(* What has ended stays ended *)

\* A worker goes on with what it has, is done with it, or begins or continues
\* one of four things.
Continues(v) ==
  \/ req'[v] = req[v]
  \/ req'[v].op \notin {"refresh", "answer", "miss", "accept"}
  \/ \E s \in Session : RefreshLoad(v, s)
  \/ \E c \in Challenge : AnswerLoad(v, c)
  \/ AnswerRight(v) \/ AnswerWrong(v)

LEMMA ServedPlain ==
  ASSUME TypeOK, NEW w \in Worker, NEW r, Serve(w, r),
         r.op \notin {"refresh", "answer", "miss", "accept"}
  PROVE \A v \in Worker : Continues(v)
  BY Served DEF Continues

LEMMA FinishedPlain ==
  ASSUME TypeOK, NEW w \in Worker, Finish(w)
  PROVE \A v \in Worker : Continues(v)
<1>1. Idle.op = "idle"
  BY DEF Idle
<1> QED  BY <1>1, Finished DEF Continues

LEMMA RequestFrame ==
  ASSUME AccessInv, [Next]_vars
  PROVE \A v \in Worker : Continues(v)
<1> DEFINE All == \A v \in Worker : Continues(v)
<1>1. TypeOK
  BY DEF AccessInv
<1>2. ASSUME UNCHANGED req PROVE All
  BY <1>2 DEF Continues
<1>3. ASSUME NEW w \in Worker, NEW r, Serve(w, r),
             r.op \in {"register", "mailToken", "verifyEmail", "resetToken",
                       "reset", "change", "sweep", "setup", "disable",
                       "factor", "challenge", "clear", "forget", "open",
                       "failed", "attempt", "count", "decide", "lock",
                       "revokeFamily", "revokeOne"}
      PROVE All
  BY <1>1, <1>3, ServedPlain
<1>4. ASSUME NEW w \in Worker, Finish(w) PROVE All
  BY <1>1, <1>4, FinishedPlain
<1>5. ASSUME NEW w \in Worker,
             LoginFactor(w) \/ CompleteClear(w) \/ CompleteForget(w)
      PROVE All
  <2>1. PICK o \in {"clear", "challenge", "forget", "open"} :
          Serve(w, [req[w] EXCEPT !.op = o])
    BY <1>5 DEF LoginFactor, CompleteClear, CompleteForget
  <2>2. req[w].op \in {"factor", "clear", "forget"}
    BY <1>5 DEF LoginFactor, CompleteClear, CompleteForget
  <2>3. [req[w] EXCEPT !.op = o] = [op |-> o, proof |-> req[w].proof]
    BY <1>1, <2>2, Renamed
  <2>4. Serve(w, [op |-> o, proof |-> req[w].proof])
    BY <2>1, <2>3
  <2> QED  BY <1>3, <2>4
<1>6. ASSUME NEW w \in Worker, FailedDecide(w) PROVE All
  <2>1. \/ Finish(w)
        \/ Serve(w, [op |-> "lock", level |-> LockFor(req[w].attempt)])
    BY <1>6 DEF FailedDecide, Finish
  <2> QED  BY <1>3, <1>4, <2>1
<1>7. ASSUME NEW w \in Worker,
             \/ \E s \in Session : RefreshLoad(w, s)
             \/ \E c \in Challenge : AnswerLoad(w, c)
             \/ AnswerRight(w) \/ AnswerWrong(w)
      PROVE All
  <2>1. \E r : Serve(w, r)
    BY <1>7 DEF RefreshLoad, AnswerLoad, AnswerRight, AnswerWrong, Accept
  <2>2. \A v \in Worker \ {w} : req'[v] = req[v]
    BY <1>1, <2>1, Served
  <2>3. Continues(w)
    BY <1>7 DEF Continues
  <2>4. \A v \in Worker \ {w} : Continues(v)
    BY <2>2 DEF Continues
  <2> QED  BY <2>3, <2>4
<1> HIDE DEF All
<1>8. ASSUME CredentialNext PROVE All
  <2>1. ASSUME NEW w \in Worker,
               \/ RegisterLoad(w) \/ RegisterCreate(w) \/ RegisterConflict(w)
               \/ ResendLoad(w) \/ VerifyEmailCommit(w)
               \/ \E t \in MailToken : MailTokenCreate(w, t) \/ VerifyEmailLoad(w, t)
        PROVE All
    BY <1>3, <1>4, <2>1
       DEF RegisterLoad, RegisterCreate, RegisterConflict, ResendLoad,
           MailTokenCreate, VerifyEmailLoad, VerifyEmailCommit
  <2>2. ASSUME NEW w \in Worker,
               \/ ForgotLoad(w) \/ ResetCommit(w)
               \/ ChangeLoad(w) \/ ChangeWrite(w) \/ ChangeSweep(w)
               \/ \E t \in ResetToken : ForgotCreate(w, t) \/ ResetLoad(w, t)
        PROVE All
    BY <1>3, <1>4, <2>2
       DEF ForgotLoad, ForgotCreate, ResetLoad, ResetCommit, ChangeLoad,
           ChangeWrite, ChangeSweep
  <2>3. CASE \/ \E t \in MailToken : MailExpires(t)
             \/ \E t \in ResetToken : ResetExpires(t)
    BY <1>2, <2>3 DEF MailExpires, ResetExpires
  <2> QED  BY <1>8, <2>1, <2>2, <2>3 DEF CredentialNext
<1>9. ASSUME SessionNext PROVE All
  BY <1>2, <1>3, <1>4, <1>7, <1>9
     DEF SessionNext, RefreshCommit, ReuseLoad, RevokeLoad, ReuseRevoke,
         RevokeWrite, SessionExpires
<1>10. ASSUME LoginNext PROVE All
  BY <1>2, <1>3, <1>4, <1>5, <1>6, <1>10
     DEF LoginNext, LoginLoad, CompleteOpen, FailedLoad, FailedRead, FailedRow,
         FailedRowGone, FailedCount, FailedLock, WindowCloses, LockExpires
<1>11. ASSUME MfaNext PROVE All
  BY <1>2, <1>3, <1>4, <1>7, <1>11
     DEF MfaNext, SetupLoad, SetupCommit, SetupConflict, DisableLoad,
         DisableCommit, DisableConflict, ChallengeCreate, AnswerWithoutFactor,
         MissWrite, AcceptCommit, AcceptConflict, ChallengeExpires
<1>12. ASSUME \E w \in Worker : Abort(w) PROVE All
  BY <1>4, <1>12 DEF Abort
<1>13. ASSUME UNCHANGED vars PROVE All
  BY <1>2, <1>13 DEF vars
<1>14. All
  BY <1>8, <1>9, <1>10, <1>11, <1>12, <1>13 DEF Next
<1> QED  BY <1>14 DEF All

\* A family that has ended gets no session and no rotation any more.
LEMMA EndedStep ==
  ASSUME AccessInv, [Next]_vars, NEW f \in Session, Ended(f),
         session[f].family = f
  PROVE Ended(f)'
<1>1. TypeOK /\ Requests /\ Exists(session[f]) /\ ~Rotating(f)
      /\ \A s \in Session : InFamily(s, f) => ~session[s].live
  BY DEF AccessInv, Ended
<1>2. session'[f] # Absent
  BY <1>1, SessionStep
<1>3. ASSUME NEW s \in Session, session'[s] # Absent, session'[s].family = f
      PROVE InFamily(s, f)
  <2>1. CASE Exists(session[s])
    BY <1>3, <2>1, SessionStep DEF InFamily
  <2>2. CASE ~Exists(session[s])
    <3>1. s # f
      BY <1>1, <2>2
    <3>2. PICK q \in Session : RotatedFrom(s, q)
      BY <1>3, <2>2, <3>1, SessionStep DEF Opened
    <3>3. /\ Exists(session[q]) /\ session[q].family = f
      BY <1>1, <1>3, <3>2, RotatedRow DEF RotatedFrom
    <3>4. Rotating(f)
      BY <3>2, <3>3 DEF Rotating, RotatedFrom, InFamily
    <3> QED  BY <1>1, <3>4
  <2> QED  BY <2>1, <2>2
<1>4. ASSUME NEW s \in Session, session'[s] # Absent, session'[s].family = f
      PROVE ~session'[s].live
  <2>1. InFamily(s, f) /\ ~session[s].live
    BY <1>1, <1>3, <1>4
  <2> QED  BY <2>1, SessionStep DEF InFamily
<1>5. ASSUME NEW v \in Worker, req'[v].op = "refresh",
             session'[req'[v].session] # Absent,
             session'[req'[v].session].family = f
      PROVE FALSE
  <2>1. CASE req'[v] = req[v]
    <3>1. req[v].op = "refresh" /\ req[v].session \in Session
      BY <1>1, <1>5, <2>1, Fields
    <3>2. InFamily(req[v].session, f)
      BY <1>3, <1>5, <2>1, <3>1
    <3> QED  BY <1>1, <3>1, <3>2 DEF Rotating
  <2>2. ASSUME NEW s \in Session, RefreshLoad(v, s) PROVE FALSE
    <3>1. /\ session' = session /\ session[s].live /\ Exists(session[s])
          /\ req'[v] = [op |-> "refresh", session |-> s, swept |-> history.swept]
      BY <1>1, <2>2, Served DEF RefreshLoad
    <3>2. req'[v].session = s
      BY <3>1
    <3>3. InFamily(s, f)
      BY <1>3, <1>5, <3>2
    <3> QED  BY <1>1, <3>1, <3>3
  <2>3. ASSUME NEW c \in Challenge, AnswerLoad(v, c) PROVE FALSE
    <3>1. req'[v] = [op |-> "answer", challenge |-> c,
                     attempts |-> challenge[c].attempts]
      BY <1>1, <2>3, Served DEF AnswerLoad
    <3> QED  BY <1>5, <3>1
  <2>4. CASE AnswerRight(v)
    <3>1. PICK b, k : Accept(v, b, k)
      BY <2>4 DEF AnswerRight
    <3>2. req'[v] = [op |-> "accept", challenge |-> req[v].challenge,
                     write |-> b, codes |-> k]
      BY <1>1, <3>1, Served DEF Accept
    <3> QED  BY <1>5, <3>2
  <2>5. CASE AnswerWrong(v)
    <3>1. req'[v] = [op |-> "miss", challenge |-> req[v].challenge,
                     attempts |-> req[v].attempts]
      BY <1>1, <2>5, Missed
    <3> QED  BY <1>5, <3>1
  <2> QED  BY <1>5, <2>1, <2>2, <2>3, <2>4, <2>5, RequestFrame DEF Continues
<1> QED  BY <1>2, <1>4, <1>5 DEF Ended, Rotating, InFamily, Exists

\* A challenge that is over gets no answer any more.
LEMMA OverStep ==
  ASSUME AccessInv, [Next]_vars, NEW c \in Challenge, ChallengeOver(c)
  PROVE ChallengeOver(c)'
<1>1. /\ TypeOK /\ Exists(challenge[c]) /\ ~Answering(c)
      /\ challenge[c].used \/ challenge[c].revoked \/ challenge[c].overdue
  BY DEF AccessInv, ChallengeOver
<1>2. /\ challenge'[c] # Absent
      /\ challenge'[c].used \/ challenge'[c].revoked \/ challenge'[c].overdue
  BY <1>1, ChallengeStep
<1>3. ASSUME NEW v \in Worker, req'[v].op \in {"answer", "miss", "accept"},
             req'[v].challenge = c
      PROVE FALSE
  <2>1. CASE req'[v] = req[v]
    BY <1>1, <1>3, <2>1 DEF Answering
  <2>2. ASSUME NEW s \in Session, RefreshLoad(v, s) PROVE FALSE
    <3>1. req'[v] = [op |-> "refresh", session |-> s, swept |-> history.swept]
      BY <1>1, <2>2, Served DEF RefreshLoad
    <3> QED  BY <1>3, <3>1
  <2>3. ASSUME NEW d \in Challenge, AnswerLoad(v, d) PROVE FALSE
    <3>1. /\ ValidChallenge(d)
          /\ req'[v] = [op |-> "answer", challenge |-> d,
                        attempts |-> challenge[d].attempts]
      BY <1>1, <2>3, Served DEF AnswerLoad
    <3>2. d = c
      BY <1>3, <3>1
    <3> QED  BY <1>1, <3>1, <3>2 DEF ValidChallenge
  <2>4. CASE AnswerRight(v)
    <3>1. PICK b, k : Accept(v, b, k)
      BY <2>4 DEF AnswerRight
    <3>2. /\ req[v].op = "answer"
          /\ req'[v] = [op |-> "accept", challenge |-> req[v].challenge,
                        write |-> b, codes |-> k]
      BY <1>1, <2>4, <3>1, Served DEF Accept, AnswerRight
    <3> QED  BY <1>1, <1>3, <3>2 DEF Answering
  <2>5. CASE AnswerWrong(v)
    <3>1. /\ req[v].op = "answer"
          /\ req'[v] = [op |-> "miss", challenge |-> req[v].challenge,
                        attempts |-> req[v].attempts]
      BY <1>1, <2>5, Missed
    <3> QED  BY <1>1, <1>3, <3>1 DEF Answering
  <2> QED  BY <1>3, <2>1, <2>2, <2>3, <2>4, <2>5, RequestFrame DEF Continues
<1> QED  BY <1>2, <1>3 DEF ChallengeOver, Answering, Exists

-----------------------------------------------------------------------------
(* The theorems *)

LEMMA AccessInit ==
  ASSUME Init
  PROVE AccessInv
<1> USE DEF Init, AccountsInit
<1>1. Idle.op = "idle" /\ Idle \in Request
  BY Requesting DEF Idle
<1>2. 0 \in 0..MaxPassword /\ 1 \in 0..MaxPassword /\ 0 \in 0..MaxSetups
  BY AccountsAssumption
<1>3. [FirstPassword EXCEPT !.status = "ACTIVE"] \in Account
      /\ LET a == [FirstPassword EXCEPT !.status = "ACTIVE"] IN
           /\ a.status = "ACTIVE" /\ a.lock = "none" /\ a.authStage = "NONE"
           /\ a.password = 1
  <2>1. FirstPassword \in Account
    BY Rows
  <2> QED  BY <2>1, Rows DEF Account
<1>4. account = Absent \/ account = [FirstPassword EXCEPT !.status = "ACTIVE"]
  OBVIOUS
<1>5. /\ history.swept = 0 /\ history.sources = {}
      /\ account = Absent => history.passwords = 0 /\ ~history.seeded
      /\ account # Absent => history.passwords = 1 /\ history.seeded
  <2>1. PICK seeded \in BOOLEAN :
       /\ account = IF seeded THEN [FirstPassword EXCEPT !.status = "ACTIVE"]
                    ELSE Absent
       /\ history = [seeded |-> seeded, passwords |-> IF seeded THEN 1 ELSE 0,
                     setups |-> 0, swept |-> 0, sources |-> {}]
    OBVIOUS
  <2>2. CASE seeded
    BY <1>3, <2>1, <2>2, Rows
  <2>3. CASE ~seeded
    BY <2>1, <2>3
  <2> QED  BY <2>2, <2>3
<1>6. history \in History
  BY <1>2 DEF History
<1>7. TypeOK
  BY <1>1, <1>3, <1>4, <1>6 DEF TypeOK, Attempt
<1>8. /\ \A s \in Session : session[s] = Absent
      /\ \A t \in MailToken : mail[t] = Absent
      /\ \A t \in ResetToken : reset[t] = Absent
      /\ \A c \in Challenge : challenge[c] = Absent
      /\ \A i \in Ip : attempts[i] = "none"
      /\ \A w \in Worker : req[w] = Idle
      /\ mfa = None
  OBVIOUS
<1> HIDE DEF Init, AccountsInit
<1>9. Requests
  BY <1>1, <1>8 DEF Requests, RequestSound
<1>10. Owned
  <2>1. account # Absent => account.password = history.passwords
    BY <1>3, <1>4, <1>5
  <2>2. history.swept <= history.passwords
    BY <1>5
  <2> QED  BY <1>5, <1>8, <2>1, <2>2 DEF Owned, Registered, Exists
<1>11. Sources
  BY <1>8 DEF Sources, Exists
<1>12. SurvivorsStraddle /\ RotationSpendsParent
  BY <1>8 DEF SurvivorsStraddle, RotationSpendsParent, Live, Exists
<1>13. ActiveIffVerified
  BY <1>5 DEF ActiveIffVerified, Registered, Exists
<1>14. StageMatchesMfa /\ LockNeedsTwoSources
  BY <1>3, <1>4, <1>8
     DEF StageMatchesMfa, LockNeedsTwoSources, Registered, Exists
<1> QED  BY <1>7, <1>9, <1>10, <1>11, <1>12, <1>13, <1>14 DEF AccessInv

\* The invariant of auth and mfa: what rows come from, what requests rely on
\* and what the properties say holds in every state, whatever interleaves.
THEOREM AccessInvariant == Spec => []AccessInv
<1>1. Init => AccessInv
  BY AccessInit
<1>2. AccessInv /\ [Next]_vars => AccessInv'
  BY TypeStep, RequestsStep, OwnedStep, SourcesStep, SurvivorsStep,
     RotationStep, ActiveStep, StageStep, LockStep
     DEF AccessInv
<1> QED  BY <1>1, <1>2, PTL DEF Spec

\* Rows and requests keep their types.
THEOREM AccountTypeCorrect == Spec => []TypeOK
<1>1. AccessInv => TypeOK
  BY DEF AccessInv
<1> QED  BY <1>1, AccessInvariant, PTL

\* After all sessions were revoked, only what was under way then carries an
\* older password on (auth.service.ts:539-542, :560-564).
THEOREM OldPasswordsStraddle == Spec => []SurvivorsStraddle
<1>1. AccessInv => SurvivorsStraddle
  BY DEF AccessInv
<1> QED  BY <1>1, AccessInvariant, PTL

\* No session is alive together with the one it was rotated from
\* (auth.service.ts:447-466).
THEOREM RotationEndsParent == Spec => []RotationSpendsParent
<1>1. AccessInv => RotationSpendsParent
  BY DEF AccessInv
<1> QED  BY <1>1, AccessInvariant, PTL

\* An account is ACTIVE exactly when one of its tokens was spent
\* (auth.service.ts:199-213).
THEOREM EmailIsProven == Spec => []ActiveIffVerified
<1>1. AccessInv => ActiveIffVerified
  BY DEF AccessInv
<1> QED  BY <1>1, AccessInvariant, PTL

\* The stage says whether there is a second factor (mfa.service.ts:92-104,
\* :127-133).
THEOREM StageIsTrue == Spec => []StageMatchesMfa
<1>1. AccessInv => StageMatchesMfa
  BY DEF AccessInv
<1> QED  BY <1>1, AccessInvariant, PTL

\* One address never locks an account (auth.service.ts:339-345).
THEOREM OneAddressNeverLocks == Spec => []LockNeedsTwoSources
<1>1. AccessInv => LockNeedsTwoSources
  BY DEF AccessInv
<1> QED  BY <1>1, AccessInvariant, PTL

\* A family that has ended never comes back (auth.service.ts:430-466).
THEOREM EndedFamilies == Spec => EndedFamilyStaysEnded
<1>1. AccessInv /\ [Next]_vars =>
        \A f \in Session : Ended(f) /\ session[f].family = f => Ended(f)'
  BY EndedStep
<1>2. AccessInv /\ [Next]_vars =>
        [\A f \in Session :
           Ended(f) /\ session[f].family = f => Ended(f)']_vars
  BY <1>1
<1> QED  BY <1>2, AccessInvariant, PTL DEF Spec, EndedFamilyStaysEnded

\* A challenge that is over is never answered again (mfa.service.ts:157-173).
THEOREM ChallengesStayOver == Spec => ChallengeStaysOver
<1>1. AccessInv /\ [Next]_vars =>
        \A c \in Challenge : ChallengeOver(c) => ChallengeOver(c)'
  BY OverStep
<1>2. AccessInv /\ [Next]_vars =>
        [\A c \in Challenge : ChallengeOver(c) => ChallengeOver(c)']_vars
  BY <1>1
<1> QED  BY <1>2, AccessInvariant, PTL DEF Spec, ChallengeStaysOver
=============================================================================
