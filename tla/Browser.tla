------------------------------- MODULE Browser -------------------------------
(***************************************************************************)
(* The web client's session: web/src/api/client.ts and stores/auth.ts in    *)
(* the tabs of one browser, which share a cookie jar, against the guards    *)
(* and the session table of the API.  One account, without second factor.   *)
(*                                                                          *)
(* A fetch takes the cookies of the jar when it leaves; its answer changes  *)
(* the jar when it lands, after the answers of later fetches if need be,    *)
(* or is lost, the request having been served or not.                       *)
(***************************************************************************)
EXTENDS Naturals, FiniteSets

CONSTANTS
  Tab,         \* pages of the application open at once
  Call,        \* bound: calls of api() in progress at once
  MaxSession,  \* bound: rows of sessions, from logins and refreshes
  None         \* no cookie, JavaScript null

ASSUME BrowserAssumption ==
  MaxSession \in Nat /\ None \notin Nat

VARIABLES
  jar,      \* the cookies ng_access, ng_refresh, ng_csrf
  session,  \* the rows of the account in sessions
  tab,      \* per tab: user # null, csrfToken, refreshPromise
  call,     \* the calls of api() that the views have made
  calm,     \* history: refused calls whose recovery nothing has disturbed
  crossed,  \* history: a refresh was lost or met the refresh of another tab
  reused    \* history: the server met a token that it had rotated

vars == <<jar, session, tab, call, calm, crossed, reused>>

\* A CSRF token is random, so all that matters of one is whether it is the one
\* in the jar.
Token == {"same", "other"}
Session == 1..MaxSession
Op == {"click", "me", "login", "logout", "password"}

Path(op) == IF op \in {"login", "logout"} THEN "/auth" ELSE "/"
Mutating(op) == op # "me"

\* logout passes csrf = false.
NeedsToken(op) == Mutating(op) /\ op # "logout"

EmptyJar == [access |-> FALSE, refresh |-> None]

Live(s) == s # None /\ session[s].state = "live"

Absent(s) == [state |-> "none", family |-> s]
Spare(n) ==
  session[n] = Absent(n) /\ \A m \in 1..(n - 1) : session[m] # Absent(m)

\* The jar gets another ng_csrf, or loses it: no token in use is that one.
Outdated(token) == IF token = "same" THEN "other" ELSE token
TabsOutdated == [t \in Tab |-> [tab[t] EXCEPT !.token = Outdated(@)]]
CallsOutdated == [c \in Call |-> [call[c] EXCEPT !.token = Outdated(@)]]

\* ng_refresh has the path of the refresh endpoint: the browser sends it there
\* and nowhere else.
Shown(path) == IF path = "/auth/refresh" THEN jar.refresh ELSE None

\* What the guards will say of a fetch that leaves now, in the order of
\* app.module.ts:84-87: the CSRF guard for what mutates, comparing cookie and
\* header, then JwtAuthGuard for what is not public.
Passes(op, token) ==
  /\ NeedsToken(op) => token = "same"
  /\ Path(op) = "/" => jar.access

IdleCall(t) ==
  [tab |-> t, op |-> "click", pc |-> "idle", token |-> None, shown |-> None,
   passes |-> FALSE, answer |-> "none", got |-> None, executed |-> 0,
   retried |-> FALSE]

Free(c) == call[c].pc \in {"idle", "refused"}
Update(c, r) == call' = [call EXCEPT ![c] = r]
Over(how) == [IdleCall(None) EXCEPT !.pc = how]
Ends(c, how) == Update(c, Over(how))

Sent(r, token) ==
  [r EXCEPT !.pc = "sent", !.token = None, !.answer = "none",
            !.shown = Shown(Path(r.op)), !.passes = Passes(r.op, token)]

Awaits(c, t) == call[c].pc = "refreshing" /\ call[c].tab = t

\* Something else than the recovery of the calls in C reached the jar or the
\* session table.
Disturbs(C) == calm' = calm \cap C

-----------------------------------------------------------------------------
(* api(), client.ts *)

\* Up to the first await: the token is at hand, or is not needed, or must be
\* fetched; two calls that find none fetch one each.
Begin(c, t, op) ==
  LET r == [IdleCall(t) EXCEPT !.op = op] IN
  /\ Free(c)
  /\ Update(c, IF ~NeedsToken(op) \/ tab[t].token # None
                 THEN Sent(r, tab[t].token)
                 ELSE [r EXCEPT !.pc = "asking"])
  /\ Disturbs(Call \ {c})
  /\ UNCHANGED <<jar, session, tab, crossed, reused>>

\* GET /auth/csrf: the cookie is in the jar before the body has been read.
TokenLands(c) ==
  /\ call[c].pc = "asking"
  /\ tab' = TabsOutdated
  /\ call' = [CallsOutdated EXCEPT ![c].pc = "parsing", ![c].token = "same"]
  /\ Disturbs({c})
  /\ UNCHANGED <<jar, session, crossed, reused>>

TokenParsed(c) ==
  LET k == call[c].token IN
  /\ call[c].pc = "parsing"
  /\ tab' = [tab EXCEPT ![call[c].tab].token = k]
  /\ Update(c, Sent(call[c], k))
  /\ UNCHANGED <<jar, session, calm, crossed, reused>>

Turned(r) ==
  [r EXCEPT !.pc = "answered", !.answer = "401", !.passes = FALSE]
Served(r, n) ==
  [r EXCEPT !.pc = "answered", !.answer = "ok", !.passes = FALSE,
            !.shown = None, !.got = n, !.executed = @ + 1]

ServerRefuses(c) ==
  /\ call[c].pc = "sent" /\ ~call[c].passes
  /\ Update(c, Turned(call[c]))
  /\ UNCHANGED <<jar, session, tab, calm, crossed, reused>>

\* login and changePassword answer 401 to a wrong password, like a guard, and
\* api() renews the session and sends the wrong password again.
ServerRejects(c) ==
  /\ call[c].pc = "sent" /\ call[c].op \in {"login", "password"}
  /\ call[c].passes
  /\ Update(c, Turned(call[c]))
  /\ Disturbs(Call \ {c})
  /\ UNCHANGED <<jar, session, tab, crossed, reused>>

ServerClick(c) ==
  /\ call[c].pc = "sent" /\ call[c].op \in {"click", "me"} /\ call[c].passes
  /\ Update(c, Served(call[c], None))
  /\ UNCHANGED <<jar, session, tab, calm, crossed, reused>>

ServerLogin(c, n) ==
  /\ call[c].pc = "sent" /\ call[c].op = "login" /\ call[c].passes
  /\ Spare(n)
  /\ session' = [session EXCEPT ![n] = [state |-> "live", family |-> n]]
  /\ Update(c, Served(call[c], n))
  /\ UNCHANGED <<jar, tab, calm, crossed, reused>>

Revoked(s) ==
  [session[s] EXCEPT !.state = IF @ = "live" THEN "revoked" ELSE @]

\* logout revokes the session whose token it was shown.
ServerLogout(c) ==
  LET s == call[c].shown IN
  /\ call[c].pc = "sent" /\ call[c].op = "logout"
  /\ IF s = None THEN UNCHANGED session
                 ELSE session' = [session EXCEPT ![s] = Revoked(s)]
  /\ Update(c, Served(call[c], None))
  /\ Disturbs({})
  /\ UNCHANGED <<jar, tab, crossed, reused>>

ServerPassword(c) ==
  /\ call[c].pc = "sent" /\ call[c].op = "password" /\ call[c].passes
  /\ session' = [s \in Session |-> Revoked(s)]
  /\ Update(c, Served(call[c], None))
  /\ Disturbs({})
  /\ UNCHANGED <<jar, tab, crossed, reused>>

-----------------------------------------------------------------------------
(* The answer lands *)

Answered(c, op, a) ==
  call[c].pc = "answered" /\ call[c].op = op /\ call[c].answer = a

AnswerDone(c) ==
  /\ Answered(c, "click", "ok")
  /\ Ends(c, "idle")
  /\ Disturbs(Call \ {c})
  /\ UNCHANGED <<jar, session, tab, crossed, reused>>

\* stores/auth.ts: bootstrap, and the second half of login.
AnswerMe(c) ==
  /\ call[c].pc = "answered" /\ call[c].op = "me"
  /\ tab' = [tab EXCEPT ![call[c].tab].user = (call[c].answer = "ok")]
  /\ Ends(c, IF call[c].answer = "ok" THEN "idle" ELSE "refused")
  /\ UNCHANGED <<jar, session, calm, crossed, reused>>

AnswerLogin(c) ==
  LET t == call[c].tab IN
  /\ Answered(c, "login", "ok")
  /\ jar' = [access |-> TRUE, refresh |-> call[c].got]
  /\ tab' = [TabsOutdated EXCEPT ![t].token = None]
  /\ call' = [CallsOutdated EXCEPT ![c] =
       [IdleCall(t) EXCEPT !.op = "me", !.pc = "sent", !.passes = TRUE]]
  /\ Disturbs({})
  /\ UNCHANGED <<session, crossed, reused>>

\* stores/auth.ts: the local state goes, whether the call succeeded or not.
SignedOut(tabs, t) ==
  [tabs EXCEPT ![t].token = None, ![t].user = FALSE]

AnswerLogout(c) ==
  /\ Answered(c, "logout", "ok")
  /\ jar' = EmptyJar
  /\ tab' = SignedOut(TabsOutdated, call[c].tab)
  /\ call' = [CallsOutdated EXCEPT ![c] = Over("idle")]
  /\ Disturbs({})
  /\ UNCHANGED <<session, crossed, reused>>

\* ProfileView: changePassword goes on with auth.logout().
AnswerPassword(c) ==
  LET t == call[c].tab IN
  /\ Answered(c, "password", "ok")
  /\ jar' = EmptyJar
  /\ tab' = TabsOutdated
  /\ call' = [CallsOutdated EXCEPT ![c] =
       [IdleCall(t) EXCEPT !.op = "logout", !.pc = "sent", !.passes = TRUE]]
  /\ Disturbs({})
  /\ UNCHANGED <<session, crossed, reused>>

Recovers(r) ==
  r.answer = "401" /\ Mutating(r.op) /\ Path(r.op) # "/auth" /\ ~r.retried

\* 401, for good.
AnswerRefused(c) ==
  /\ call[c].pc = "answered" /\ call[c].answer = "401"
  /\ call[c].op # "me" /\ ~Recovers(call[c])
  /\ Ends(c, "refused")
  /\ UNCHANGED <<jar, session, tab, calm, crossed, reused>>

NoRefresh == [stage |-> "none", shown |-> None, got |-> None]
RefreshSent ==
  [stage |-> "sent", shown |-> Shown("/auth/refresh"), got |-> None]

OtherRefresh(t) ==
  \E u \in Tab \ {t} : tab[u].refresh.stage # "none"

\* Mutant: every refused call starts a refresh.
RefreshEach(c) ==
  LET t == call[c].tab IN
  /\ call[c].pc = "answered" /\ Recovers(call[c])
  /\ Update(c, [call[c] EXCEPT !.pc = "refreshing", !.answer = "none"])
  /\ tab' = [tab EXCEPT ![t].refresh = RefreshSent]
  /\ calm' = calm \ {c}
  /\ crossed' = (crossed \/ OtherRefresh(t))
  /\ UNCHANGED <<jar, session, reused>>

\* tryRefreshOnce: the first call that was refused starts a refresh, those
\* that follow in the same tab wait for that one.
AnswerRecovers(c) ==
  LET t == call[c].tab
      first == tab[t].refresh.stage = "none"
  IN
  /\ call[c].pc = "answered" /\ Recovers(call[c])
  /\ Update(c, [call[c] EXCEPT !.pc = "refreshing", !.answer = "none"])
  /\ tab' = IF first THEN [tab EXCEPT ![t].refresh = RefreshSent] ELSE tab
  /\ calm' = IF \/ first /\ Live(jar.refresh)
                \/ ~first /\ \E d \in calm : Awaits(d, t)
               THEN calm \cup {c} ELSE calm \ {c}
  /\ crossed' = (crossed \/ (first /\ OtherRefresh(t)))
  /\ UNCHANGED <<jar, session, reused>>

\* Mutant: a fetch that fails is sent again.
CallAgain(c) ==
  /\ call[c].pc \in {"asking", "sent", "answered"}
  /\ Update(c, [call[c] EXCEPT !.pc = "asking"])
  /\ UNCHANGED <<jar, session, tab, calm, crossed, reused>>

\* The fetch fails.
CallLost(c) ==
  /\ call[c].pc \in {"asking", "sent", "answered"}
  /\ tab' = IF call[c].op = "logout" THEN SignedOut(tab, call[c].tab) ELSE tab
  /\ Ends(c, "idle")
  /\ Disturbs(Call \ {c})
  /\ UNCHANGED <<jar, session, crossed, reused>>

-----------------------------------------------------------------------------
(* The refresh of a tab *)

Refreshing(t, stage) == tab[t].refresh.stage = stage

RefreshAnswered(t, n) ==
  tab' = [tab EXCEPT ![t].refresh =
            [stage |-> "answered", shown |-> None, got |-> n]]

RefreshWithout(t) ==
  /\ Refreshing(t, "sent") /\ tab[t].refresh.shown = None
  /\ RefreshAnswered(t, None)
  /\ UNCHANGED <<jar, session, call, calm, crossed, reused>>

RefreshRead(t) ==
  /\ Refreshing(t, "sent") /\ Live(tab[t].refresh.shown)
  /\ tab' = [tab EXCEPT ![t].refresh.stage = "read"]
  /\ UNCHANGED <<jar, session, call, calm, crossed, reused>>

\* A token that was spent or revoked ends its whole family.
RefreshReuse(t) ==
  LET s == tab[t].refresh.shown IN
  /\ Refreshing(t, "sent") /\ s # None /\ ~Live(s)
  /\ session' = [x \in Session |->
       IF session[x].family = session[s].family THEN Revoked(x)
                                                ELSE session[x]]
  /\ reused' = (reused \/ session[s].state = "rotated")
  /\ RefreshAnswered(t, None)
  /\ Disturbs({})
  /\ UNCHANGED <<jar, call, crossed>>

RefreshCommit(t, n) ==
  LET s == tab[t].refresh.shown IN
  /\ Refreshing(t, "read") /\ Spare(n)
  /\ session' = [session EXCEPT
       ![s].state = "rotated",
       ![n] = [state |-> "live", family |-> session[s].family]]
  /\ RefreshAnswered(t, n)
  /\ Disturbs({c \in Call : Awaits(c, t)})
  /\ UNCHANGED <<jar, call, crossed, reused>>

\* Mutant: the second attempt carries the token of the first.
RetryWithToken(t) ==
  /\ tab' = [TabsOutdated EXCEPT ![t].refresh = NoRefresh]
  /\ call' = [c \in Call |->
       IF Awaits(c, t)
         THEN [call[c] EXCEPT !.pc = "sent", !.retried = TRUE]
         ELSE CallsOutdated[c]]

\* The calls that waited: with the cookies renewed they drop the token, fetch
\* another and ask once more; without, they are refused.
Retry(t) ==
  /\ tab' = [TabsOutdated EXCEPT ![t].refresh = NoRefresh, ![t].token = None]
  /\ call' = [c \in Call |->
       IF Awaits(c, t)
         THEN [call[c] EXCEPT !.pc = "asking", !.retried = TRUE]
         ELSE CallsOutdated[c]]

GiveUp(t) ==
  /\ tab' = [tab EXCEPT ![t].refresh = NoRefresh]
  /\ call' = [c \in Call |->
       IF Awaits(c, t) THEN Over("refused") ELSE call[c]]

RefreshLands(t) ==
  LET n == tab[t].refresh.got IN
  /\ Refreshing(t, "answered") /\ n # None
  /\ jar' = [access |-> TRUE, refresh |-> n]
  /\ Retry(t)
  /\ Disturbs({c \in Call : Awaits(c, t)})
  /\ UNCHANGED <<session, crossed, reused>>

RefreshFails(t) ==
  /\ Refreshing(t, "answered") /\ tab[t].refresh.got = None
  /\ GiveUp(t)
  /\ UNCHANGED <<jar, session, calm, crossed, reused>>

RefreshLost(t) ==
  /\ ~Refreshing(t, "none")
  /\ GiveUp(t)
  /\ crossed' = TRUE
  /\ Disturbs({})
  /\ UNCHANGED <<jar, session, reused>>

-----------------------------------------------------------------------------
(* The user and the clock *)

Click(c, t) == tab[t].user /\ Begin(c, t, "click")
LogIn(c, t) == ~tab[t].user /\ Begin(c, t, "login")
LogOut(c, t) == tab[t].user /\ Begin(c, t, "logout")
ChangePassword(c, t) == tab[t].user /\ Begin(c, t, "password")
\* router.beforeEach on a page that is not public.
Visit(c, t) == ~tab[t].user /\ Begin(c, t, "me")

\* A session is revoked by its id.  isCurrent compares with ng_refresh, which
\* never comes to that endpoint: no cookie is cleared, also when it is the
\* session of this browser that its user picks.
RevokeSession(s) ==
  /\ Live(s)
  /\ session' = [session EXCEPT ![s] = Revoked(s)]
  /\ Disturbs({})
  /\ UNCHANGED <<jar, tab, call, crossed, reused>>

\* The page is loaded again: the memory of the tab goes, the jar stays.
Reload(t) ==
  /\ Refreshing(t, "none")
  /\ \A c \in Call : call[c].tab = t => Free(c)
  /\ tab' = SignedOut(tab, t)
  /\ UNCHANGED <<jar, session, call, calm, crossed, reused>>

\* Cookies run out: ng_access with its token, ng_csrf after two hours.
AccessExpires ==
  /\ jar.access
  /\ jar' = [jar EXCEPT !.access = FALSE]
  /\ Disturbs({})
  /\ UNCHANGED <<session, tab, call, crossed, reused>>

TokenExpires ==
  /\ tab' = TabsOutdated /\ call' = CallsOutdated
  /\ Disturbs({})
  /\ UNCHANGED <<jar, session, crossed, reused>>

-----------------------------------------------------------------------------

Init ==
  /\ jar = EmptyJar
  /\ session = [s \in Session |-> Absent(s)]
  /\ tab = [t \in Tab |-> [user |-> FALSE, token |-> None,
                           refresh |-> NoRefresh]]
  /\ call = [c \in Call |-> IdleCall(None)]
  /\ calm = {} /\ crossed = FALSE /\ reused = FALSE

UserNext ==
  \/ \E c \in Call, t \in Tab :
       \/ Click(c, t) \/ LogIn(c, t) \/ LogOut(c, t) \/ ChangePassword(c, t)
       \/ Visit(c, t)
  \/ \E s \in Session : RevokeSession(s)
  \/ \E t \in Tab : Reload(t)
  \/ AccessExpires \/ TokenExpires

ServerCall(c) ==
  \/ ServerRefuses(c) \/ ServerRejects(c) \/ ServerClick(c)
  \/ ServerLogout(c) \/ ServerPassword(c)
  \/ \E n \in Session : ServerLogin(c, n)

Lands(c) ==
  \/ AnswerDone(c) \/ AnswerMe(c) \/ AnswerLogout(c) \/ AnswerPassword(c)
  \/ AnswerRefused(c) \/ AnswerRecovers(c) \/ AnswerLogin(c)
  \/ TokenLands(c) \/ TokenParsed(c)

RefreshNext(t) ==
  \/ RefreshWithout(t) \/ RefreshRead(t) \/ RefreshReuse(t)
  \/ RefreshLands(t) \/ RefreshFails(t) \/ RefreshLost(t)
  \/ \E n \in Session : RefreshCommit(t, n)

CallNext(c) == ServerCall(c) \/ Lands(c) \/ CallLost(c)

Next ==
  \/ UserNext
  \/ \E c \in Call : CallNext(c)
  \/ \E t \in Tab : RefreshNext(t)

Spec == Init /\ [][Next]_vars

-----------------------------------------------------------------------------

\* Cookies, rows and calls have the shapes their code gives them, and a call
\* that waits for a refresh waits for one that is under way in its tab.
TypeOK ==
  /\ jar \in [access: BOOLEAN, refresh: Session \cup {None}]
  /\ session \in [Session -> [state: {"none", "live", "rotated", "revoked"},
                              family: Session]]
  /\ tab \in [Tab ->
       [user: BOOLEAN, token: Token \cup {None},
        refresh: [stage: {"none", "sent", "read", "answered"},
                  shown: Session \cup {None}, got: Session \cup {None}]]]
  /\ call \in [Call ->
       [tab: Tab \cup {None}, op: Op,
        pc: {"idle", "asking", "parsing", "sent", "answered", "refreshing",
             "refused"},
        token: Token \cup {None}, shown: Session \cup {None},
        passes: BOOLEAN, answer: {"none", "ok", "401"}, got: Session \cup {None},
        executed: 0..2, retried: BOOLEAN]]
  /\ \A c \in Call, t \in Tab : Awaits(c, t) => ~Refreshing(t, "none")
  /\ calm \subseteq Call
  /\ crossed \in BOOLEAN /\ reused \in BOOLEAN

\* client.ts:85-97 asks again only for what the guards turned away, so one
\* click is carried out once at most, whatever is lost, refreshed or retried.
AtMostOnce == \A c \in Call : call[c].executed <= 1

\* A call refused while a live session was in the jar is carried out after the
\* refresh, and not refused for good, unless something came between: another
\* answer with cookies, an expiry, a loss, the end of the session.
RecoveryWorks == \A c \in calm : call[c].pc # "refused"

\* auth.service.ts:430: a token that was rotated is shown again only after the
\* answer to a refresh was lost or two tabs refreshed at the same time; within
\* a tab refreshPromise prevents it, whatever the calls and their answers do.
ReuseHasCause == reused => crossed

\* auth.e2e-spec.ts:267: logout invalidates the session, here that of the
\* refresh token in the browser that signs out.
LogoutEndsSession ==
  \A c \in Call : Answered(c, "logout", "ok") => ~Live(jar.refresh)

=============================================================================
