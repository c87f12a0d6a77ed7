---------------------------- MODULE BrowserProofs -----------------------------
(***************************************************************************)
(* Proofs about Browser, for every number of tabs, calls and sessions.      *)
(***************************************************************************)
EXTENDS Browser, TLAPS

-----------------------------------------------------------------------------
(* Shapes. *)

CallRow ==
  [tab: Tab \cup {None}, op: Op,
   pc: {"idle", "asking", "parsing", "sent", "answered", "refreshing",
        "refused"},
   token: Token \cup {None}, shown: Session \cup {None},
   passes: BOOLEAN, answer: {"none", "ok", "401"}, got: Session \cup {None},
   executed: 0..2, retried: BOOLEAN]

RefreshRow ==
  [stage: {"none", "sent", "read", "answered"},
   shown: Session \cup {None}, got: Session \cup {None}]

TabRow == [user: BOOLEAN, token: Token \cup {None}, refresh: RefreshRow]

SessionRow ==
  [state: {"none", "live", "rotated", "revoked"}, family: Session]

\* A call that is under way belongs to a tab, and was carried out once when
\* its answer says so and not at all otherwise.
RowOK(r) ==
  /\ r \in CallRow
  /\ r.pc \notin {"idle", "refused"} => r.tab \in Tab
  /\ r.executed = IF r.pc = "answered" /\ r.answer = "ok" THEN 1 ELSE 0

\* Two rows that differ in their token at most.
Alike(x, r) ==
  /\ x.tab = r.tab /\ x.op = r.op /\ x.pc = r.pc /\ x.passes = r.passes
  /\ x.answer = r.answer /\ x.got = r.got

\* The refresh of a tab: shows a token until it is answered, brings one after.
RefreshOK(f) ==
  /\ f \in RefreshRow
  /\ f.stage = "none" => f.shown = None /\ f.got = None
  /\ f.stage \in {"sent", "read"} => f.got = None
  /\ f.stage = "read" => f.shown # None
  /\ f.stage = "answered" => f.shown = None

-----------------------------------------------------------------------------
(* The inductive invariant. *)

Rows ==
  /\ call \in [Call -> CallRow]
  /\ \A c \in Call : RowOK(call[c])

Tabs ==
  /\ tab \in [Tab -> TabRow]
  /\ \A t \in Tab : RefreshOK(tab[t].refresh)

Waits ==
  \A c \in Call :
    call[c].pc = "refreshing" => tab[call[c].tab].refresh.stage # "none"

State(s) == session[s].state

\* A token the browser has, shows or is about to get belongs to a session.
Issued ==
  /\ jar.refresh # None => State(jar.refresh) # "none"
  /\ \A t \in Tab :
       /\ tab[t].refresh.shown # None => State(tab[t].refresh.shown) # "none"
       /\ tab[t].refresh.got # None => State(tab[t].refresh.got) # "none"
  /\ \A c \in Call : call[c].got # None => State(call[c].got) # "none"

\* A token in an answer that has not landed is in no other answer, not in the
\* jar, and shown by nobody; so it cannot have been rotated.
Unlanded(n) ==
  /\ State(n) # "rotated"
  /\ n # jar.refresh
  /\ \A t \in Tab : n # tab[t].refresh.shown

Underway ==
  /\ \A c \in Call : call[c].got # None => Unlanded(call[c].got)
  /\ \A t \in Tab : tab[t].refresh.got # None => Unlanded(tab[t].refresh.got)
  /\ \A c, d \in Call :
       c # d /\ call[c].got # None => call[c].got # call[d].got
  /\ \A c \in Call, t \in Tab :
       call[c].got # None => call[c].got # tab[t].refresh.got
  /\ \A t, u \in Tab :
       t # u /\ tab[t].refresh.got # None =>
         tab[t].refresh.got # tab[u].refresh.got

\* Until a refresh was lost or met that of another tab, one tab refreshes at a
\* time; a rotated token is in the jar only while its successor is on its way,
\* and is shown by nobody.
Uncrossed ==
  /\ \A t, u \in Tab :
       tab[t].refresh.stage # "none" /\ tab[u].refresh.stage # "none" => t = u
  /\ jar.refresh # None /\ State(jar.refresh) = "rotated" =>
       \E t \in Tab : tab[t].refresh.got # None
  /\ \A t \in Tab :
       tab[t].refresh.shown # None => State(tab[t].refresh.shown) # "rotated"

\* How far the recovery of a call that nothing has disturbed has come.
Recovering(c) ==
  /\ call[c].op \in {"click", "password"}
  /\ \/ /\ call[c].pc = "refreshing"
        /\ LET f == tab[call[c].tab].refresh IN
           \/ /\ f.stage \in {"sent", "read"}
              /\ f.shown # None /\ State(f.shown) = "live"
           \/ f.stage = "answered" /\ f.got # None
     \/ call[c].pc = "asking" /\ jar.access
     \/ call[c].pc = "parsing" /\ jar.access /\ call[c].token = "same"
     \/ call[c].pc = "sent" /\ call[c].passes
     \/ call[c].pc = "answered" /\ call[c].answer = "ok"

Calm == calm \subseteq Call /\ \A c \in calm : Recovering(c)

BrowserInv ==
  /\ jar \in [access: BOOLEAN, refresh: Session \cup {None}]
  /\ session \in [Session -> SessionRow]
  /\ crossed \in BOOLEAN /\ reused \in BOOLEAN
  /\ Rows /\ Tabs /\ Waits
  /\ Issued /\ Underway
  /\ ~crossed => Uncrossed
  /\ ReuseHasCause
  /\ Calm

-----------------------------------------------------------------------------
(* What the helpers on calls return. *)

LEMMA IdleRow ==
  ASSUME NEW t \in Tab \cup {None}
  PROVE LET i == IdleCall(t) IN
        /\ i \in CallRow
        /\ i.tab = t /\ i.op = "click" /\ i.pc = "idle" /\ i.executed = 0
        /\ i.got = None /\ i.token = None /\ i.answer = "none"
        /\ ~i.passes
  BY DEF IdleCall, CallRow, Op

LEMMA OverRow ==
  ASSUME NEW h \in {"idle", "refused"}
  PROVE RowOK(Over(h)) /\ Over(h).pc = h /\ Over(h).got = None
<1>1. PICK i \in CallRow :
        /\ i = IdleCall(None) /\ i.executed = 0 /\ i.got = None
        /\ i.answer = "none"
  BY IdleRow
<1>2. LET x == [i EXCEPT !.pc = h] IN
        /\ x \in CallRow /\ x.pc = h /\ x.executed = 0 /\ x.got = None
        /\ x.answer = "none"
  BY <1>1 DEF CallRow
<1>. QED  BY <1>1, <1>2 DEF Over, RowOK

LEMMA SentRow ==
  ASSUME BrowserInv, NEW r \in CallRow, r.tab \in Tab, r.executed = 0, NEW k
  PROVE LET x == Sent(r, k) IN
        /\ RowOK(x) /\ x.tab = r.tab /\ x.op = r.op /\ x.pc = "sent"
        /\ x.got = r.got /\ x.passes = Passes(r.op, k)
<1>1. Shown(Path(r.op)) \in Session \cup {None}
  BY DEF Shown, BrowserInv
<1>2. Passes(r.op, k) \in BOOLEAN
  BY DEF Passes
<1>. DEFINE s == Shown(Path(r.op))
            b == Passes(r.op, k)
            x == [r EXCEPT !.pc = "sent", !.token = None, !.answer = "none",
                           !.shown = s, !.passes = b]
<1>. HIDE DEF s, b
<1>3. s \in Session \cup {None} /\ b \in BOOLEAN
  BY <1>1, <1>2 DEF s, b
<1>4. /\ x \in CallRow /\ x.tab = r.tab /\ x.op = r.op /\ x.pc = "sent"
      /\ x.got = r.got /\ x.passes = b /\ x.executed = r.executed
  <2>1. x = [r EXCEPT !.pc = "sent", !.token = None, !.answer = "none",
                      !.shown = s, !.passes = b]
    OBVIOUS
  <2>. HIDE DEF x
  <2>2. x \in CallRow
    BY <1>3, <2>1 DEF CallRow
  <2>. QED  BY <2>1, <2>2 DEF CallRow
<1>5. x = Sent(r, k)
  BY DEF Sent, s, b
<1>. HIDE DEF x
<1>. QED  BY <1>4, <1>5 DEF RowOK, b

LEMMA TurnedRow ==
  ASSUME NEW r, RowOK(r), r.pc = "sent"
  PROVE LET x == Turned(r) IN
        /\ RowOK(x) /\ x.tab = r.tab /\ x.op = r.op /\ x.pc = "answered"
        /\ x.answer = "401" /\ x.got = r.got
<1>. DEFINE x == [r EXCEPT !.pc = "answered", !.answer = "401", !.passes = FALSE]
<1>1. r \in CallRow /\ r.tab \in Tab /\ r.executed = 0
  BY DEF RowOK
<1>2. /\ x \in CallRow /\ x.tab = r.tab /\ x.op = r.op /\ x.pc = "answered"
      /\ x.answer = "401" /\ x.got = r.got /\ x.executed = r.executed
  <2>1. x = [r EXCEPT !.pc = "answered", !.answer = "401", !.passes = FALSE]
    OBVIOUS
  <2>. HIDE DEF x
  <2>2. x \in CallRow
    BY <1>1, <2>1 DEF CallRow
  <2>. QED  BY <1>1, <2>1, <2>2 DEF CallRow
<1>3. x = Turned(r)
  BY DEF Turned
<1>. HIDE DEF x
<1>. QED  BY <1>1, <1>2, <1>3 DEF RowOK

LEMMA ServedRow ==
  ASSUME NEW r, RowOK(r), r.pc = "sent", NEW n \in Session \cup {None}
  PROVE LET x == Served(r, n) IN
        /\ RowOK(x) /\ x.tab = r.tab /\ x.op = r.op /\ x.pc = "answered"
        /\ x.answer = "ok" /\ x.got = n
<1>. DEFINE e == r.executed + 1
            x == [r EXCEPT !.pc = "answered", !.answer = "ok", !.passes = FALSE,
                           !.shown = None, !.got = n, !.executed = e]
<1>1. r \in CallRow /\ r.tab \in Tab /\ r.executed = 0
  BY DEF RowOK
<1>2. e \in 0..2 /\ e = 1
  BY <1>1
<1>. HIDE DEF e
<1>3. /\ x \in CallRow /\ x.tab = r.tab /\ x.op = r.op /\ x.pc = "answered"
      /\ x.answer = "ok" /\ x.got = n /\ x.executed = e
  <2>1. x = [r EXCEPT !.pc = "answered", !.answer = "ok", !.passes = FALSE,
                      !.shown = None, !.got = n, !.executed = e]
    OBVIOUS
  <2>. HIDE DEF x
  <2>2. x \in CallRow
    BY <1>1, <1>2, <2>1 DEF CallRow
  <2>. QED  BY <1>1, <2>1, <2>2 DEF CallRow
<1>4. x = Served(r, n)
  BY DEF Served, e
<1>. HIDE DEF x
<1>. QED  BY <1>1, <1>2, <1>3, <1>4 DEF RowOK

LEMMA OutdatedRow ==
  ASSUME NEW r, RowOK(r)
  PROVE LET x == [r EXCEPT !.token = Outdated(@)] IN
        RowOK(x) /\ Alike(x, r)
<1>1. r \in CallRow
  BY DEF RowOK
<1>2. Outdated(r.token) \in Token \cup {None}
  BY <1>1 DEF CallRow, Outdated, Token
<1>. DEFINE k == Outdated(r.token)
            x == [r EXCEPT !.token = k]
<1>. HIDE DEF k
<1>3. k \in Token \cup {None}
  BY <1>2 DEF k
<1>4. /\ x \in CallRow /\ Alike(x, r) /\ x.executed = r.executed
  BY <1>1, <1>3 DEF CallRow, Alike
<1>5. RowOK(x)
  <2>. HIDE DEF x
  <2>. QED  BY <1>4 DEF RowOK, Alike
<1>. QED  BY <1>4, <1>5 DEF k

-----------------------------------------------------------------------------
(* Frames: what the invariant asks of a step that leaves the tokens of the  *)
(* refresh alone.                                                           *)

\* Which sessions exist and which were rotated.
SameFate(s) ==
  /\ State(s)' = "rotated" <=> State(s) = "rotated"
  /\ State(s)' = "none" <=> State(s) = "none"

LEMMA TokensKept ==
  ASSUME BrowserInv,
         session' \in [Session -> SessionRow],
         \A s \in Session : SameFate(s),
         jar'.refresh \in {jar.refresh, None},
         \A t \in Tab : tab'[t].refresh = tab[t].refresh,
         \A c \in Call : call'[c].got \in {call[c].got, None},
         UNCHANGED <<crossed, reused>>
  PROVE /\ Issued' /\ Underway'
        /\ ~crossed' => Uncrossed'
        /\ ReuseHasCause'
<1>1. /\ jar.refresh \in Session \cup {None}
      /\ \A t \in Tab : /\ tab[t].refresh.shown \in Session \cup {None}
                        /\ tab[t].refresh.got \in Session \cup {None}
      /\ \A c \in Call : call[c].got \in Session \cup {None}
  <2>1. \A t \in Tab : tab[t].refresh \in RefreshRow
    BY DEF BrowserInv, Tabs, RefreshOK
  <2>2. \A c \in Call : call[c] \in CallRow
    BY DEF BrowserInv, Rows
  <2>. QED  BY <2>1, <2>2 DEF BrowserInv, RefreshRow, CallRow
<1>2. Issued'
  BY <1>1 DEF BrowserInv, Issued, SameFate
<1>3. \A n \in Session : Unlanded(n) /\ n # None => Unlanded(n)'
  BY <1>1 DEF Unlanded, SameFate
<1>4. ASSUME NEW c \in Call, call'[c].got # None
      PROVE Unlanded(call[c].got)'
  <2>1. call'[c].got = call[c].got
    BY <1>4
  <2>2. PICK n \in Session : n = call[c].got
    BY <1>1, <1>4, <2>1
  <2>3. Unlanded(n)
    BY <1>4, <2>1, <2>2 DEF BrowserInv, Underway
  <2>4. Unlanded(n)'
    BY <1>3, <1>4, <2>1, <2>2, <2>3
  <2>. QED  BY <2>1, <2>2, <2>4 DEF Unlanded
<1>5. ASSUME NEW t \in Tab, tab'[t].refresh.got # None
      PROVE Unlanded(tab[t].refresh.got)'
  <2>1. tab'[t].refresh.got = tab[t].refresh.got
    BY <1>5
  <2>2. PICK n \in Session : n = tab[t].refresh.got
    BY <1>1, <1>5, <2>1
  <2>3. Unlanded(n)
    BY <1>5, <2>1, <2>2 DEF BrowserInv, Underway
  <2>4. Unlanded(n)'
    BY <1>3, <1>5, <2>1, <2>2, <2>3
  <2>. QED  BY <2>1, <2>2, <2>4 DEF Unlanded
<1>6. Underway'
  <2>1. /\ \A c, d \in Call :
             c # d /\ call[c].got # None => call[c].got # call[d].got
        /\ \A c \in Call, t \in Tab :
             call[c].got # None => call[c].got # tab[t].refresh.got
        /\ \A t, u \in Tab :
             t # u /\ tab[t].refresh.got # None =>
               tab[t].refresh.got # tab[u].refresh.got
    BY DEF BrowserInv, Underway
  <2>2. /\ \A c, d \in Call :
             c # d /\ call'[c].got # None => call'[c].got # call'[d].got
        /\ \A c \in Call, t \in Tab :
             call'[c].got # None => call'[c].got # tab'[t].refresh.got
        /\ \A t, u \in Tab :
             t # u /\ tab'[t].refresh.got # None =>
               tab'[t].refresh.got # tab'[u].refresh.got
    BY <2>1
  <2>. QED  BY <1>4, <1>5, <2>2 DEF Underway
<1>7. ASSUME ~crossed
      PROVE Uncrossed'
  BY <1>1, <1>7 DEF BrowserInv, Uncrossed, SameFate
<1>8. ReuseHasCause'
  BY DEF BrowserInv, ReuseHasCause
<1>. QED  BY <1>2, <1>6, <1>7, <1>8

\* A recovery is as far as it was if nothing it rests on has changed.
LEMMA Undisturbed ==
  ASSUME BrowserInv, NEW d \in calm,
         call'[d] = call[d],
         jar.access => jar'.access,
         \A t \in Tab : tab'[t].refresh = tab[t].refresh,
         \A s \in Session : State(s) = "live" => State(s)' = "live"
  PROVE Recovering(d)'
<1>1. d \in Call /\ Recovering(d) /\ RowOK(call[d])
  BY DEF BrowserInv, Calm, Rows
<1>2. CASE call[d].pc = "refreshing"
  <2>1. PICK t \in Tab : t = call[d].tab
    BY <1>1, <1>2 DEF RowOK
  <2>2. tab[t].refresh \in RefreshRow
    BY DEF BrowserInv, Tabs, RefreshOK
  <2>3. tab[t].refresh.shown \in Session \cup {None}
    BY <2>2 DEF RefreshRow
  <2>. QED  BY <1>1, <1>2, <2>1, <2>3 DEF Recovering
<1>3. CASE call[d].pc # "refreshing"
  BY <1>1, <1>3 DEF Recovering
<1>. QED  BY <1>2, <1>3

\* A step of the calls in A, or of none, that leaves the refreshes alone and
\* starts no wait.
LEMMA PlainStep ==
  ASSUME BrowserInv, NEW A,
         jar' \in [access: BOOLEAN, refresh: Session \cup {None}],
         jar'.refresh \in {jar.refresh, None},
         session' \in [Session -> SessionRow],
         \A s \in Session : SameFate(s),
         tab' \in [Tab -> TabRow],
         \A t \in Tab : tab'[t].refresh = tab[t].refresh,
         call' \in [Call -> CallRow],
         \A c \in Call : RowOK(call'[c]),
         \A c \in Call : c \in A =>
           /\ call'[c].pc # "refreshing"
           /\ call'[c].got \in {call[c].got, None}
           /\ c \in calm' => Recovering(c)',
         \A c \in Call : c \notin A => Alike(call'[c], call[c]),
         calm' \subseteq calm,
         \/ calm' \subseteq A
         \/ /\ \A c \in Call : c \notin A => call'[c] = call[c]
            /\ jar.access => jar'.access
            /\ \A s \in Session : State(s) = "live" => State(s)' = "live",
         UNCHANGED <<crossed, reused>>
  PROVE BrowserInv'
<1>1. Rows' /\ Tabs'
  BY DEF BrowserInv, Rows, Tabs
<1>2. Waits'
  <2>. SUFFICES ASSUME NEW c \in Call, call'[c].pc = "refreshing"
                PROVE tab'[call'[c].tab].refresh.stage # "none"
    BY DEF Waits
  <2>1. call[c].pc = "refreshing" /\ call'[c].tab = call[c].tab
    BY DEF Alike
  <2>2. call[c].tab \in Tab
    BY <2>1 DEF BrowserInv, Rows, RowOK
  <2>. QED  BY <2>1, <2>2 DEF BrowserInv, Waits
<1>3. Issued' /\ Underway' /\ (~crossed' => Uncrossed') /\ ReuseHasCause'
  <2>1. \A c \in Call : call'[c].got \in {call[c].got, None}
    BY DEF Alike
  <2>. QED  BY <2>1, TokensKept
<1>4. Calm'
  <2>. SUFFICES ASSUME NEW c \in calm'
                PROVE c \in Call /\ Recovering(c)'
    BY DEF Calm
  <2>1. c \in calm /\ c \in Call
    BY DEF BrowserInv, Calm
  <2>2. CASE c \in A
    BY <2>1, <2>2
  <2>3. CASE c \notin A
    BY <2>1, <2>3, Undisturbed
  <2>. QED  BY <2>1, <2>2, <2>3
<1>. QED  BY <1>1, <1>2, <1>3, <1>4 DEF BrowserInv

-----------------------------------------------------------------------------
(* The forms the steps have. *)

LEMMA CallUpdated ==
  ASSUME BrowserInv, NEW c \in Call, NEW x, RowOK(x), Update(c, x)
  PROVE /\ call' \in [Call -> CallRow] /\ call'[c] = x
        /\ \A d \in Call : d # c => call'[d] = call[d]
        /\ \A d \in Call : RowOK(call'[d])
  BY DEF Update, BrowserInv, Rows, RowOK

LEMMA CallsTurnOld ==
  ASSUME BrowserInv
  PROVE /\ CallsOutdated \in [Call -> CallRow]
        /\ \A d \in Call : /\ RowOK(CallsOutdated[d])
                           /\ Alike(CallsOutdated[d], call[d])
<1>1. ASSUME NEW d \in Call
      PROVE RowOK(CallsOutdated[d]) /\ Alike(CallsOutdated[d], call[d])
  <2>1. RowOK(call[d])
    BY DEF BrowserInv, Rows
  <2>2. CallsOutdated[d] = [call[d] EXCEPT !.token = Outdated(@)]
    BY DEF CallsOutdated
  <2>. QED  BY <2>1, <2>2, OutdatedRow
<1>2. CallsOutdated = [d \in Call |-> CallsOutdated[d]]
  BY DEF CallsOutdated
<1>3. \A d \in Call : CallsOutdated[d] \in CallRow
  BY <1>1 DEF RowOK
<1>. QED  BY <1>1, <1>2, <1>3

LEMMA CallsUpdated ==
  ASSUME BrowserInv, NEW c \in Call, NEW x, RowOK(x),
         call' = [CallsOutdated EXCEPT ![c] = x]
  PROVE /\ call' \in [Call -> CallRow] /\ call'[c] = x
        /\ \A d \in Call : d # c => Alike(call'[d], call[d])
        /\ \A d \in Call : RowOK(call'[d])
<1>1. x \in CallRow
  BY DEF RowOK
<1>. HIDE DEF CallsOutdated
<1>. QED  BY <1>1, CallsTurnOld

\* What may happen to the token and the user of a tab.
LEMMA TabRewritten ==
  ASSUME NEW r \in TabRow, NEW k \in Token \cup {None}, NEW b \in BOOLEAN
  PROVE /\ [r EXCEPT !.token = k] \in TabRow
        /\ [r EXCEPT !.token = k].refresh = r.refresh
        /\ [r EXCEPT !.user = b] \in TabRow
        /\ [r EXCEPT !.user = b].refresh = r.refresh
        /\ [[r EXCEPT !.token = k] EXCEPT !.user = b] \in TabRow
        /\ [[r EXCEPT !.token = k] EXCEPT !.user = b].refresh = r.refresh
  BY DEF TabRow

\* The refreshes of f are those of the tabs.
SameRefreshes(f) ==
  f \in [Tab -> TabRow] /\ \A t \in Tab : f[t].refresh = tab[t].refresh

LEMMA TabsTurnOld ==
  ASSUME BrowserInv
  PROVE SameRefreshes(TabsOutdated) /\ SameRefreshes(tab)
<1>1. \A t \in Tab : tab[t] \in TabRow
  BY DEF BrowserInv, Tabs
<1>2. ASSUME NEW t \in Tab
      PROVE TabsOutdated[t] \in TabRow /\ TabsOutdated[t].refresh = tab[t].refresh
  <2>1. Outdated(tab[t].token) \in Token \cup {None}
    BY <1>1 DEF TabRow, Outdated, Token
  <2>. DEFINE k == Outdated(tab[t].token)
              y == [tab[t] EXCEPT !.token = k]
  <2>2. TabsOutdated[t] = y
    BY DEF TabsOutdated
  <2>. HIDE DEF k
  <2>3. k \in Token \cup {None}
    BY <2>1 DEF k
  <2>4. y \in TabRow /\ y.refresh = tab[t].refresh
    BY <1>1, <2>3, TabRewritten
  <2>. HIDE DEF y
  <2>. QED  BY <2>2, <2>4
<1>3. TabsOutdated = [t \in Tab |-> TabsOutdated[t]]
  BY DEF TabsOutdated
<1>. QED  BY <1>2, <1>3 DEF SameRefreshes, BrowserInv, Tabs

LEMMA TabsSigned ==
  ASSUME NEW f, SameRefreshes(f), NEW t \in Tab, NEW k \in Token \cup {None},
         NEW b \in BOOLEAN
  PROVE /\ SameRefreshes([f EXCEPT ![t].token = k])
        /\ SameRefreshes([f EXCEPT ![t].user = b])
        /\ SameRefreshes(SignedOut(f, t))
<1>1. f[t] \in TabRow /\ f[t].refresh = tab[t].refresh
  BY DEF SameRefreshes
<1>2. SameRefreshes([f EXCEPT ![t].token = k])
  <2>1. PICK y : y = [f[t] EXCEPT !.token = k]
    OBVIOUS
  <2>2. y \in TabRow /\ y.refresh = f[t].refresh
    BY <1>1, <2>1, TabRewritten
  <2>3. [f EXCEPT ![t].token = k] = [f EXCEPT ![t] = y]
    BY <2>1
  <2>. QED  BY <1>1, <2>2, <2>3 DEF SameRefreshes
<1>3. SameRefreshes([f EXCEPT ![t].user = b])
  <2>1. PICK y : y = [f[t] EXCEPT !.user = b]
    OBVIOUS
  <2>2. y \in TabRow /\ y.refresh = f[t].refresh
    BY <1>1, <2>1, TabRewritten
  <2>3. [f EXCEPT ![t].user = b] = [f EXCEPT ![t] = y]
    BY <2>1
  <2>. QED  BY <1>1, <2>2, <2>3 DEF SameRefreshes
<1>4. SameRefreshes(SignedOut(f, t))
  <2>. DEFINE y == [[f[t] EXCEPT !.token = None] EXCEPT !.user = FALSE]
  <2>1. y \in TabRow /\ y.refresh = f[t].refresh
    BY <1>1, TabRewritten
  <2>2. SignedOut(f, t) = [f EXCEPT ![t] = y]
    BY <1>1 DEF SignedOut, SameRefreshes, TabRow
  <2>. HIDE DEF y
  <2>. QED  BY <1>1, <2>1, <2>2 DEF SameRefreshes
<1>. QED  BY <1>2, <1>3, <1>4

\* Ending sessions neither rotates nor makes any.
LEMMA RevokedRow ==
  ASSUME BrowserInv, NEW s \in Session
  PROVE /\ Revoked(s) \in SessionRow
        /\ Revoked(s).state = "rotated" <=> State(s) = "rotated"
        /\ Revoked(s).state = "none" <=> State(s) = "none"
        /\ Revoked(s).family = session[s].family
<1>1. session[s] \in SessionRow
  BY DEF BrowserInv
<1>2. PICK z \in SessionRow : z = session[s]
  BY <1>1
<1>3. CASE z.state = "live"
  BY <1>2, <1>3 DEF Revoked, State, SessionRow
<1>4. CASE z.state # "live"
  BY <1>2, <1>4 DEF Revoked, State, SessionRow
<1>. QED  BY <1>3, <1>4

-----------------------------------------------------------------------------
(* The steps that leave the refreshes alone. *)

\* Nothing but a call, and what its tab remembers.
LEMMA OneCall ==
  ASSUME BrowserInv, NEW c \in Call, NEW x, RowOK(x), Update(c, x),
         x.pc # "refreshing", x.got \in {call[c].got, None},
         c \in calm' => Recovering(c)', calm' \subseteq calm,
         SameRefreshes(tab'),
         UNCHANGED <<jar, session, crossed, reused>>
  PROVE BrowserInv'
<1>1. /\ call' \in [Call -> CallRow] /\ call'[c] = x
      /\ \A d \in Call : d # c => call'[d] = call[d]
      /\ \A d \in Call : RowOK(call'[d])
  BY CallUpdated
<1>2. \A s \in Session : SameFate(s) /\ State(s)' = State(s)
  BY DEF SameFate, State
<1>3. /\ tab' \in [Tab -> TabRow]
      /\ \A t \in Tab : tab'[t].refresh = tab[t].refresh
  BY DEF SameRefreshes
<1>4. /\ jar' \in [access: BOOLEAN, refresh: Session \cup {None}]
      /\ session' \in [Session -> SessionRow]
  BY DEF BrowserInv
<1>5. \A d \in Call : d \in {c} =>
        /\ call'[d].pc # "refreshing"
        /\ call'[d].got \in {call[d].got, None}
        /\ d \in calm' => Recovering(d)'
  BY <1>1
<1>6. \A d \in Call : d \notin {c} => Alike(call'[d], call[d])
  BY <1>1 DEF Alike
<1>. QED  BY <1>1, <1>2, <1>3, <1>4, <1>5, <1>6, PlainStep

LEMMA Started ==
  ASSUME NEW t \in Tab, NEW op \in Op
  PROVE LET r == [IdleCall(t) EXCEPT !.op = op] IN
        /\ r \in CallRow /\ r.tab = t /\ r.op = op /\ r.executed = 0
        /\ r.got = None
        /\ RowOK([r EXCEPT !.pc = "asking"])
        /\ [r EXCEPT !.pc = "asking"].pc = "asking"
        /\ [r EXCEPT !.pc = "asking"].got = None
<1>. DEFINE r == [IdleCall(t) EXCEPT !.op = op]
            x == [r EXCEPT !.pc = "asking"]
<1>1. /\ r \in CallRow /\ r.tab = t /\ r.op = op /\ r.executed = 0
      /\ r.got = None
  BY IdleRow DEF CallRow
<1>. HIDE DEF r
<1>2. x \in CallRow /\ x.tab = t /\ x.executed = 0 /\ x.got = None /\ x.pc = "asking"
  BY <1>1 DEF CallRow
<1>. HIDE DEF x
<1>3. RowOK(x)
  BY <1>2 DEF RowOK
<1>. QED  BY <1>1, <1>2, <1>3 DEF r, x

LEMMA BeginKeeps ==
  ASSUME BrowserInv, NEW c \in Call, NEW t \in Tab, NEW op \in Op,
         Begin(c, t, op)
  PROVE BrowserInv'
<1>. DEFINE r == [IdleCall(t) EXCEPT !.op = op]
            x == IF ~NeedsToken(op) \/ tab[t].token # None
                   THEN Sent(r, tab[t].token) ELSE [r EXCEPT !.pc = "asking"]
<1>1. Update(c, x) /\ calm' = calm \cap (Call \ {c})
      /\ UNCHANGED <<jar, session, tab, crossed, reused>>
  BY DEF Begin, Disturbs
<1>2. /\ r \in CallRow /\ r.tab = t /\ r.executed = 0 /\ r.got = None
      /\ RowOK([r EXCEPT !.pc = "asking"])
      /\ [r EXCEPT !.pc = "asking"].pc = "asking"
      /\ [r EXCEPT !.pc = "asking"].got = None
  BY Started
<1>. HIDE DEF r
<1>3. RowOK(Sent(r, tab[t].token)) /\ Sent(r, tab[t].token).pc = "sent"
      /\ Sent(r, tab[t].token).got = None
  BY <1>2, SentRow
<1>4. RowOK(x) /\ x.pc # "refreshing" /\ x.got = None
  BY <1>2, <1>3
<1>5. SameRefreshes(tab')
  BY <1>1, TabsTurnOld
<1>. HIDE DEF x
<1>. QED  BY <1>1, <1>4, <1>5, OneCall

LEMMA TokenLandsKeeps ==
  ASSUME BrowserInv, NEW c \in Call, TokenLands(c)
  PROVE BrowserInv'
<1>1. PICK y \in CallRow : y = CallsOutdated[c]
  BY CallsTurnOld
<1>2. RowOK(y) /\ Alike(y, call[c])
  BY <1>1, CallsTurnOld
<1>3. /\ call[c].pc = "asking" /\ RowOK(call[c])
      /\ tab' = TabsOutdated /\ calm' = calm \cap {c}
      /\ UNCHANGED <<jar, session, crossed, reused>>
  BY DEF TokenLands, Disturbs, BrowserInv, Rows
<1>4. PICK x : x = [[y EXCEPT !.pc = "parsing"] EXCEPT !.token = "same"]
  OBVIOUS
<1>5. /\ x \in CallRow /\ x.pc = "parsing" /\ x.token = "same"
      /\ x.tab = y.tab /\ x.op = y.op /\ x.got = y.got
      /\ x.executed = y.executed
  BY <1>4 DEF CallRow, Token
<1>6. y.executed = 0 /\ y.tab \in Tab /\ y.pc = "asking" /\ y.op = call[c].op
      /\ y.got = call[c].got
  BY <1>2, <1>3 DEF RowOK, Alike
<1>7. RowOK(x)
  BY <1>5, <1>6 DEF RowOK
<1>8. call' = [CallsOutdated EXCEPT ![c] = x]
  <2>1. CallsOutdated \in [Call -> CallRow]
    BY CallsTurnOld
  <2>2. call' = [CallsOutdated EXCEPT ![c].pc = "parsing", ![c].token = "same"]
    BY DEF TokenLands
  <2>. HIDE DEF CallsOutdated
  <2>. QED  BY <1>1, <1>4, <2>1, <2>2
<1>9. /\ call' \in [Call -> CallRow] /\ call'[c] = x
      /\ \A d \in Call : d # c => Alike(call'[d], call[d])
      /\ \A d \in Call : RowOK(call'[d])
  BY <1>7, <1>8, CallsUpdated
<1>10. \A s \in Session : SameFate(s)
  BY <1>3 DEF SameFate, State
<1>11. /\ tab' \in [Tab -> TabRow]
       /\ \A t \in Tab : tab'[t].refresh = tab[t].refresh
  BY <1>3, TabsTurnOld DEF SameRefreshes
<1>12. ASSUME c \in calm'
       PROVE Recovering(c)'
  <2>1. Recovering(c)
    BY <1>3, <1>12 DEF BrowserInv, Calm
  <2>2. jar.access /\ call[c].op \in {"click", "password"}
    BY <1>3, <2>1 DEF Recovering
  <2>. QED  BY <1>3, <1>5, <1>6, <1>9, <2>2 DEF Recovering
<1>13. /\ jar' \in [access: BOOLEAN, refresh: Session \cup {None}]
       /\ session' \in [Session -> SessionRow]
  BY <1>3 DEF BrowserInv
<1>14. \A d \in Call : d \in {c} =>
        /\ call'[d].pc # "refreshing"
        /\ call'[d].got \in {call[d].got, None}
        /\ d \in calm' => Recovering(d)'
  BY <1>5, <1>6, <1>9, <1>12
<1>15. \A d \in Call : d \notin {c} => Alike(call'[d], call[d])
  BY <1>9
<1>. QED  BY <1>3, <1>9, <1>10, <1>11, <1>13, <1>14, <1>15, PlainStep

LEMMA TokenParsedKeeps ==
  ASSUME BrowserInv, NEW c \in Call, TokenParsed(c)
  PROVE BrowserInv'
<1>1. /\ call[c].pc = "parsing" /\ RowOK(call[c])
      /\ tab' = [tab EXCEPT ![call[c].tab].token = call[c].token]
      /\ Update(c, Sent(call[c], call[c].token))
      /\ UNCHANGED <<jar, session, calm, crossed, reused>>
  BY DEF TokenParsed, BrowserInv, Rows
<1>2. /\ call[c] \in CallRow /\ call[c].tab \in Tab /\ call[c].executed = 0
      /\ call[c].token \in Token \cup {None}
  BY <1>1 DEF RowOK, CallRow
<1>3. PICK x : x = Sent(call[c], call[c].token)
  OBVIOUS
<1>4. /\ RowOK(x) /\ x.tab = call[c].tab /\ x.op = call[c].op /\ x.pc = "sent"
      /\ x.got = call[c].got /\ x.passes = Passes(call[c].op, call[c].token)
  BY <1>2, <1>3, SentRow
<1>5. SameRefreshes(tab')
  BY <1>1, <1>2, TabsTurnOld, TabsSigned
<1>6. ASSUME c \in calm'
      PROVE Recovering(c)'
  <2>1. Recovering(c)
    BY <1>1, <1>6 DEF BrowserInv, Calm
  <2>2. /\ jar.access /\ call[c].op \in {"click", "password"}
        /\ call[c].token = "same"
    BY <1>1, <2>1 DEF Recovering
  <2>3. Passes(call[c].op, call[c].token)
    BY <2>2 DEF Passes
  <2>4. call'[c] = x
    BY <1>1, <1>3, <1>4, CallUpdated
  <2>. QED  BY <1>4, <2>2, <2>3, <2>4 DEF Recovering
<1>. QED  BY <1>1, <1>3, <1>4, <1>5, <1>6, OneCall

LEMMA ServerRefusesKeeps ==
  ASSUME BrowserInv, NEW c \in Call,
         ServerRefuses(c) \/ ServerRejects(c)
  PROVE BrowserInv'
<1>1. /\ call[c].pc = "sent" /\ RowOK(call[c])
      /\ Update(c, Turned(call[c]))
      /\ UNCHANGED <<jar, session, tab, crossed, reused>>
      /\ \/ calm' = calm /\ ~call[c].passes
         \/ calm' = calm \cap (Call \ {c})
  BY DEF ServerRefuses, ServerRejects, Disturbs, BrowserInv, Rows
<1>2. PICK x : x = Turned(call[c])
  OBVIOUS
<1>3. RowOK(x) /\ x.pc = "answered" /\ x.got = call[c].got
  BY <1>1, <1>2, TurnedRow
<1>4. c \notin calm'
  BY <1>1 DEF BrowserInv, Calm, Recovering
<1>5. SameRefreshes(tab')
  BY <1>1, TabsTurnOld
<1>. QED  BY <1>1, <1>2, <1>3, <1>4, <1>5, OneCall

LEMMA ServerClickKeeps ==
  ASSUME BrowserInv, NEW c \in Call, ServerClick(c)
  PROVE BrowserInv'
<1>1. /\ call[c].pc = "sent" /\ RowOK(call[c])
      /\ Update(c, Served(call[c], None))
      /\ UNCHANGED <<jar, session, tab, calm, crossed, reused>>
  BY DEF ServerClick, BrowserInv, Rows
<1>2. PICK x : x = Served(call[c], None)
  OBVIOUS
<1>3. /\ RowOK(x) /\ x.pc = "answered" /\ x.got = None /\ x.answer = "ok"
      /\ x.op = call[c].op
  BY <1>1, <1>2, ServedRow
<1>4. ASSUME c \in calm'
      PROVE Recovering(c)'
  <2>1. Recovering(c)
    BY <1>1, <1>4 DEF BrowserInv, Calm
  <2>2. call'[c] = x
    BY <1>1, <1>2, <1>3, CallUpdated
  <2>. QED  BY <1>3, <2>1, <2>2 DEF Recovering
<1>5. SameRefreshes(tab')
  BY <1>1, TabsTurnOld
<1>. QED  BY <1>1, <1>2, <1>3, <1>4, <1>5, OneCall

\* A call that is over.
LEMMA CallEnds ==
  ASSUME BrowserInv, NEW c \in Call, NEW h \in {"idle", "refused"}, Ends(c, h),
         c \notin calm', calm' \subseteq calm, SameRefreshes(tab'),
         UNCHANGED <<jar, session, crossed, reused>>
  PROVE BrowserInv'
<1>1. PICK x : x = Over(h)
  OBVIOUS
<1>2. RowOK(x) /\ x.pc = h /\ x.got = None
  BY <1>1, OverRow
<1>3. Update(c, x)
  BY <1>1 DEF Ends
<1>. QED  BY <1>2, <1>3, OneCall

LEMMA AnswerDoneKeeps ==
  ASSUME BrowserInv, NEW c \in Call, AnswerDone(c)
  PROVE BrowserInv'
  BY CallEnds, TabsTurnOld DEF AnswerDone, Disturbs

LEMMA AnswerMeKeeps ==
  ASSUME BrowserInv, NEW c \in Call, AnswerMe(c)
  PROVE BrowserInv'
<1>1. call[c].tab \in Tab
  BY DEF AnswerMe, BrowserInv, Rows, RowOK
<1>2. PICK b \in BOOLEAN : b = (call[c].answer = "ok")
  OBVIOUS
<1>3. SameRefreshes(tab')
  BY <1>1, <1>2, TabsTurnOld, TabsSigned DEF AnswerMe
<1>4. c \notin calm'
  BY DEF AnswerMe, BrowserInv, Calm, Recovering
<1>5. PICK h \in {"idle", "refused"} :
        h = IF call[c].answer = "ok" THEN "idle" ELSE "refused"
  OBVIOUS
<1>. QED  BY <1>3, <1>4, <1>5, CallEnds DEF AnswerMe

LEMMA AnswerRefusedKeeps ==
  ASSUME BrowserInv, NEW c \in Call, AnswerRefused(c)
  PROVE BrowserInv'
<1>1. c \notin calm'
  BY DEF AnswerRefused, BrowserInv, Calm, Recovering
<1>. QED  BY <1>1, CallEnds, TabsTurnOld DEF AnswerRefused

LEMMA CallLostKeeps ==
  ASSUME BrowserInv, NEW c \in Call, CallLost(c)
  PROVE BrowserInv'
<1>1. call[c].tab \in Tab
  BY DEF CallLost, BrowserInv, Rows, RowOK
<1>2. SameRefreshes(tab')
  BY <1>1, TabsTurnOld, TabsSigned DEF CallLost
<1>. QED  BY <1>2, CallEnds DEF CallLost, Disturbs

\* A step after which no recovery is followed any more.
LEMMA Unsettled ==
  ASSUME BrowserInv, calm' = {},
         jar' \in [access: BOOLEAN, refresh: Session \cup {None}],
         jar'.refresh \in {jar.refresh, None},
         session' \in [Session -> SessionRow],
         \A s \in Session : SameFate(s),
         SameRefreshes(tab'),
         call' \in [Call -> CallRow],
         \A d \in Call : RowOK(call'[d]),
         \A d \in Call :
           \/ Alike(call'[d], call[d])
           \/ /\ call'[d].pc # "refreshing"
              /\ call'[d].got \in {call[d].got, None},
         UNCHANGED <<crossed, reused>>
  PROVE BrowserInv'
<1>. DEFINE A == {d \in Call : ~Alike(call'[d], call[d])}
<1>1. PICK B : B = A
  OBVIOUS
<1>2. \A d \in Call : d \in B =>
        /\ call'[d].pc # "refreshing"
        /\ call'[d].got \in {call[d].got, None}
        /\ d \in calm' => Recovering(d)'
  BY <1>1
<1>3. \A d \in Call : d \notin B => Alike(call'[d], call[d])
  BY <1>1
<1>4. /\ tab' \in [Tab -> TabRow]
      /\ \A t \in Tab : tab'[t].refresh = tab[t].refresh
  BY DEF SameRefreshes
<1>5. calm' \subseteq B /\ calm' \subseteq calm
  OBVIOUS
<1>. HIDE DEF A
<1>. QED  BY <1>2, <1>3, <1>4, <1>5, PlainStep

LEMMA NothingEnds ==
  ASSUME BrowserInv, UNCHANGED session
  PROVE session' \in [Session -> SessionRow] /\ \A s \in Session : SameFate(s)
  BY DEF BrowserInv, SameFate, State

LEMMA SomeEnd ==
  ASSUME BrowserInv, NEW E \in SUBSET Session,
         session' = [s \in Session |-> IF s \in E THEN Revoked(s) ELSE session[s]]
  PROVE session' \in [Session -> SessionRow] /\ \A s \in Session : SameFate(s)
<1>1. ASSUME NEW s \in Session
      PROVE session'[s] \in SessionRow /\ SameFate(s)
  BY <1>1, RevokedRow DEF BrowserInv, SameFate, State
<1>. QED  BY <1>1

LEMMA OneEnds ==
  ASSUME BrowserInv, NEW s \in Session,
         session' = [session EXCEPT ![s] = Revoked(s)]
  PROVE session' \in [Session -> SessionRow] /\ \A x \in Session : SameFate(x)
<1>1. session' = [x \in Session |-> IF x \in {s} THEN Revoked(x) ELSE session[x]]
  BY DEF BrowserInv
<1>2. {s} \in SUBSET Session
  OBVIOUS
<1>. QED  BY <1>1, <1>2, SomeEnd

LEMMA ServerEndsKeeps ==
  ASSUME BrowserInv, NEW c \in Call, ServerLogout(c) \/ ServerPassword(c)
  PROVE BrowserInv'
<1>1. /\ call[c].pc = "sent" /\ RowOK(call[c])
      /\ Update(c, Served(call[c], None)) /\ calm' = {}
      /\ UNCHANGED <<jar, tab, crossed, reused>>
  BY DEF ServerLogout, ServerPassword, Disturbs, BrowserInv, Rows
<1>2. PICK x : x = Served(call[c], None)
  OBVIOUS
<1>3. RowOK(x) /\ x.pc = "answered" /\ x.got = None
  BY <1>1, <1>2, ServedRow
<1>4. /\ call' \in [Call -> CallRow] /\ call'[c] = x
      /\ \A d \in Call : d # c => call'[d] = call[d]
      /\ \A d \in Call : RowOK(call'[d])
  BY <1>1, <1>2, <1>3, CallUpdated
<1>5. session' \in [Session -> SessionRow] /\ \A s \in Session : SameFate(s)
  <2>1. CASE ServerLogout(c)
    <3>1. call[c].shown \in Session \cup {None}
      BY <1>1 DEF RowOK, CallRow
    <3>2. CASE call[c].shown = None
      BY <2>1, <3>2, NothingEnds DEF ServerLogout
    <3>3. CASE call[c].shown # None
      BY <2>1, <3>1, <3>3, OneEnds DEF ServerLogout
    <3>. QED  BY <3>2, <3>3
  <2>2. CASE ServerPassword(c)
    <3>1. session' = [s \in Session |->
                        IF s \in Session THEN Revoked(s) ELSE session[s]]
      BY <2>2 DEF ServerPassword
    <3>. QED  BY <3>1, SomeEnd
  <2>. QED  BY <2>1, <2>2
<1>6. \A d \in Call :
           \/ Alike(call'[d], call[d])
           \/ /\ call'[d].pc # "refreshing"
              /\ call'[d].got \in {call[d].got, None}
  BY <1>3, <1>4 DEF Alike
<1>7. /\ jar' \in [access: BOOLEAN, refresh: Session \cup {None}]
      /\ jar'.refresh = jar.refresh /\ SameRefreshes(tab')
  BY <1>1, TabsTurnOld DEF BrowserInv
<1>. QED  BY <1>1, <1>4, <1>5, <1>6, <1>7, Unsettled

\* The calls after a step that rewrites that of c and turns the tokens old.
LEMMA OthersTurnOld ==
  ASSUME BrowserInv, NEW c \in Call, NEW x, RowOK(x),
         call' = [CallsOutdated EXCEPT ![c] = x],
         x.pc # "refreshing", x.got \in {call[c].got, None}
  PROVE /\ call' \in [Call -> CallRow]
        /\ \A d \in Call : RowOK(call'[d])
        /\ \A d \in Call :
           \/ Alike(call'[d], call[d])
           \/ /\ call'[d].pc # "refreshing"
              /\ call'[d].got \in {call[d].got, None}
<1>1. /\ call' \in [Call -> CallRow] /\ call'[c] = x
      /\ \A d \in Call : d # c => Alike(call'[d], call[d])
      /\ \A d \in Call : RowOK(call'[d])
  BY CallsUpdated
<1>2. call'[c].pc # "refreshing" /\ call'[c].got \in {call[c].got, None}
  BY <1>1
<1>. QED  BY <1>1, <1>2

LEMMA Following ==
  ASSUME NEW t \in Tab, NEW op \in Op
  PROVE LET x == [IdleCall(t) EXCEPT !.op = op, !.pc = "sent", !.passes = TRUE]
        IN /\ RowOK(x) /\ x.pc = "sent" /\ x.got = None
<1>1. PICK i \in CallRow :
        /\ i = IdleCall(t) /\ i.tab = t /\ i.executed = 0 /\ i.got = None
  BY IdleRow
<1>. DEFINE y == [i EXCEPT !.op = op]
            x == [i EXCEPT !.op = op, !.pc = "sent", !.passes = TRUE]
<1>2. y \in CallRow /\ y.tab = t /\ y.executed = 0 /\ y.got = None
  BY <1>1 DEF CallRow
<1>3. x = [y EXCEPT !.pc = "sent", !.passes = TRUE]
  OBVIOUS
<1>. HIDE DEF y
<1>4. x \in CallRow /\ x.tab = t /\ x.executed = 0 /\ x.got = None /\ x.pc = "sent"
  <2>. HIDE DEF x
  <2>1. x \in CallRow
    BY <1>2, <1>3 DEF CallRow
  <2>. QED  BY <1>2, <1>3, <2>1 DEF CallRow
<1>5. x = [IdleCall(t) EXCEPT !.op = op, !.pc = "sent", !.passes = TRUE]
  BY <1>1
<1>. HIDE DEF x
<1>. QED  BY <1>4, <1>5 DEF RowOK

LEMMA JarEmptied ==
  /\ EmptyJar \in [access: BOOLEAN, refresh: Session \cup {None}]
  /\ EmptyJar.refresh = None
  BY DEF EmptyJar

LEMMA AnswerLogoutKeeps ==
  ASSUME BrowserInv, NEW c \in Call, AnswerLogout(c)
  PROVE BrowserInv'
<1>1. /\ call[c].tab \in Tab /\ calm' = {} /\ jar' = EmptyJar
      /\ tab' = SignedOut(TabsOutdated, call[c].tab)
      /\ UNCHANGED <<session, crossed, reused>>
  BY DEF AnswerLogout, Answered, Disturbs, BrowserInv, Rows, RowOK
<1>2. PICK x : x = Over("idle")
  OBVIOUS
<1>3. RowOK(x) /\ x.pc = "idle" /\ x.got = None
  BY <1>2, OverRow
<1>4. call' = [CallsOutdated EXCEPT ![c] = x]
  BY <1>2 DEF AnswerLogout
<1>5. SameRefreshes(tab')
  BY <1>1, TabsTurnOld, TabsSigned
<1>6. session' \in [Session -> SessionRow] /\ \A s \in Session : SameFate(s)
  BY <1>1, NothingEnds
<1>7. /\ jar' \in [access: BOOLEAN, refresh: Session \cup {None}]
      /\ jar'.refresh = None
  BY <1>1, JarEmptied
<1>. QED  BY <1>1, <1>3, <1>4, <1>5, <1>6, <1>7, OthersTurnOld, Unsettled

LEMMA AnswerPasswordKeeps ==
  ASSUME BrowserInv, NEW c \in Call, AnswerPassword(c)
  PROVE BrowserInv'
<1>1. /\ call[c].tab \in Tab /\ calm' = {} /\ jar' = EmptyJar
      /\ tab' = TabsOutdated
      /\ UNCHANGED <<session, crossed, reused>>
  BY DEF AnswerPassword, Answered, Disturbs, BrowserInv, Rows, RowOK
<1>2. PICK x : x = [IdleCall(call[c].tab) EXCEPT
                      !.op = "logout", !.pc = "sent", !.passes = TRUE]
  OBVIOUS
<1>3. RowOK(x) /\ x.pc = "sent" /\ x.got = None
  BY <1>1, <1>2, Following DEF Op
<1>4. call' = [CallsOutdated EXCEPT ![c] = x]
  BY <1>2 DEF AnswerPassword
<1>5. SameRefreshes(tab')
  BY <1>1, TabsTurnOld
<1>6. session' \in [Session -> SessionRow] /\ \A s \in Session : SameFate(s)
  BY <1>1, NothingEnds
<1>7. /\ jar' \in [access: BOOLEAN, refresh: Session \cup {None}]
      /\ jar'.refresh = None
  BY <1>1, JarEmptied
<1>. QED  BY <1>1, <1>3, <1>4, <1>5, <1>6, <1>7, OthersTurnOld, Unsettled

LEMMA ClockKeeps ==
  ASSUME BrowserInv,
         (\E s \in Session : RevokeSession(s)) \/ AccessExpires \/ TokenExpires
  PROVE BrowserInv'
<1>1. calm' = {} /\ UNCHANGED <<crossed, reused>>
  BY DEF RevokeSession, AccessExpires, TokenExpires, Disturbs
<1>2. /\ jar' \in [access: BOOLEAN, refresh: Session \cup {None}]
      /\ jar'.refresh = jar.refresh
  <2>1. PICK j \in [access: BOOLEAN, refresh: Session \cup {None}] : j = jar
    BY DEF BrowserInv
  <2>2. jar' = j \/ jar' = [j EXCEPT !.access = FALSE]
    BY <2>1 DEF RevokeSession, AccessExpires, TokenExpires
  <2>. QED  BY <2>1, <2>2
<1>3. session' \in [Session -> SessionRow] /\ \A s \in Session : SameFate(s)
  <2>1. CASE \E s \in Session : RevokeSession(s)
    BY <2>1, OneEnds DEF RevokeSession
  <2>2. CASE AccessExpires \/ TokenExpires
    BY <2>2, NothingEnds DEF AccessExpires, TokenExpires
  <2>. QED  BY <2>1, <2>2
<1>4. SameRefreshes(tab')
  <2>1. tab' = tab \/ tab' = TabsOutdated
    BY DEF RevokeSession, AccessExpires, TokenExpires
  <2>. QED  BY <2>1, TabsTurnOld
<1>5. /\ call' \in [Call -> CallRow]
      /\ \A d \in Call : RowOK(call'[d]) /\ Alike(call'[d], call[d])
  <2>1. CASE call' = call
    BY <2>1 DEF BrowserInv, Rows, Alike
  <2>2. CASE call' = CallsOutdated
    BY <2>2, CallsTurnOld
  <2>3. call' = call \/ call' = CallsOutdated
    BY DEF RevokeSession, AccessExpires, TokenExpires
  <2>. QED  BY <2>1, <2>2, <2>3
<1>. QED  BY <1>1, <1>2, <1>3, <1>4, <1>5, Unsettled

LEMMA ReloadKeeps ==
  ASSUME BrowserInv, (\E t \in Tab : Reload(t)) \/ UNCHANGED vars
  PROVE BrowserInv'
<1>1. UNCHANGED <<jar, session, call, calm, crossed, reused>>
  BY DEF Reload, vars
<1>2. SameRefreshes(tab')
  BY TabsTurnOld, TabsSigned DEF Reload, vars
<1>3. /\ tab' \in [Tab -> TabRow]
      /\ \A u \in Tab : tab'[u].refresh = tab[u].refresh
  BY <1>2 DEF SameRefreshes
<1>4. session' \in [Session -> SessionRow] /\ \A s \in Session : SameFate(s)
  BY <1>1, NothingEnds
<1>5. /\ call' \in [Call -> CallRow]
      /\ \A d \in Call : RowOK(call'[d]) /\ Alike(call'[d], call[d])
  BY <1>1 DEF BrowserInv, Rows, Alike
<1>6. jar' \in [access: BOOLEAN, refresh: Session \cup {None}]
  BY <1>1 DEF BrowserInv
<1>7. \A s \in Session : State(s) = "live" => State(s)' = "live"
  BY <1>1 DEF State
<1>8. PICK A : A = {}
  OBVIOUS
<1>9. /\ \A c \in Call : c \in A =>
           /\ call'[c].pc # "refreshing"
           /\ call'[c].got \in {call[c].got, None}
           /\ c \in calm' => Recovering(c)'
      /\ \A c \in Call : c \notin A => Alike(call'[c], call[c])
      /\ \A c \in Call : c \notin A => call'[c] = call[c]
  BY <1>1, <1>5, <1>8
<1>10. /\ jar.access => jar'.access
       /\ jar'.refresh \in {jar.refresh, None}
       /\ calm' \subseteq calm
       /\ UNCHANGED <<crossed, reused>>
  BY <1>1
<1>. QED  BY <1>3, <1>4, <1>5, <1>6, <1>7, <1>9, <1>10, PlainStep

-----------------------------------------------------------------------------
(* The steps that make, show or deliver a token of the refresh. *)

\* What the invariant says of one tab and of one call.
LEMMA Kinds ==
  ASSUME BrowserInv
  PROVE /\ jar.refresh \in Session \cup {None}
        /\ \A t \in Tab : /\ tab[t] \in TabRow
                          /\ RefreshOK(tab[t].refresh)
                          /\ tab[t].refresh.shown \in Session \cup {None}
                          /\ tab[t].refresh.got \in Session \cup {None}
        /\ \A c \in Call : /\ call[c] \in CallRow /\ RowOK(call[c])
                           /\ call[c].got \in Session \cup {None}
        /\ \A s \in Session : session[s] \in SessionRow /\ s # None
<1>1. \A t \in Tab : tab[t] \in TabRow /\ RefreshOK(tab[t].refresh)
  BY DEF BrowserInv, Tabs
<1>2. \A c \in Call : call[c] \in CallRow /\ RowOK(call[c])
  BY DEF BrowserInv, Rows
<1>3. \A s \in Session : s # None
  BY BrowserAssumption DEF Session
<1>. QED  BY <1>1, <1>2, <1>3 DEF BrowserInv, TabRow, RefreshRow, CallRow

LEMMA RefreshUpdated ==
  ASSUME BrowserInv, NEW t \in Tab, NEW f, RefreshOK(f),
         tab' = [tab EXCEPT ![t].refresh = f]
  PROVE /\ Tabs' /\ tab'[t].refresh = f
        /\ \A u \in Tab : u # t => tab'[u] = tab[u]
<1>1. PICK r \in TabRow : r = tab[t]
  BY Kinds
<1>2. PICK y : y = [r EXCEPT !.refresh = f]
  OBVIOUS
<1>3. y \in TabRow /\ y.refresh = f
  BY <1>1, <1>2 DEF TabRow, RefreshOK
<1>4. tab \in [Tab -> TabRow] /\ tab' = [tab EXCEPT ![t] = y]
  BY <1>1, <1>2 DEF BrowserInv, Tabs
<1>5. /\ tab' \in [Tab -> TabRow] /\ tab'[t] = y
      /\ \A u \in Tab : u # t => tab'[u] = tab[u]
  BY <1>3, <1>4
<1>6. \A u \in Tab : RefreshOK(tab'[u].refresh)
  BY <1>3, <1>5, Kinds
<1>. QED  BY <1>3, <1>5, <1>6 DEF Tabs

\* A row of sessions nobody has used is none of the tokens about.
LEMMA Fresh ==
  ASSUME BrowserInv, NEW n \in Session, Spare(n)
  PROVE /\ n # None /\ State(n) = "none" /\ n # jar.refresh
        /\ \A t \in Tab : n # tab[t].refresh.shown /\ n # tab[t].refresh.got
        /\ \A c \in Call : n # call[c].got
<1>1. State(n) = "none" /\ n # None
  BY Kinds DEF Spare, Absent, State
<1>. QED  BY <1>1 DEF BrowserInv, Issued

\* Two answers under way bring different tokens.
LEMMA Different ==
  ASSUME BrowserInv
  PROVE /\ \A c, d \in Call :
             c # d /\ call[c].got # None => call[c].got # call[d].got
        /\ \A c \in Call, t \in Tab :
             call[c].got # None => call[c].got # tab[t].refresh.got
        /\ \A t, u \in Tab :
             t # u /\ tab[t].refresh.got # None =>
               tab[t].refresh.got # tab[u].refresh.got
        /\ \A c \in Call : call[c].got # None => Unlanded(call[c].got)
        /\ \A t \in Tab :
             tab[t].refresh.got # None => Unlanded(tab[t].refresh.got)
  BY DEF BrowserInv, Underway

LEMMA ServerLoginKeeps ==
  ASSUME BrowserInv, NEW c \in Call, NEW n \in Session, ServerLogin(c, n)
  PROVE BrowserInv'
<1>1. /\ call[c].pc = "sent" /\ call[c].op = "login" /\ RowOK(call[c])
      /\ Update(c, Served(call[c], n)) /\ Spare(n)
      /\ session' = [session EXCEPT ![n] = [state |-> "live", family |-> n]]
      /\ UNCHANGED <<jar, tab, calm, crossed, reused>>
  BY DEF ServerLogin, BrowserInv, Rows
<1>2. PICK x : x = Served(call[c], n)
  OBVIOUS
<1>3. RowOK(x) /\ x.pc = "answered" /\ x.got = n
  BY <1>1, <1>2, ServedRow
<1>4. /\ call' \in [Call -> CallRow] /\ call'[c] = x
      /\ \A d \in Call : d # c => call'[d] = call[d]
      /\ \A d \in Call : RowOK(call'[d])
  BY <1>1, <1>2, <1>3, CallUpdated
<1>5. session' \in [Session -> SessionRow]
  BY <1>1 DEF BrowserInv, SessionRow
<1>6. /\ State(n)' = "live"
      /\ \A s \in Session : s # n => State(s)' = State(s)
  BY <1>1 DEF BrowserInv, State
<1>7. /\ n # None /\ State(n) = "none" /\ n # jar.refresh
      /\ \A t \in Tab : n # tab[t].refresh.shown /\ n # tab[t].refresh.got
      /\ \A d \in Call : n # call[d].got
  BY <1>1, Fresh
<1>8. Rows' /\ Tabs' /\ Waits'
  <2>1. Rows'
    BY <1>4 DEF Rows
  <2>2. Tabs'
    BY <1>1 DEF BrowserInv, Tabs
  <2>3. \A d \in Call : call'[d].pc = "refreshing" =>
          call[d].pc = "refreshing" /\ call'[d].tab = call[d].tab
    BY <1>3, <1>4
  <2>. QED  BY <1>1, <2>1, <2>2, <2>3 DEF BrowserInv, Waits
<1>9. Issued'
  BY <1>1, <1>3, <1>4, <1>6, <1>7, Kinds DEF BrowserInv, Issued
<1>10. Underway'
  <2>1. \A m \in Session : Unlanded(m) => Unlanded(m)'
    BY <1>1, <1>6 DEF Unlanded
  <2>2. Unlanded(n)'
    BY <1>1, <1>6, <1>7 DEF Unlanded
  <2>3. \A d \in Call : call'[d].got # None => Unlanded(call[d].got)'
    <3>. SUFFICES ASSUME NEW d \in Call, call'[d].got # None
                  PROVE Unlanded(call[d].got)'
      OBVIOUS
    <3>1. CASE d = c
      BY <1>3, <1>4, <2>2, <3>1 DEF Unlanded
    <3>2. CASE d # c
      <4>1. PICK m \in Session : m = call[d].got
        BY <1>4, <3>2, Kinds
      <4>2. Unlanded(m)'
        BY <1>4, <2>1, <3>2, <4>1, Different
      <4>. QED  BY <1>4, <3>2, <4>1, <4>2 DEF Unlanded
    <3>. QED  BY <3>1, <3>2
  <2>4. \A t \in Tab :
          tab'[t].refresh.got # None => Unlanded(tab[t].refresh.got)'
    <3>. SUFFICES ASSUME NEW t \in Tab, tab'[t].refresh.got # None
                  PROVE Unlanded(tab[t].refresh.got)'
      OBVIOUS
    <3>1. PICK m \in Session : m = tab[t].refresh.got
      BY <1>1, Kinds
    <3>2. Unlanded(m)'
      BY <1>1, <2>1, <3>1, Different
    <3>. QED  BY <1>1, <3>1, <3>2 DEF Unlanded
  <2>5. /\ \A d, e \in Call :
             d # e /\ call'[d].got # None => call'[d].got # call'[e].got
        /\ \A d \in Call, t \in Tab :
             call'[d].got # None => call'[d].got # tab'[t].refresh.got
        /\ \A t, u \in Tab :
             t # u /\ tab'[t].refresh.got # None =>
               tab'[t].refresh.got # tab'[u].refresh.got
    BY <1>1, <1>3, <1>4, <1>7, Different
  <2>. QED  BY <2>3, <2>4, <2>5 DEF Underway
<1>11. ASSUME ~crossed'
       PROVE Uncrossed'
  BY <1>1, <1>6, <1>7, <1>11, Kinds DEF BrowserInv, Uncrossed
<1>12. Calm'
  <2>1. \A s \in Session : State(s) = "live" => State(s)' = "live"
    BY <1>6
  <2>2. c \notin calm
    BY <1>1 DEF BrowserInv, Calm, Recovering
  <2>3. \A d \in calm : d \in Call /\ call'[d] = call[d]
    BY <1>4, <2>2 DEF BrowserInv, Calm
  <2>4. \A d \in calm : Recovering(d)'
    BY <1>1, <2>1, <2>3, Undisturbed
  <2>. QED  BY <1>1, <2>3, <2>4 DEF Calm
<1>13. ReuseHasCause' /\ jar' = jar /\ crossed' \in BOOLEAN /\ reused' \in BOOLEAN
  BY <1>1 DEF BrowserInv, ReuseHasCause
<1>14. jar' \in [access: BOOLEAN, refresh: Session \cup {None}]
  BY <1>13 DEF BrowserInv
<1>. QED
  BY <1>5, <1>8, <1>9, <1>10, <1>11, <1>12, <1>13, <1>14 DEF BrowserInv

\* A step that puts no token under way.
LEMMA FewerUnderway ==
  ASSUME BrowserInv,
         \A c \in Call : call'[c].got \in {call[c].got, None},
         \A t \in Tab : tab'[t].refresh.got \in {tab[t].refresh.got, None},
         \A m \in Session :
           /\ Unlanded(m)
           /\ \/ \E c \in Call : call'[c].got = m
              \/ \E t \in Tab : tab'[t].refresh.got = m
           => Unlanded(m)'
  PROVE Underway'
<1>1. \A c \in Call : call'[c].got # None => Unlanded(call[c].got)'
  <2>. SUFFICES ASSUME NEW c \in Call, call'[c].got # None
                PROVE Unlanded(call[c].got)'
    OBVIOUS
  <2>1. PICK m \in Session : m = call[c].got /\ m = call'[c].got
    BY Kinds
  <2>2. Unlanded(m)'
    BY <2>1, Different
  <2>. QED  BY <2>1, <2>2 DEF Unlanded
<1>2. \A t \in Tab : tab'[t].refresh.got # None => Unlanded(tab[t].refresh.got)'
  <2>. SUFFICES ASSUME NEW t \in Tab, tab'[t].refresh.got # None
                PROVE Unlanded(tab[t].refresh.got)'
    OBVIOUS
  <2>1. PICK m \in Session : m = tab[t].refresh.got /\ m = tab'[t].refresh.got
    BY Kinds
  <2>2. Unlanded(m)'
    BY <2>1, Different
  <2>. QED  BY <2>1, <2>2 DEF Unlanded
<1>3. /\ \A d, e \in Call :
           d # e /\ call'[d].got # None => call'[d].got # call'[e].got
      /\ \A d \in Call, t \in Tab :
           call'[d].got # None => call'[d].got # tab'[t].refresh.got
      /\ \A t, u \in Tab :
           t # u /\ tab'[t].refresh.got # None =>
             tab'[t].refresh.got # tab'[u].refresh.got
  BY Different
<1>. QED  BY <1>1, <1>2, <1>3 DEF Underway

LEMMA AnswerLoginKeeps ==
  ASSUME BrowserInv, NEW c \in Call, AnswerLogin(c)
  PROVE BrowserInv'
<1>1. /\ call[c].pc = "answered" /\ call[c].tab \in Tab
      /\ jar' = [access |-> TRUE, refresh |-> call[c].got]
      /\ tab' = [TabsOutdated EXCEPT ![call[c].tab].token = None]
      /\ calm' = {} /\ UNCHANGED <<session, crossed, reused>>
  BY DEF AnswerLogin, Answered, Disturbs, BrowserInv, Rows, RowOK
<1>2. PICK x : x = [IdleCall(call[c].tab) EXCEPT
                      !.op = "me", !.pc = "sent", !.passes = TRUE]
  OBVIOUS
<1>3. RowOK(x) /\ x.pc = "sent" /\ x.got = None
  BY <1>1, <1>2, Following DEF Op
<1>4. /\ call' \in [Call -> CallRow] /\ call'[c] = x
      /\ \A d \in Call : d # c => Alike(call'[d], call[d])
      /\ \A d \in Call : RowOK(call'[d])
  BY <1>2, <1>3, CallsUpdated DEF AnswerLogin
<1>5. /\ tab' \in [Tab -> TabRow]
      /\ \A t \in Tab : tab'[t].refresh = tab[t].refresh
  <2>1. SameRefreshes(tab')
    BY <1>1, TabsTurnOld, TabsSigned
  <2>. QED  BY <2>1 DEF SameRefreshes
<1>6. /\ call[c].got \in Session \cup {None} /\ jar'.refresh = call[c].got
      /\ jar' \in [access: BOOLEAN, refresh: Session \cup {None}]
  BY <1>1, Kinds
<1>7. \A s \in Session \cup {None} : State(s)' = State(s)
  BY <1>1 DEF State
<1>8. Rows' /\ Tabs' /\ Waits'
  <2>1. Rows' /\ Tabs'
    BY <1>4, <1>5, Kinds DEF Rows, Tabs
  <2>2. \A d \in Call : call'[d].pc = "refreshing" =>
          call[d].pc = "refreshing" /\ call'[d].tab = call[d].tab
          /\ call[d].tab \in Tab
    BY <1>3, <1>4, Kinds DEF Alike, RowOK
  <2>. QED  BY <1>5, <2>1, <2>2 DEF BrowserInv, Waits
<1>9. Issued'
  <2>1. \A d \in Call : call'[d].got \in {call[d].got, None}
    BY <1>3, <1>4 DEF Alike
  <2>. QED  BY <1>5, <1>6, <1>7, <2>1, Kinds DEF BrowserInv, Issued
<1>10. Underway'
  <2>1. \A d \in Call : call'[d].got \in {call[d].got, None}
    BY <1>3, <1>4 DEF Alike
  <2>2. ASSUME NEW m \in Session, Unlanded(m),
               \/ \E d \in Call : call'[d].got = m
               \/ \E t \in Tab : tab'[t].refresh.got = m
        PROVE Unlanded(m)'
    <3>1. m # None
      BY Kinds
    <3>2. m # call[c].got
      BY <1>3, <1>4, <1>5, <2>2, <3>1, Different DEF Alike
    <3>. QED  BY <1>5, <1>6, <1>7, <2>2, <3>2 DEF Unlanded
  <2>. QED  BY <1>5, <2>1, <2>2, FewerUnderway
<1>11. ASSUME ~crossed'
       PROVE Uncrossed'
  <2>1. call[c].got # None => State(call[c].got) # "rotated"
    BY Different DEF Unlanded
  <2>. QED
    BY <1>1, <1>5, <1>6, <1>7, <1>11, <2>1, Kinds DEF BrowserInv, Uncrossed
<1>12. Calm' /\ ReuseHasCause' /\ session' \in [Session -> SessionRow]
       /\ crossed' \in BOOLEAN /\ reused' \in BOOLEAN
  BY <1>1 DEF BrowserInv, ReuseHasCause, Calm
<1>. QED  BY <1>6, <1>8, <1>9, <1>10, <1>11, <1>12 DEF BrowserInv

LEMMA AnswerRecoversKeeps ==
  ASSUME BrowserInv, NEW c \in Call, AnswerRecovers(c)
  PROVE BrowserInv'
<1>1. PICK t \in Tab : t = call[c].tab
  BY DEF AnswerRecovers, BrowserInv, Rows, RowOK
<1>2. PICK first \in BOOLEAN : first = (tab[t].refresh.stage = "none")
  OBVIOUS
<1>3. /\ call[c].pc = "answered" /\ call[c].answer = "401"
      /\ call[c].op \in {"click", "password"}
      /\ Update(c, [call[c] EXCEPT !.pc = "refreshing", !.answer = "none"])
      /\ tab' = IF first THEN [tab EXCEPT ![t].refresh = RefreshSent] ELSE tab
      /\ calm' = IF \/ first /\ Live(jar.refresh)
                    \/ ~first /\ \E d \in calm : Awaits(d, t)
                   THEN calm \cup {c} ELSE calm \ {c}
      /\ crossed' = (crossed \/ (first /\ OtherRefresh(t)))
      /\ UNCHANGED <<jar, session, reused>>
  <2>1. call[c].op \in Op
    BY Kinds DEF CallRow
  <2>2. Recovers(call[c])
    BY DEF AnswerRecovers
  <2>3. call[c].op \in {"click", "password"}
    BY <2>1, <2>2 DEF Recovers, Op, Mutating, Path
  <2>. QED  BY <1>1, <1>2, <2>2, <2>3 DEF AnswerRecovers, Recovers
<1>4. PICK x : x = [call[c] EXCEPT !.pc = "refreshing", !.answer = "none"]
  OBVIOUS
<1>5. /\ RowOK(x) /\ x.pc = "refreshing" /\ x.tab = t /\ x.op = call[c].op
      /\ x.got = call[c].got
  <2>1. PICK r \in CallRow : r = call[c] /\ r.executed = 0 /\ r.tab = t
    BY <1>1, <1>3, Kinds DEF RowOK
  <2>2. /\ x \in CallRow /\ x.pc = "refreshing" /\ x.tab = t /\ x.op = r.op
        /\ x.got = r.got /\ x.executed = 0
    <3>1. x = [r EXCEPT !.pc = "refreshing", !.answer = "none"]
      BY <1>4, <2>1
    <3>2. x \in CallRow
      BY <3>1 DEF CallRow
    <3>. QED  BY <2>1, <3>1, <3>2 DEF CallRow
  <2>. QED  BY <2>1, <2>2 DEF RowOK
<1>6. /\ call' \in [Call -> CallRow] /\ call'[c] = x
      /\ \A d \in Call : d # c => call'[d] = call[d]
      /\ \A d \in Call : RowOK(call'[d])
  BY <1>3, <1>4, <1>5, CallUpdated
<1>7. PICK f : f = RefreshSent
  OBVIOUS
<1>8. /\ RefreshOK(f) /\ f.stage = "sent" /\ f.shown = jar.refresh
      /\ f.got = None
  <2>1. f = [stage |-> "sent", shown |-> jar.refresh, got |-> None]
    BY <1>7 DEF RefreshSent, Shown
  <2>. QED  BY <2>1, Kinds DEF RefreshOK, RefreshRow
<1>9. /\ Tabs'
      /\ first => tab'[t].refresh = f
      /\ \A u \in Tab : ~first \/ u # t => tab'[u].refresh = tab[u].refresh
  <2>1. CASE first
    BY <1>3, <1>7, <1>8, <2>1, RefreshUpdated
  <2>2. CASE ~first
    BY <1>3, <2>2 DEF BrowserInv, Tabs
  <2>. QED  BY <2>1, <2>2
<1>10. tab[t].refresh.stage = "none" => /\ tab[t].refresh.shown = None
                                        /\ tab[t].refresh.got = None
  BY Kinds DEF RefreshOK
<1>11. tab'[t].refresh.stage # "none"
  BY <1>2, <1>8, <1>9
<1>12. Rows' /\ Waits'
  <2>1. Rows'
    BY <1>6 DEF Rows
  <2>2. ASSUME NEW d \in Call, call'[d].pc = "refreshing"
        PROVE tab'[call'[d].tab].refresh.stage # "none"
    <3>1. CASE call'[d].tab = t
      BY <1>11, <3>1
    <3>2. CASE call'[d].tab # t
      <4>1. d # c /\ call'[d] = call[d]
        BY <1>5, <1>6, <3>2
      <4>2. call[d].tab \in Tab /\ tab[call[d].tab].refresh.stage # "none"
        BY <2>2, <4>1, Kinds DEF BrowserInv, Waits, RowOK
      <4>. QED  BY <1>9, <3>2, <4>1, <4>2
    <3>. QED  BY <3>1, <3>2
  <2>. QED  BY <2>1, <2>2 DEF Waits
<1>13. \A s \in Session \cup {None} : State(s)' = State(s)
  BY <1>3 DEF State
<1>14. /\ \A d \in Call : call'[d].got = call[d].got
       /\ \A u \in Tab : /\ tab'[u].refresh.got = tab[u].refresh.got
                         /\ tab'[u].refresh.shown \in
                              {tab[u].refresh.shown, jar.refresh}
  BY <1>2, <1>5, <1>6, <1>8, <1>9, <1>10
<1>15. Issued'
  BY <1>3, <1>13, <1>14, Kinds DEF BrowserInv, Issued
<1>16. Underway'
  <2>1. \A m \in Session : Unlanded(m) => Unlanded(m)'
    BY <1>3, <1>13, <1>14 DEF Unlanded
  <2>. QED  BY <1>14, <2>1, FewerUnderway
<1>17. ASSUME ~crossed'
       PROVE Uncrossed'
  <2>1. ~crossed /\ Uncrossed /\ (first => ~OtherRefresh(t))
    BY <1>3, <1>17 DEF BrowserInv
  <2>2. CASE first
    <3>1. \A u \in Tab : u # t => tab[u].refresh.stage = "none"
      BY <2>1, <2>2 DEF OtherRefresh
    <3>2. \A u \in Tab : tab[u].refresh.got = None /\ tab[u].refresh.shown = None
      BY <1>2, <2>2, <3>1, Kinds DEF RefreshOK
    <3>3. jar.refresh # None => State(jar.refresh) # "rotated"
      BY <2>1, <3>2 DEF Uncrossed
    <3>4. \A u, v \in Tab :
            tab'[u].refresh.stage # "none" /\ tab'[v].refresh.stage # "none"
              => u = v
      BY <1>9, <3>1
    <3>5. \A u \in Tab : tab'[u].refresh.shown # None =>
            State(tab'[u].refresh.shown) # "rotated"
      BY <1>14, <3>2, <3>3
    <3>. QED  BY <1>3, <1>13, <1>14, <3>3, <3>4, <3>5, Kinds DEF Uncrossed, State
  <2>3. CASE ~first
    BY <1>3, <1>9, <1>13, <2>1, <2>3, Kinds DEF Uncrossed
  <2>. QED  BY <2>2, <2>3
<1>18. Calm'
  <2>1. ASSUME NEW d \in calm, d # c
        PROVE Recovering(d)'
    <3>1. d \in Call /\ Recovering(d) /\ call'[d] = call[d] /\ RowOK(call[d])
      BY <1>6, <2>1, Kinds DEF BrowserInv, Calm
    <3>2. CASE call[d].pc = "refreshing"
      <4>1. PICK u \in Tab : u = call[d].tab
        BY <3>1, <3>2 DEF RowOK
      <4>2. tab'[u].refresh = tab[u].refresh
        BY <1>2, <1>9, <3>1, <3>2, <4>1 DEF BrowserInv, Waits
      <4>. QED  BY <1>13, <3>1, <3>2, <4>1, <4>2, Kinds DEF Recovering
    <3>3. CASE call[d].pc # "refreshing"
      BY <1>3, <3>1, <3>3 DEF Recovering
    <3>. QED  BY <3>2, <3>3
  <2>2. ASSUME c \in calm'
        PROVE Recovering(c)'
    <3>1. \/ first /\ Live(jar.refresh)
          \/ ~first /\ \E d \in calm : Awaits(d, t)
      BY <1>3, <2>2
    <3>2. CASE first /\ Live(jar.refresh)
      <4>1. jar.refresh # None /\ State(jar.refresh) = "live"
        BY <3>2 DEF Live, State
      <4>2. /\ tab'[t].refresh.stage = "sent"
            /\ tab'[t].refresh.shown = jar.refresh
        BY <1>8, <1>9, <3>2
      <4>. QED  BY <1>3, <1>5, <1>6, <1>13, <4>1, <4>2, Kinds DEF Recovering
    <3>3. CASE ~first /\ \E d \in calm : Awaits(d, t)
      <4>1. PICK d \in calm : Awaits(d, t)
        BY <3>3
      <4>2. Recovering(d) /\ call[d].pc = "refreshing" /\ call[d].tab = t
        BY <4>1 DEF BrowserInv, Calm, Awaits
      <4>3. LET f0 == tab[t].refresh IN
              \/ /\ f0.stage \in {"sent", "read"}
                 /\ f0.shown # None /\ State(f0.shown) = "live"
              \/ f0.stage = "answered" /\ f0.got # None
        BY <4>2 DEF Recovering
      <4>4. tab'[t].refresh = tab[t].refresh
        BY <1>9, <3>3
      <4>. QED  BY <1>3, <1>5, <1>6, <1>13, <4>3, <4>4, Kinds DEF Recovering
    <3>. QED  BY <3>1, <3>2, <3>3
  <2>3. calm' \subseteq calm \cup {c} /\ calm \subseteq Call
    BY <1>3 DEF BrowserInv, Calm
  <2>. QED  BY <2>1, <2>2, <2>3 DEF Calm
<1>19. /\ ReuseHasCause' /\ session' \in [Session -> SessionRow]
       /\ jar' \in [access: BOOLEAN, refresh: Session \cup {None}]
       /\ reused' \in BOOLEAN
  BY <1>3 DEF BrowserInv, ReuseHasCause
<1>20. crossed' \in BOOLEAN
  BY <1>3 DEF BrowserInv
<1>. QED  BY <1>9, <1>12, <1>15, <1>16, <1>17, <1>18, <1>19, <1>20 DEF BrowserInv

-----------------------------------------------------------------------------
(* The refresh of a tab. *)

\* The refresh of t is answered without a token, or goes on as it was.
LEMMA RefreshGoesOn ==
  ASSUME BrowserInv, NEW t \in Tab,
         RefreshWithout(t) \/ RefreshRead(t) \/ RefreshReuse(t)
  PROVE BrowserInv'
<1>1. /\ tab[t].refresh.stage = "sent" /\ tab[t].refresh.got = None
      /\ RefreshOK(tab[t].refresh)
      /\ UNCHANGED <<jar, call, crossed>>
  BY Kinds DEF RefreshWithout, RefreshRead, RefreshReuse, Refreshing, RefreshOK
<1>2. PICK f :
        /\ tab' = [tab EXCEPT ![t].refresh = f] /\ RefreshOK(f)
        /\ f.stage \in {"read", "answered"} /\ f.got = None
        /\ f.shown = IF f.stage = "read" THEN tab[t].refresh.shown ELSE None
        /\ f.stage = "read" <=> RefreshRead(t)
  <2>1. CASE RefreshRead(t)
    <3>1. PICK g \in RefreshRow : g = tab[t].refresh /\ g.got = None
            /\ g.shown # None
      BY <1>1, <2>1 DEF RefreshOK, RefreshRead, Live
    <3>2. PICK f : f = [g EXCEPT !.stage = "read"]
      OBVIOUS
    <3>3. f \in RefreshRow /\ f.stage = "read" /\ f.got = None /\ f.shown = g.shown
      BY <3>1, <3>2 DEF RefreshRow
    <3>4. tab' = [tab EXCEPT ![t].refresh = f]
      BY <2>1, <3>1, <3>2 DEF RefreshRead
    <3>. QED  BY <2>1, <3>1, <3>3, <3>4 DEF RefreshOK
  <2>2. CASE ~RefreshRead(t)
    <3>1. PICK f : f = [stage |-> "answered", shown |-> None, got |-> None]
      OBVIOUS
    <3>2. tab' = [tab EXCEPT ![t].refresh = f]
      BY <2>2, <3>1 DEF RefreshWithout, RefreshReuse, RefreshAnswered
    <3>3. f \in RefreshRow /\ f.stage = "answered" /\ f.got = None /\ f.shown = None
      BY <3>1 DEF RefreshRow
    <3>. QED  BY <2>2, <3>2, <3>3 DEF RefreshOK
  <2>. QED  BY <2>1, <2>2
<1>3. /\ Tabs' /\ tab'[t].refresh = f
      /\ \A u \in Tab : u # t => tab'[u] = tab[u]
  BY <1>2, RefreshUpdated
<1>4. session' \in [Session -> SessionRow] /\ \A s \in Session : SameFate(s)
  <2>1. CASE RefreshReuse(t)
    <3>1. PICK s : s = tab[t].refresh.shown
      OBVIOUS
    <3>2. PICK E \in SUBSET Session :
            \A x \in Session : x \in E <=> session[x].family = session[s].family
      <4>1. {x \in Session : session[x].family = session[s].family}
              \in SUBSET Session
        OBVIOUS
      <4>. QED  BY <4>1
    <3>3. session' = [x \in Session |->
                        IF x \in E THEN Revoked(x) ELSE session[x]]
      BY <2>1, <3>1, <3>2 DEF RefreshReuse
    <3>. QED  BY <3>3, SomeEnd
  <2>2. CASE ~RefreshReuse(t)
    BY <2>2, NothingEnds DEF RefreshWithout, RefreshRead
  <2>. QED  BY <2>1, <2>2
<1>5. Rows' /\ Waits'
  <2>1. Rows'
    BY <1>1 DEF BrowserInv, Rows
  <2>2. \A u \in Tab :
          tab[u].refresh.stage # "none" => tab'[u].refresh.stage # "none"
    BY <1>2, <1>3
  <2>. QED  BY <1>1, <2>1, <2>2, Kinds DEF BrowserInv, Waits, RowOK
<1>6. \A u \in Tab : /\ tab'[u].refresh.got = tab[u].refresh.got
                     /\ tab'[u].refresh.shown \in {tab[u].refresh.shown, None}
  BY <1>1, <1>2, <1>3
<1>7. Issued'
  BY <1>1, <1>4, <1>6, Kinds DEF BrowserInv, Issued, SameFate
<1>8. Underway'
  <2>1. \A m \in Session : Unlanded(m) => Unlanded(m)'
    BY <1>1, <1>4, <1>6, Kinds DEF Unlanded, SameFate
  <2>. QED  BY <1>1, <1>6, <2>1, FewerUnderway
<1>9. ASSUME ~crossed'
      PROVE Uncrossed'
  <2>1. Uncrossed
    BY <1>1, <1>9 DEF BrowserInv
  <2>2. \A u \in Tab :
          tab'[u].refresh.stage # "none" => tab[u].refresh.stage # "none"
    BY <1>1, <1>3
  <2>. QED  BY <1>1, <1>4, <1>6, <2>1, <2>2, Kinds DEF Uncrossed, SameFate
<1>10. ReuseHasCause' /\ reused' \in BOOLEAN
  <2>1. CASE RefreshReuse(t)
    <3>1. PICK s \in Session : s = tab[t].refresh.shown
      BY <2>1, Kinds DEF RefreshReuse
    <3>2. reused' = (reused \/ State(s) = "rotated")
      BY <2>1, <3>1 DEF RefreshReuse, State
    <3>3. State(s) = "rotated" => crossed
      BY <3>1, Kinds DEF BrowserInv, Uncrossed
    <3>. QED  BY <1>1, <3>2, <3>3 DEF BrowserInv, ReuseHasCause
  <2>2. CASE ~RefreshReuse(t)
    BY <1>1, <2>2 DEF RefreshWithout, RefreshRead, BrowserInv, ReuseHasCause
  <2>. QED  BY <2>1, <2>2
<1>11. Calm'
  <2>1. CASE RefreshReuse(t)
    BY <2>1 DEF RefreshReuse, Disturbs, Calm
  <2>2. CASE ~RefreshReuse(t)
    <3>1. UNCHANGED <<calm, session>>
      BY <2>2 DEF RefreshWithout, RefreshRead
    <3>2. ASSUME NEW d \in calm
          PROVE d \in Call /\ Recovering(d)'
      <4>1. d \in Call /\ Recovering(d) /\ call'[d] = call[d] /\ RowOK(call[d])
        BY <1>1, Kinds DEF BrowserInv, Calm
      <4>2. CASE call[d].pc = "refreshing"
        <5>1. PICK u \in Tab : u = call[d].tab
          BY <4>1, <4>2 DEF RowOK
        <5>2. LET g == tab[u].refresh IN
                \/ /\ g.stage \in {"sent", "read"}
                   /\ g.shown # None /\ State(g.shown) = "live"
                \/ g.stage = "answered" /\ g.got # None
          BY <4>1, <4>2, <5>1 DEF Recovering
        <5>3. CASE u = t
          <6>1. RefreshRead(t)
            BY <1>1, <2>2, <5>2, <5>3 DEF RefreshWithout
          <6>2. /\ tab'[t].refresh.stage = "read"
                /\ tab'[t].refresh.shown = tab[t].refresh.shown
            BY <1>2, <1>3, <6>1
          <6>. QED
            BY <1>1, <3>1, <4>1, <4>2, <5>1, <5>2, <5>3, <6>2
               DEF Recovering, State
        <5>4. CASE u # t
          BY <1>3, <3>1, <4>1, <4>2, <5>1, <5>2, <5>4 DEF Recovering, State
        <5>. QED  BY <5>3, <5>4
      <4>3. CASE call[d].pc # "refreshing"
        BY <1>1, <4>1, <4>3 DEF Recovering
      <4>. QED  BY <4>1, <4>2, <4>3
    <3>. QED  BY <3>1, <3>2 DEF Calm
  <2>. QED  BY <2>1, <2>2
<1>12. /\ jar' \in [access: BOOLEAN, refresh: Session \cup {None}]
       /\ crossed' \in BOOLEAN
  BY <1>1 DEF BrowserInv
<1>. QED  BY <1>3, <1>4, <1>5, <1>7, <1>8, <1>9, <1>10, <1>11, <1>12
          DEF BrowserInv

LEMMA RefreshCommitKeeps ==
  ASSUME BrowserInv, NEW t \in Tab, NEW n \in Session, RefreshCommit(t, n)
  PROVE BrowserInv'
<1>1. /\ tab[t].refresh.stage = "read" /\ tab[t].refresh.got = None
      /\ tab[t].refresh.shown \in Session /\ Spare(n)
      /\ calm' = calm \cap {c \in Call : Awaits(c, t)}
      /\ UNCHANGED <<jar, call, crossed, reused>>
  BY Kinds DEF RefreshCommit, Refreshing, RefreshOK, Disturbs
<1>2. PICK s \in Session : s = tab[t].refresh.shown
  BY <1>1
<1>3. /\ n # None /\ State(n) = "none" /\ n # jar.refresh /\ n # s
      /\ \A u \in Tab : n # tab[u].refresh.shown /\ n # tab[u].refresh.got
      /\ \A c \in Call : n # call[c].got
  BY <1>1, <1>2, Fresh
<1>4. PICK f : f = [stage |-> "answered", shown |-> None, got |-> n]
  OBVIOUS
<1>5. /\ RefreshOK(f) /\ f.stage = "answered" /\ f.shown = None /\ f.got = n
  BY <1>4 DEF RefreshOK, RefreshRow
<1>6. /\ Tabs' /\ tab'[t].refresh = f
      /\ \A u \in Tab : u # t => tab'[u] = tab[u]
  BY <1>4, <1>5, RefreshUpdated DEF RefreshCommit, RefreshAnswered
<1>7. /\ session' \in [Session -> SessionRow]
      /\ State(s)' = "rotated" /\ State(n)' = "live"
      /\ \A x \in Session : x # s /\ x # n => State(x)' = State(x)
  <2>1. PICK y, z : /\ y = [session[s] EXCEPT !.state = "rotated"]
                    /\ z = [state |-> "live", family |-> session[s].family]
    OBVIOUS
  <2>2. /\ y \in SessionRow /\ y.state = "rotated"
        /\ z \in SessionRow /\ z.state = "live"
    BY <2>1, Kinds DEF SessionRow
  <2>3. session' = [[session EXCEPT ![s] = y] EXCEPT ![n] = z]
    BY <1>2, <2>1 DEF RefreshCommit
  <2>4. /\ session' \in [Session -> SessionRow]
        /\ session'[s] = y /\ session'[n] = z
        /\ \A x \in Session : x # s /\ x # n => session'[x] = session[x]
    BY <1>3, <2>2, <2>3 DEF BrowserInv
  <2>. QED  BY <2>2, <2>4 DEF State
<1>8. Rows' /\ Waits'
  <2>1. Rows'
    BY <1>1 DEF BrowserInv, Rows
  <2>2. \A u \in Tab :
          tab[u].refresh.stage # "none" => tab'[u].refresh.stage # "none"
    BY <1>5, <1>6
  <2>. QED  BY <1>1, <2>1, <2>2, Kinds DEF BrowserInv, Waits, RowOK
<1>9. \A u \in Tab : /\ u # t => tab'[u].refresh = tab[u].refresh
                     /\ tab'[u].refresh.shown \in {tab[u].refresh.shown, None}
                     /\ tab'[u].refresh.got \in {tab[u].refresh.got, n}
  BY <1>5, <1>6
<1>10. \A x \in Session : State(x) # "none" => State(x)' # "none"
  BY <1>7
<1>11. Issued'
  BY <1>1, <1>7, <1>9, <1>10, Kinds DEF BrowserInv, Issued
<1>12. Underway'
  <2>1. ASSUME NEW m \in Session, Unlanded(m)
        PROVE Unlanded(m)'
    <3>1. m # s
      BY <1>2, <2>1 DEF Unlanded
    <3>2. State(m)' # "rotated"
      BY <1>7, <2>1, <3>1 DEF Unlanded
    <3>. QED  BY <1>1, <1>9, <2>1, <3>2, Kinds DEF Unlanded
  <2>2. Unlanded(n)'
    BY <1>1, <1>3, <1>7, <1>9 DEF Unlanded
  <2>3. \A c \in Call : call'[c].got # None => Unlanded(call[c].got)'
    <3>. SUFFICES ASSUME NEW c \in Call, call'[c].got # None
                  PROVE Unlanded(call[c].got)'
      OBVIOUS
    <3>1. PICK m \in Session : m = call[c].got
      BY <1>1, Kinds
    <3>2. Unlanded(m)'
      BY <1>1, <2>1, <3>1, Different
    <3>. QED  BY <1>1, <3>1, <3>2 DEF Unlanded
  <2>4. \A u \in Tab :
          tab'[u].refresh.got # None => Unlanded(tab[u].refresh.got)'
    <3>. SUFFICES ASSUME NEW u \in Tab, tab'[u].refresh.got # None
                  PROVE Unlanded(tab[u].refresh.got)'
      OBVIOUS
    <3>1. CASE u = t
      BY <1>5, <1>6, <2>2, <3>1 DEF Unlanded
    <3>2. CASE u # t
      <4>1. PICK m \in Session : m = tab[u].refresh.got
        BY <1>9, <3>2, Kinds
      <4>2. Unlanded(m)'
        BY <1>9, <2>1, <3>2, <4>1, Different
      <4>. QED  BY <1>9, <3>2, <4>1, <4>2 DEF Unlanded
    <3>. QED  BY <3>1, <3>2
  <2>5. /\ \A d, e \in Call :
             d # e /\ call'[d].got # None => call'[d].got # call'[e].got
        /\ \A d \in Call, u \in Tab :
             call'[d].got # None => call'[d].got # tab'[u].refresh.got
    BY <1>1, <1>3, <1>9, Different
  <2>6. \A v, u \in Tab :
             v # u /\ tab'[v].refresh.got # None =>
               tab'[v].refresh.got # tab'[u].refresh.got
    BY <1>3, <1>5, <1>6, <1>9, Different
  <2>. QED  BY <2>3, <2>4, <2>5, <2>6 DEF Underway
<1>13. ASSUME ~crossed'
       PROVE Uncrossed'
  <2>1. Uncrossed
    BY <1>1, <1>13 DEF BrowserInv
  <2>2. \A u \in Tab : u # t => tab[u].refresh.stage = "none"
    BY <1>1, <2>1 DEF Uncrossed
  <2>3. \A u \in Tab : u # t => /\ tab'[u].refresh.stage = "none"
                                /\ tab'[u].refresh.shown = None
    BY <1>9, <2>2, Kinds DEF RefreshOK
  <2>4. tab'[t].refresh.got # None /\ tab'[t].refresh.shown = None
    BY <1>3, <1>5, <1>6
  <2>. QED  BY <2>3, <2>4 DEF Uncrossed
<1>14. Calm'
  <2>1. ASSUME NEW c \in calm'
        PROVE c \in Call /\ Recovering(c)'
    <3>1. /\ c \in Call /\ call[c].op \in {"click", "password"}
          /\ call[c].pc = "refreshing" /\ call[c].tab = t
      BY <1>1, <2>1 DEF BrowserInv, Calm, Recovering, Awaits
    <3>2. tab'[t].refresh.stage = "answered" /\ tab'[t].refresh.got # None
      BY <1>3, <1>5, <1>6
    <3>. QED  BY <1>1, <3>1, <3>2 DEF Recovering
  <2>. QED  BY <2>1 DEF Calm
<1>15. /\ ReuseHasCause' /\ crossed' \in BOOLEAN /\ reused' \in BOOLEAN
       /\ jar' \in [access: BOOLEAN, refresh: Session \cup {None}]
  BY <1>1 DEF BrowserInv, ReuseHasCause
<1>. QED  BY <1>6, <1>7, <1>8, <1>11, <1>12, <1>13, <1>14, <1>15 DEF BrowserInv

\* The calls that waited for t are renewed or refused, the others are as they
\* were, and t refreshes no more.
Released(t) ==
  /\ Rows'
  /\ \A d \in Call : Awaits(d, t) => /\ call'[d].pc # "refreshing"
                                     /\ call'[d].got \in {call[d].got, None}
  /\ \A d \in Call : ~Awaits(d, t) => Alike(call'[d], call[d])
  /\ Tabs'
  /\ tab'[t].refresh = NoRefresh
  /\ \A u \in Tab : u # t => tab'[u].refresh = tab[u].refresh

LEMMA Blank ==
  /\ RefreshOK(NoRefresh) /\ NoRefresh.stage = "none"
  /\ NoRefresh.shown = None /\ NoRefresh.got = None
  BY DEF NoRefresh, RefreshOK, RefreshRow

LEMMA RetryReleases ==
  ASSUME BrowserInv, NEW t \in Tab, Retry(t)
  PROVE /\ Released(t)
        /\ \A d \in Call : Awaits(d, t) => /\ call'[d].pc = "asking"
                                           /\ call'[d].op = call[d].op
<1>1. ASSUME NEW d \in Call, Awaits(d, t)
      PROVE /\ RowOK(call'[d]) /\ call'[d].pc = "asking"
            /\ call'[d].got = call[d].got /\ call'[d].op = call[d].op
  <2>1. PICK r \in CallRow : r = call[d] /\ r.executed = 0 /\ r.tab \in Tab
    BY <1>1, Kinds DEF RowOK, Awaits
  <2>2. PICK x : x = [r EXCEPT !.pc = "asking", !.retried = TRUE]
    OBVIOUS
  <2>3. /\ x \in CallRow /\ x.pc = "asking" /\ x.got = r.got /\ x.op = r.op
        /\ x.executed = 0 /\ x.tab = r.tab
    <3>1. x \in CallRow
      BY <2>2 DEF CallRow
    <3>. QED  BY <2>1, <2>2, <3>1 DEF CallRow
  <2>4. call'[d] = x
    BY <1>1, <2>1, <2>2 DEF Retry
  <2>. QED  BY <2>1, <2>3, <2>4 DEF RowOK
<1>2. ASSUME NEW d \in Call, ~Awaits(d, t)
      PROVE RowOK(call'[d]) /\ Alike(call'[d], call[d])
  <2>1. call'[d] = CallsOutdated[d]
    BY <1>2 DEF Retry
  <2>. QED  BY <2>1, CallsTurnOld
<1>3. Rows'
  <2>1. \A d \in Call : RowOK(call'[d]) /\ call'[d] \in CallRow
    BY <1>1, <1>2 DEF RowOK
  <2>2. call' = [d \in Call |-> call'[d]]
    BY DEF Retry
  <2>. QED  BY <2>1, <2>2 DEF Rows
<1>4. /\ Tabs' /\ tab'[t].refresh = NoRefresh
      /\ \A u \in Tab : u # t => tab'[u].refresh = tab[u].refresh
  <2>1. PICK g : g = TabsOutdated
    OBVIOUS
  <2>2. /\ g \in [Tab -> TabRow]
        /\ \A u \in Tab : g[u].refresh = tab[u].refresh
    BY <2>1, TabsTurnOld DEF SameRefreshes
  <2>3. PICK r \in TabRow : r = g[t]
    BY <2>2
  <2>4. PICK y : y = [[r EXCEPT !.refresh = NoRefresh] EXCEPT !.token = None]
    OBVIOUS
  <2>5. y \in TabRow /\ y.refresh = NoRefresh
    BY <2>4, Blank DEF TabRow, RefreshOK
  <2>6. tab' = [g EXCEPT ![t] = y]
    BY <2>1, <2>2, <2>3, <2>4 DEF Retry
  <2>7. /\ tab' \in [Tab -> TabRow] /\ tab'[t] = y
        /\ \A u \in Tab : u # t => tab'[u] = g[u]
    BY <2>2, <2>5, <2>6
  <2>8. \A u \in Tab : RefreshOK(tab'[u].refresh)
    BY <2>2, <2>5, <2>7, Blank, Kinds
  <2>. QED  BY <2>2, <2>5, <2>7, <2>8 DEF Tabs
<1>. QED  BY <1>1, <1>2, <1>3, <1>4 DEF Released

LEMMA GiveUpReleases ==
  ASSUME BrowserInv, NEW t \in Tab, GiveUp(t)
  PROVE /\ Released(t)
        /\ \A d \in Call : ~Awaits(d, t) => call'[d] = call[d]
<1>1. ASSUME NEW d \in Call, Awaits(d, t)
      PROVE RowOK(call'[d]) /\ call'[d].pc = "refused" /\ call'[d].got = None
  <2>1. call'[d] = Over("refused")
    BY <1>1 DEF GiveUp
  <2>. QED  BY <2>1, OverRow
<1>2. \A d \in Call : ~Awaits(d, t) => call'[d] = call[d] /\ RowOK(call'[d])
  BY Kinds DEF GiveUp
<1>3. Rows'
  <2>1. \A d \in Call : RowOK(call'[d]) /\ call'[d] \in CallRow
    BY <1>1, <1>2 DEF RowOK
  <2>2. call' = [d \in Call |-> call'[d]]
    BY DEF GiveUp
  <2>. QED  BY <2>1, <2>2 DEF Rows
<1>4. /\ Tabs' /\ tab'[t].refresh = NoRefresh
      /\ \A u \in Tab : u # t => tab'[u] = tab[u]
  BY Blank, RefreshUpdated DEF GiveUp
<1>. QED  BY <1>1, <1>2, <1>3, <1>4 DEF Released, Alike

LEMMA ReleasedKeeps ==
  ASSUME BrowserInv, NEW t \in Tab, Released(t),
         \/ UNCHANGED jar
         \/ /\ jar' = [access |-> TRUE, refresh |-> tab[t].refresh.got]
            /\ tab[t].refresh.got # None,
         UNCHANGED session
  PROVE /\ Waits' /\ Issued' /\ Underway'
        /\ jar' \in [access: BOOLEAN, refresh: Session \cup {None}]
        /\ session' \in [Session -> SessionRow]
<1>1. /\ \A d \in Call : call'[d].pc = "refreshing" =>
           /\ ~Awaits(d, t) /\ call[d].pc = "refreshing"
           /\ call'[d].tab = call[d].tab
      /\ \A d \in Call : call'[d].got \in {call[d].got, None}
  BY DEF Released, Alike
<1>2. \A u \in Tab : /\ u # t => tab'[u].refresh = tab[u].refresh
                     /\ tab'[u].refresh.got \in {tab[u].refresh.got, None}
                     /\ tab'[u].refresh.shown \in {tab[u].refresh.shown, None}
  BY Blank DEF Released
<1>3. \A s \in Session \cup {None} : State(s)' = State(s)
  BY DEF State
<1>4. Waits'
  BY <1>1, <1>2, Kinds DEF BrowserInv, Waits, Awaits, RowOK
<1>5. jar'.refresh \in {jar.refresh, tab[t].refresh.got}
  OBVIOUS
<1>6. Issued'
  BY <1>1, <1>2, <1>3, <1>5, Kinds DEF BrowserInv, Issued
<1>7. Underway'
  <2>1. ASSUME NEW m \in Session, Unlanded(m),
               \/ \E d \in Call : call'[d].got = m
               \/ \E u \in Tab : tab'[u].refresh.got = m
        PROVE Unlanded(m)'
    <3>1. m # None
      BY Kinds
    <3>2. m # tab[t].refresh.got
      <4>1. CASE \E d \in Call : call'[d].got = m
        BY <1>1, <3>1, <4>1, Different
      <4>2. CASE \E u \in Tab : tab'[u].refresh.got = m
        <5>1. PICK u \in Tab : tab'[u].refresh.got = m
          BY <4>2
        <5>2. u # t /\ tab[u].refresh.got = m
          BY <1>2, <3>1, <5>1, Blank DEF Released
        <5>. QED  BY <3>1, <5>2, Different
      <4>. QED  BY <2>1, <4>1, <4>2
    <3>. QED  BY <1>2, <1>3, <1>5, <2>1, <3>1, <3>2 DEF Unlanded
  <2>. QED  BY <1>1, <1>2, <2>1, FewerUnderway
<1>8. /\ jar' \in [access: BOOLEAN, refresh: Session \cup {None}]
      /\ session' \in [Session -> SessionRow]
  <2>1. PICK n \in Session \cup {None} : n = tab[t].refresh.got
    BY Kinds
  <2>2. /\ jar \in [access: BOOLEAN, refresh: Session \cup {None}]
        /\ session \in [Session -> SessionRow]
    BY DEF BrowserInv
  <2>3. [access |-> TRUE, refresh |-> n]
           \in [access: BOOLEAN, refresh: Session \cup {None}]
    BY <2>1
  <2>4. jar' \in {jar, [access |-> TRUE, refresh |-> n]} /\ session' = session
    BY <2>1
  <2>. QED  BY <2>2, <2>3, <2>4
<1>. QED  BY <1>4, <1>6, <1>7, <1>8

LEMMA RefreshLandsKeeps ==
  ASSUME BrowserInv, NEW t \in Tab, RefreshLands(t)
  PROVE BrowserInv'
<1>1. /\ tab[t].refresh.stage = "answered" /\ tab[t].refresh.got # None
      /\ jar' = [access |-> TRUE, refresh |-> tab[t].refresh.got]
      /\ Retry(t) /\ calm' = calm \cap {c \in Call : Awaits(c, t)}
      /\ UNCHANGED <<session, crossed, reused>>
  BY DEF RefreshLands, Refreshing, Disturbs
<1>2. /\ Released(t)
      /\ \A d \in Call : Awaits(d, t) => /\ call'[d].pc = "asking"
                                         /\ call'[d].op = call[d].op
  BY <1>1, RetryReleases
<1>3. /\ Waits' /\ Issued' /\ Underway'
      /\ jar' \in [access: BOOLEAN, refresh: Session \cup {None}]
      /\ session' \in [Session -> SessionRow]
  BY <1>1, <1>2, ReleasedKeeps
<1>4. ASSUME ~crossed'
      PROVE Uncrossed'
  <2>1. Uncrossed /\ State(tab[t].refresh.got) # "rotated"
    BY <1>1, <1>4, Different DEF BrowserInv, Unlanded
  <2>2. \A s \in Session \cup {None} : State(s)' = State(s)
    BY <1>1 DEF State
  <2>3. /\ tab'[t].refresh.stage = "none" /\ tab'[t].refresh.shown = None
        /\ \A u \in Tab : u # t => tab'[u].refresh = tab[u].refresh
    BY <1>2, Blank DEF Released
  <2>. QED  BY <1>1, <2>1, <2>2, <2>3, Kinds DEF Uncrossed
<1>5. Calm'
  <2>1. ASSUME NEW c \in calm'
        PROVE c \in Call /\ Recovering(c)'
    <3>1. /\ c \in Call /\ call[c].op \in {"click", "password"} /\ Awaits(c, t)
      BY <1>1, <2>1 DEF BrowserInv, Calm, Recovering
    <3>. QED  BY <1>1, <1>2, <3>1 DEF Recovering
  <2>. QED  BY <2>1 DEF Calm
<1>6. ReuseHasCause' /\ crossed' \in BOOLEAN /\ reused' \in BOOLEAN
  BY <1>1 DEF BrowserInv, ReuseHasCause
<1>. QED  BY <1>2, <1>3, <1>4, <1>5, <1>6 DEF BrowserInv, Released

LEMMA RefreshFailsKeeps ==
  ASSUME BrowserInv, NEW t \in Tab, RefreshFails(t) \/ RefreshLost(t)
  PROVE BrowserInv'
<1>1. GiveUp(t) /\ UNCHANGED <<jar, session, reused>>
  BY DEF RefreshFails, RefreshLost
<1>2. /\ Released(t)
      /\ \A d \in Call : ~Awaits(d, t) => call'[d] = call[d]
  BY <1>1, GiveUpReleases
<1>3. /\ Waits' /\ Issued' /\ Underway'
      /\ jar' \in [access: BOOLEAN, refresh: Session \cup {None}]
      /\ session' \in [Session -> SessionRow]
  BY <1>1, <1>2, ReleasedKeeps
<1>4. ASSUME ~crossed'
      PROVE Uncrossed'
  <2>1. RefreshFails(t) /\ ~crossed
    BY <1>4 DEF RefreshFails, RefreshLost
  <2>2. Uncrossed /\ tab[t].refresh.got = None
    BY <2>1 DEF BrowserInv, RefreshFails
  <2>3. \A s \in Session \cup {None} : State(s)' = State(s)
    BY <1>1 DEF State
  <2>4. /\ tab'[t].refresh.stage = "none" /\ tab'[t].refresh.shown = None
        /\ \A u \in Tab : u # t => tab'[u].refresh = tab[u].refresh
    BY <1>2, Blank DEF Released
  <2>. QED  BY <1>1, <2>2, <2>3, <2>4, Kinds DEF Uncrossed
<1>5. Calm'
  <2>1. CASE RefreshFails(t)
    <3>1. ASSUME NEW c \in calm
          PROVE c \in Call /\ Recovering(c)'
      <4>1. /\ tab[t].refresh.stage = "answered" /\ tab[t].refresh.got = None
            /\ c \in Call /\ Recovering(c) /\ RowOK(call[c])
        BY <2>1, Kinds DEF BrowserInv, Calm, RefreshFails, Refreshing
      <4>2. ~Awaits(c, t)
        BY <4>1 DEF Recovering, Awaits
      <4>3. call'[c] = call[c]
        BY <1>2, <4>1, <4>2
      <4>4. CASE call[c].pc = "refreshing"
        <5>1. PICK u \in Tab : u = call[c].tab /\ u # t
          BY <4>1, <4>2, <4>4 DEF RowOK, Awaits
        <5>2. tab'[u].refresh = tab[u].refresh
          BY <1>2, <5>1 DEF Released
        <5>. QED
          BY <1>1, <4>1, <4>3, <4>4, <5>1, <5>2 DEF Recovering, State
      <4>5. CASE call[c].pc # "refreshing"
        BY <1>1, <4>1, <4>3, <4>5 DEF Recovering
      <4>. QED  BY <4>1, <4>4, <4>5
    <3>. QED  BY <2>1, <3>1 DEF RefreshFails, Calm
  <2>2. CASE RefreshLost(t)
    BY <2>2 DEF RefreshLost, Disturbs, Calm
  <2>. QED  BY <2>1, <2>2
<1>6. ReuseHasCause' /\ crossed' \in BOOLEAN /\ reused' \in BOOLEAN
  BY <1>1 DEF BrowserInv, ReuseHasCause, RefreshFails, RefreshLost
<1>. QED  BY <1>2, <1>3, <1>4, <1>5, <1>6 DEF BrowserInv, Released

-----------------------------------------------------------------------------
(* The theorems. *)

LEMMA InitInv ==
  ASSUME Init
  PROVE BrowserInv
<1>1. \A c \in Call : call[c] = IdleCall(None)
  BY DEF Init
<1>2. PICK i : i = IdleCall(None)
  OBVIOUS
<1>3. /\ i \in CallRow /\ i.pc = "idle" /\ i.executed = 0 /\ i.got = None
      /\ i.answer = "none"
  BY <1>2, IdleRow
<1>4. Rows
  BY <1>1, <1>2, <1>3 DEF Init, Rows, RowOK
<1>5. /\ tab \in [Tab -> TabRow]
      /\ \A t \in Tab : tab[t].refresh = NoRefresh
  BY Blank DEF Init, TabRow, RefreshOK
<1>6. Tabs
  BY <1>5, Blank DEF Tabs
<1>7. /\ jar \in [access: BOOLEAN, refresh: Session \cup {None}]
      /\ jar.refresh = None
  BY JarEmptied DEF Init
<1>8. session \in [Session -> SessionRow]
  BY DEF Init, Absent, SessionRow
<1>9. Waits /\ Issued /\ Underway /\ Uncrossed
  BY <1>1, <1>2, <1>3, <1>5, <1>7, Blank
     DEF Waits, Issued, Underway, Uncrossed
<1>10. /\ ReuseHasCause /\ Calm /\ crossed \in BOOLEAN /\ reused \in BOOLEAN
  BY DEF Init, ReuseHasCause, Calm
<1>. QED  BY <1>4, <1>6, <1>7, <1>8, <1>9, <1>10 DEF BrowserInv

LEMMA StepInv ==
  ASSUME BrowserInv, [Next]_vars
  PROVE BrowserInv'
<1>1. CASE UserNext
  <2>1. ASSUME NEW c \in Call, NEW t \in Tab,
               \/ Click(c, t) \/ LogIn(c, t) \/ LogOut(c, t)
               \/ ChangePassword(c, t) \/ Visit(c, t)
        PROVE BrowserInv'
    <3>1. \E op \in Op : Begin(c, t, op)
      BY <2>1 DEF Click, LogIn, LogOut, ChangePassword, Visit, Op
    <3>. QED  BY <3>1, BeginKeeps
  <2>2. CASE (\E s \in Session : RevokeSession(s)) \/ AccessExpires \/ TokenExpires
    BY <2>2, ClockKeeps
  <2>3. CASE \E t \in Tab : Reload(t)
    BY <2>3, ReloadKeeps
  <2>. QED  BY <1>1, <2>1, <2>2, <2>3 DEF UserNext
<1>2. ASSUME NEW c \in Call, CallNext(c)
      PROVE BrowserInv'
  <2>1. CASE ServerCall(c)
    BY <2>1, ServerRefusesKeeps, ServerClickKeeps, ServerEndsKeeps,
       ServerLoginKeeps DEF ServerCall
  <2>2. CASE Lands(c)
    BY <2>2, AnswerDoneKeeps, AnswerMeKeeps, AnswerLogoutKeeps,
       AnswerPasswordKeeps, AnswerRefusedKeeps, AnswerRecoversKeeps,
       AnswerLoginKeeps, TokenLandsKeeps, TokenParsedKeeps DEF Lands
  <2>3. CASE CallLost(c)
    BY <2>3, CallLostKeeps
  <2>. QED  BY <1>2, <2>1, <2>2, <2>3 DEF CallNext
<1>3. ASSUME NEW t \in Tab, RefreshNext(t)
      PROVE BrowserInv'
  BY <1>3, RefreshGoesOn, RefreshCommitKeeps, RefreshLandsKeeps,
     RefreshFailsKeeps DEF RefreshNext
<1>4. CASE UNCHANGED vars
  BY <1>4, ReloadKeeps
<1>. QED  BY <1>1, <1>2, <1>3, <1>4 DEF Next

\* The inductive invariant of the web client, its tabs and its jar.
THEOREM BrowserInvariant == Spec => []BrowserInv
<1>1. Init => BrowserInv
  BY InitInv
<1>2. BrowserInv /\ [Next]_vars => BrowserInv'
  BY StepInv
<1>. QED  BY <1>1, <1>2, PTL DEF Spec

\* client.ts:85-97: one click is carried out once at most.
THEOREM ClickedOnce == Spec => []AtMostOnce
<1>1. BrowserInv => AtMostOnce
  <2>. SUFFICES ASSUME BrowserInv, NEW c \in Call
                PROVE call[c].executed <= 1
    BY DEF AtMostOnce
  <2>1. call[c].executed = 0 \/ call[c].executed = 1
    BY Kinds DEF RowOK
  <2>. QED  BY <2>1
<1>. QED  BY <1>1, BrowserInvariant, PTL

\* client.ts:56-66: within a tab the shared promise keeps a spent token from
\* being shown again; only a lost answer or another tab can bring that about.
THEOREM SpentIsShownForACause == Spec => []ReuseHasCause
<1>1. BrowserInv => ReuseHasCause
  BY DEF BrowserInv
<1>. QED  BY <1>1, BrowserInvariant, PTL

\* client.ts:85-97: a recovery that nothing disturbs does not end refused.
THEOREM UndisturbedRecovers == Spec => []RecoveryWorks
<1>1. BrowserInv => RecoveryWorks
  BY DEF BrowserInv, Calm, Recovering, RecoveryWorks
<1>. QED  BY <1>1, BrowserInvariant, PTL

\* client.ts, stores/auth.ts: shapes, and whoever waits for a refresh waits for
\* one that is under way.
THEOREM BrowserTypeCorrect == Spec => []TypeOK
<1>1. BrowserInv => TypeOK
  <2>. SUFFICES ASSUME BrowserInv
                PROVE TypeOK
    OBVIOUS
  <2>1. \A c \in Call, t \in Tab : Awaits(c, t) => ~Refreshing(t, "none")
    BY DEF BrowserInv, Waits, Awaits, Refreshing
  <2>2. /\ tab \in [Tab -> TabRow] /\ call \in [Call -> CallRow]
        /\ session \in [Session -> SessionRow] /\ calm \subseteq Call
        /\ jar \in [access: BOOLEAN, refresh: Session \cup {None}]
        /\ crossed \in BOOLEAN /\ reused \in BOOLEAN
    BY DEF BrowserInv, Tabs, Rows, Calm
  <2>. QED  BY <2>1, <2>2 DEF TypeOK, TabRow, CallRow, SessionRow, RefreshRow
<1>. QED  BY <1>1, BrowserInvariant, PTL
=============================================================================
