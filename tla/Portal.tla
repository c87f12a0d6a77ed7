------------------------------- MODULE Portal --------------------------------
(***************************************************************************)
(* One user at the pages of the web client, with the API behind it and      *)
(* others at work on the same data.  The module follows one row of the      *)
(* database, any one: what a page shows of it, which buttons it draws for   *)
(* it, and what the API says when one is pressed.                           *)
(*                                                                          *)
(* A page keeps what its last load told it until the next one; loads are    *)
(* not numbered, so an earlier load that is answered later wins.  Browser   *)
(* has the cookies and tokens of the calls; here a call is answered by its  *)
(* permissions and its row.                                                 *)
(***************************************************************************)
EXTENDS Api, Views, Naturals, Sequences, FiniteSets

CONSTANTS
  Viewer,         \* the roles that the user may have
  Kind,           \* the kinds of row to follow
  Call,           \* bound: calls in progress at once
  MaxPieceCalls,  \* bound: the same when the row is a piece
  PlainKind,      \* bound: kinds of row beside which a PlainPage is visited
  Nothing         \* no row, JavaScript null

VARIABLES
  role,     \* of the user, in the token and in the store alike
  row,      \* the row, in the database
  page, tab,
  shown,    \* what the page shows of the row
  loading,  \* loading.value: a spinner instead of the rows
  dialog,   \* showCreate.value
  choice,   \* what the dialog's list shows of the row
  busy,     \* busy.value or busyId.value ("row"), creating.value ("form")
  call      \* calls that a page has made

vars ==
  <<role, row, page, tab, shown, loading, dialog, choice, busy, call>>

\* What a page can tell about the row, and whether that is still how it is.
Look(r, t) ==
  [status |-> r.status, own |-> r.kind = "service" /\ r.tie = "requester",
   tab |-> t, fresh |-> TRUE]

Picture ==
  [status : {r.status : r \in Row}, own : BOOLEAN,
   tab : {"incoming", "outgoing", "all"}, fresh : BOOLEAN]

Snapshot == Picture \cup {Nothing}

ASSUME PortalAssumption ==
  Viewer \subseteq Role /\ MaxPieceCalls \in Nat /\ Nothing \notin Picture

Aged(snapshot) ==
  IF snapshot = Nothing THEN Nothing ELSE [snapshot EXCEPT !.fresh = FALSE]

\* The handler that calls: a page that loads, openCreate() of its dialog, the
\* submit of the dialog, a button of the row, another button, and
\* regenerateQr() in its second half.
Handler == {"page", "dialog", "form", "row", "tool", "qr"}

IdleCall ==
  [pc |-> "idle", of |-> "page", route |-> "", load |-> FALSE, about |-> FALSE,
   fresh |-> FALSE, live |-> FALSE, seen |-> Nothing]

\* about: it names the row; fresh: which is as the user saw it then; live: the
\* page is still there; seen: what the answer says of the row.
Sent(of, route, about, fresh) ==
  [pc |-> "sent", of |-> of, route |-> route, load |-> FALSE, about |-> about,
   fresh |-> fresh, live |-> TRUE, seen |-> Nothing]

\* load() of a page, by itself or as the end of a handler.
LoadOf(of, p, t, fresh) ==
  [Sent(of, View(p, t).load, p = "piece-detail", fresh) EXCEPT !.load = TRUE]

TabOf(route) ==
  CASE route = transfersApi.incoming -> "incoming"
    [] route = transfersApi.outgoing -> "outgoing"
    [] route = transfersApi.all -> "all"
    [] OTHER -> tab

Loads(p) == p \notin {"dashboard", "verify-public"}

\* A slot for another call when these are in progress.
Slot(calls, c) ==
  /\ c \notin calls
  /\ row.kind = "piece" => Cardinality(calls) < MaxPieceCalls
Idle(c) == Slot({d \in Call : call[d].pc # "idle"}, c)
Form_ == View(page, tab).form

\* The component is gone, and with it everything it would do with an answer:
\* what is left are the acts that have yet to reach the API, and regenerateQr().
Outlives(c) ==
  \/ call[c].pc = "sent" /\ call[c].about /\ ~call[c].load
  \/ call[c].of = "qr"
  \/ call[c].route = piecesApi.regenerateQr /\ call[c].pc = "served"
Left ==
  [c \in Call |->
     IF Outlives(c) THEN [call[c] EXCEPT !.live = FALSE, !.fresh = FALSE, !.seen = Nothing]
     ELSE IdleCall]

\* A row is drawn when its page is not loading; a piece's page draws its
\* buttons all the same.
Drawn == shown # Nothing /\ (loading => page = "piece-detail")

-----------------------------------------------------------------------------
(* The user                                                                 *)

\* A fresh component; with its first load() if it has one.
Mounted(c, p, fresh) ==
  /\ page' = p /\ tab' = StartTab(role)
  /\ shown' = Nothing /\ dialog' = FALSE /\ choice' = Nothing /\ busy' = {}
  /\ loading' = Loads(p)
  /\ IF Loads(p)
       THEN /\ Slot({d \in Call : Outlives(d)}, c)
            /\ call' = [Left EXCEPT ![c] = LoadOf("page", p, StartTab(role), fresh)]
       ELSE call' = Left
  /\ UNCHANGED <<role, row>>

\* Pages that neither show the row nor pick it, whatever its kind.
PlainPage == {"products", "claims", "webhooks", "profile"}

\* By the menu, a link or the address bar: the guard of the router decides
\* where it ends.  A piece's page is followed when the row is that piece.
Destinations ==
  {Guarded(role, p) : p \in
     Page \ ((IF row.kind = "piece" THEN {} ELSE {"piece-detail"})
                \cup (IF row.kind \in PlainKind THEN {} ELSE PlainPage))}
Open(c, p) == Mounted(c, p, FALSE)

\* A click on the row in the list of pieces.
OpenPiece(c) ==
  /\ page = "pieces" /\ row.kind = "piece" /\ Drawn
  /\ Mounted(c, "piece-detail", shown.fresh)

\* switchTab, and the handler in the template for "all".
SwitchTab(c, t) ==
  /\ page = "transfers" /\ t \in TransfersTabs(role) /\ Idle(c)
  /\ tab' = t /\ loading' = TRUE
  /\ call' = [call EXCEPT ![c] = LoadOf("page", page, t, FALSE)]
  /\ UNCHANGED <<role, row, page, shown, dialog, choice, busy>>

\* A filter, a search or another page of the list.
Reload(c) ==
  /\ Loads(page) /\ page \notin {"piece-detail", "profile"} /\ Idle(c)
  /\ loading' = TRUE
  /\ call' = [call EXCEPT ![c] = LoadOf("page", page, tab, FALSE)]
  /\ UNCHANGED <<role, row, page, tab, shown, dialog, choice, busy>>

\* act(), run(), revoke(), download(), openDetail(), markRead() and the like.
\* What was loaded for another tab does not tell what this tab's buttons can do.
Press(c) ==
  /\ Drawn /\ "row" \notin busy /\ Idle(c)
  /\ busy' = IF page = "notifications" THEN busy ELSE busy \cup {"row"}
  /\ \E button \in Buttons(role, page, tab, shown) :
       call' = [call EXCEPT ![c] = Sent("row", button, TRUE,
                                          shown.fresh /\ shown.tab = tab)]
  /\ UNCHANGED <<role, row, page, tab, shown, loading, dialog, choice>>

Use(c) ==
  /\ Loads(page) /\ Idle(c)
  /\ \E tool \in View(page, tab).tools :
       call' = [call EXCEPT ![c] = Sent("tool", tool, FALSE, FALSE)]
  /\ UNCHANGED <<role, row, page, tab, shown, loading, dialog, choice, busy>>

\* openCreate(): the first thing that it loads, or at once.
OpenForm(c) ==
  /\ Loads(page) /\ Holds(role, Form_.button) /\ ~dialog
  /\ IF Form_.loads = <<>>
       THEN dialog' = TRUE /\ UNCHANGED call
       ELSE /\ Idle(c)
            /\ call' = [call EXCEPT ![c] =
                          Sent("dialog", Head(Form_.loads), FALSE, FALSE)]
            /\ UNCHANGED dialog
  /\ UNCHANGED <<role, row, page, tab, shown, loading, choice, busy>>

CloseForm ==
  /\ dialog /\ dialog' = FALSE
  /\ UNCHANGED <<role, row, page, tab, shown, loading, choice, busy, call>>

\* A form that picks a piece is followed when it picks the row.
Submit(c) ==
  /\ dialog /\ "form" \notin busy /\ Idle(c)
  /\ Form_.pieces # {} =>
       choice # Nothing /\ choice.status \in Form_.pieces
  /\ busy' = busy \cup {"form"}
  /\ call' = [call EXCEPT ![c] =
                Sent("form", Form_.posts, Form_.pieces # {},
                     Form_.pieces # {} /\ choice.fresh)]
  /\ UNCHANGED <<role, row, page, tab, shown, loading, dialog, choice>>

-----------------------------------------------------------------------------
(* The API                                                                  *)

Accepted(c) ==
  /\ LetIn(role, call[c].route)
  /\ call[c].about => Takes(role, call[c].route, row)

\* Snapshots that are somewhere else than in the answer to c are out of date
\* once the row has changed.
Changes(c) ==
  IF row' = row
    THEN UNCHANGED <<shown, choice>>
    ELSE shown' = Aged(shown) /\ choice' = Aged(choice)

CallsAged ==
  [c \in Call |-> [call[c] EXCEPT !.seen = Aged(@), !.fresh = FALSE]]

\* A list is answered with the row if it shows it, an act with what it left.
Serve(c) ==
  /\ call[c].pc = "sent" /\ Accepted(c)
  /\ row' \in IF call[c].about THEN After(call[c].route, row) ELSE {row}
  /\ Changes(c)
  /\ call' =
       [(IF row' = row THEN call ELSE CallsAged) EXCEPT
          ![c].pc = "served", ![c].fresh = FALSE,
          ![c].seen =
            IF call[c].about \/ Shows(role, call[c].route, row')
              THEN Look(row', TabOf(call[c].route)) ELSE Nothing]
  /\ UNCHANGED <<role, page, tab, loading, dialog, busy>>

Refuse(c) ==
  /\ call[c].pc = "sent" /\ ~Accepted(c)
  /\ call' = [call EXCEPT ![c].pc = "refused", ![c].fresh = FALSE]
  /\ UNCHANGED <<role, row, page, tab, shown, loading, dialog, choice, busy>>

\* The row as others leave it, or as time does.
Moves ==
  CASE row.kind = "piece" ->
         {r \in PieceRow :
            \/ r.tie = row.tie /\ r.bar = row.bar
            \/ r.status = row.status /\ (r.tie = row.tie \/ r.bar = row.bar)}
    [] row.kind = "transfer" ->
         {r \in TransferRow : r.tie = row.tie /\ row.status = "PENDING"}
    [] row.kind = "incident" ->
         {r \in IncidentRow :
            r.tie = row.tie /\ row.status \in {"ACTIVE", "UNDER_REVIEW"}}
    [] row.kind = "certificate" ->
         {r \in CertificateRow : row.status = "REVOKED" => r.status = "REVOKED"}
    [] row.kind = "service" ->
         {r \in ServiceRow :
            /\ r.tie = row.tie
            /\ r.status \in
                 CASE row.status = "REQUESTED" ->
                        {"IN_PROGRESS", "COMPLETED", "CANCELLED"}
                   [] row.status = "IN_PROGRESS" -> {"COMPLETED"}
                   [] OTHER -> {}}
    [] row.kind = "notice" -> {[row EXCEPT !.status = "READ"]}

OthersAct ==
  /\ \E r \in Moves \ {row} : row' = r
  /\ shown' = Aged(shown) /\ choice' = Aged(choice)
  /\ call' = CallsAged
  /\ UNCHANGED <<role, page, tab, loading, dialog, busy>>

-----------------------------------------------------------------------------
(* Answers                                                                  *)

Over(c) == call' = [call EXCEPT ![c] = IdleCall]

\* The handler goes on to load().
Then(c, of) ==
  /\ loading' = TRUE
  /\ call' = [call EXCEPT ![c] = LoadOf(of, page, tab, FALSE)]

Answered(c) == call[c].pc \in {"served", "refused"}

\* The page has been left.  Only regenerateQr() does something then.
Dropped(c) ==
  /\ Answered(c) /\ ~call[c].live /\ call[c].of # "qr"
  /\ ~(call[c].route = piecesApi.regenerateQr /\ call[c].pc = "served")
  /\ Over(c)
  /\ UNCHANGED <<role, row, page, tab, shown, loading, dialog, choice, busy>>

\* Mutant: what follows the call, in place of finally.
RefusedKeepsBusy(c) ==
  /\ call[c].pc = "refused" /\ call[c].live /\ call[c].of # "qr"
  /\ loading' = (loading /\ ~call[c].load)
  /\ Over(c)
  /\ UNCHANGED <<role, row, page, tab, shown, dialog, choice, busy>>

\* catch, or the end of load(), and finally.
LandsRefused(c) ==
  /\ call[c].pc = "refused" /\ call[c].live /\ call[c].of # "qr"
  /\ loading' = (loading /\ ~call[c].load)
  /\ busy' = busy \ {call[c].of}
  /\ Over(c)
  /\ UNCHANGED <<role, row, page, tab, shown, dialog, choice>>

LandsLoad(c) ==
  /\ call[c].pc = "served" /\ call[c].live /\ call[c].load /\ call[c].of # "qr"
  /\ shown' = call[c].seen /\ loading' = FALSE
  /\ busy' = busy \ {call[c].of}
  /\ Over(c)
  /\ UNCHANGED <<role, row, page, tab, dialog, choice>>

\* openCreate() after one of its loads: the next one, or the dialog.
LandsDialog(c) ==
  LET loads == Form_.loads
      i == CHOOSE j \in DOMAIN loads : loads[j] = call[c].route IN
  /\ call[c].pc = "served" /\ call[c].live /\ call[c].of = "dialog"
  /\ choice' = IF call[c].route = piecesApi.list THEN call[c].seen ELSE choice
  /\ IF i < Len(loads)
       THEN /\ call' = [call EXCEPT ![c] =
                          Sent("dialog", loads[i + 1], FALSE, FALSE)]
            /\ UNCHANGED dialog
       ELSE dialog' = TRUE /\ Over(c)
  /\ UNCHANGED <<role, row, page, tab, shown, loading, busy>>

\* The dialog closes, or shows its result in place of the form.
LandsForm(c) ==
  /\ call[c].pc = "served" /\ call[c].live /\ call[c].of = "form"
  /\ ~call[c].load
  /\ dialog' = FALSE
  /\ Then(c, "form")
  /\ UNCHANGED <<role, row, page, tab, shown, choice, busy>>

\* What the handlers of a row's buttons do with the answer.
Replacing ==
  {transfersApi.accept, transfersApi.reject, transfersApi.cancel,
   notificationsApi.markRead, notificationsApi.markAllRead}
Reloading ==
  {piecesApi.updateStatus, piecesApi.retire, certificatesApi.revoke,
   servicesApi.start, servicesApi.complete, servicesApi.cancel,
   webhooksApi.update, webhooksApi.remove, usersApi.revokeSession}

\* act() and the marks of notices put the new row in the place of the old one;
\* marking all empties the list when it is one of the unread.
LandsReplaced(c) ==
  /\ call[c].pc = "served" /\ call[c].live /\ call[c].route \in Replacing
  /\ shown' \in {IF shown = Nothing THEN Nothing
                 ELSE [call[c].seen EXCEPT !.tab = shown.tab]} \cup
                IF call[c].route = notificationsApi.markAllRead
                  THEN {Nothing} ELSE {}
  /\ busy' = busy \ {"row"}
  /\ Over(c)
  /\ UNCHANGED <<role, row, page, tab, loading, dialog, choice>>

LandsReloading(c) ==
  /\ call[c].pc = "served" /\ call[c].live /\ ~call[c].load
  /\ call[c].route \in Reloading
  /\ Then(c, call[c].of)
  /\ UNCHANGED <<role, row, page, tab, shown, dialog, choice, busy>>

\* download(), openDetail(), rotate(), openDeliveries(), saveProfile().
LandsDone(c) ==
  /\ call[c].pc = "served" /\ call[c].live /\ ~call[c].load
  /\ call[c].of \in {"row", "tool"}
  /\ call[c].route \notin Replacing \cup Reloading \cup {piecesApi.regenerateQr}
  /\ busy' = busy \ {call[c].of}
  /\ Over(c)
  /\ UNCHANGED <<role, row, page, tab, shown, loading, dialog, choice>>

\* regenerateQr() goes on whatever became of its page.  Elsewhere the load()
\* that it waits for finds no piece in the route.
LandsQr(c) ==
  /\ call[c].pc = "served" /\ call[c].route = piecesApi.regenerateQr
  /\ IF call[c].live
       THEN Then(c, "qr")
       ELSE /\ call' = [call EXCEPT ![c] =
                          [LoadOf("qr", "piece-detail", tab, FALSE) EXCEPT
                             !.live = FALSE]]
            /\ UNCHANGED loading
  /\ UNCHANGED <<role, row, page, tab, shown, dialog, choice, busy>>

\* router.push to the public page of the piece.
Verify(c) ==
  /\ Answered(c) /\ call[c].of = "qr"
  /\ page' = "verify-public" /\ tab' = StartTab(role)
  /\ shown' = Nothing /\ loading' = FALSE /\ dialog' = FALSE
  /\ choice' = Nothing /\ busy' = {}
  /\ call' = [Left EXCEPT ![c] = IdleCall]
  /\ UNCHANGED <<role, row>>

\* busyId is one for all rows: the end of an act on another row clears it.
OtherRowDone ==
  /\ page \in {"transfers", "certificates", "services"} /\ "row" \in busy
  /\ busy' = busy \ {"row"}
  /\ UNCHANGED <<role, row, page, tab, shown, loading, dialog, choice, call>>

-----------------------------------------------------------------------------
Init ==
  /\ role \in Viewer /\ row \in {r \in Row : r.kind \in Kind}
  /\ page = "dashboard" /\ tab = StartTab(role)
  /\ shown = Nothing /\ loading = FALSE /\ dialog = FALSE /\ choice = Nothing
  /\ busy = {} /\ call = [c \in Call |-> IdleCall]

Navigate(c) ==
  \/ \E p \in Destinations \ {page} : Open(c, p)
  \/ OpenPiece(c)
  \/ \E t \in {"incoming", "outgoing", "all"} : SwitchTab(c, t)
  \/ Reload(c)

Act(c) ==
  \/ Press(c) \/ Use(c) \/ OpenForm(c) \/ Submit(c)

Lands(c) ==
  \/ Dropped(c) \/ LandsRefused(c) \/ LandsLoad(c) \/ LandsDialog(c)
  \/ LandsForm(c) \/ LandsReplaced(c) \/ LandsReloading(c) \/ LandsDone(c)
  \/ LandsQr(c) \/ Verify(c)

Next ==
  \/ \E c \in Call :
       Navigate(c) \/ Act(c) \/ Serve(c) \/ Refuse(c) \/ Lands(c)
  \/ CloseForm \/ OthersAct \/ OtherRowDone

Spec == Init /\ [][Next]_vars

-----------------------------------------------------------------------------
(* Properties                                                               *)

\* The state is of its type: whatever handlers and others leave is a row that
\* the store can hold, and only a call under way speaks of a row as it is.
TypeOK ==
  /\ role \in Viewer /\ row \in Row
  /\ page \in Page \cup {"verify-public"}
  /\ tab \in {"incoming", "outgoing", "all"}
  /\ shown \in Snapshot /\ choice \in Snapshot
  /\ loading \in BOOLEAN /\ dialog \in BOOLEAN
  /\ busy \subseteq {"row", "form"}
  /\ \A c \in Call :
       /\ call[c].pc \in {"idle", "sent", "served", "refused"}
       /\ call[c].of \in Handler /\ call[c].seen \in Snapshot
       /\ call[c].fresh => call[c].pc = "sent" /\ call[c].about

\* Where the client and the API are at odds: buttons and loads that are refused
\* though nobody did anything in between.
AtOdds(c) ==
  LET route == call[c].route IN
  \* The guarantees page is for who redeems, its list for who reads claims.
  \/ route = claimsApi.list /\ ~Holds(role, {"claims:read"})
  \* A customer's transfer needs the list of users, which is for who sells.
  \/ /\ route = usersApi.listActive /\ page = "transfers"
     /\ ~Holds(role, {"sales:create"})
  \* The tabs of who manages transfers are for who owns pieces.
  \/ /\ route \in {transfersApi.incoming, transfersApi.outgoing}
     /\ ~Holds(role, {"transfers:request", "transfers:accept", "transfers:reject"})
  \* POST where the API has a PATCH.
  \/ route = piecesApi.updateStatus
  \* The list shows a piece to who once owned it, its page does not.
  \/ route = piecesApi.detail /\ row.tie = "former"
  \* Offered for every piece that is not retired.
  \/ route = piecesApi.retire /\ row.status \in {"SOLD", "REPORTED_STOLEN"}
  \* Sold before, and back in stock by a recovered incident.
  \/ route = salesApi.create /\ row.bar = "sale"
  \* Owned, and freed by a service or an incident.
  \/ route = salesApi.create /\ row.tie # "unheld"
  \* These forms offer every piece that the user can list.
  \/ route \in {transfersApi.request, incidentsApi.create, servicesApi.create}
  \* PENDING and overdue, or offered by who no longer owns the piece.
  \/ row.kind = "transfer" /\ row.bar # "none"

\* A refusal tells the user something that the page could not know: the row is
\* no longer what the page shows, the answer was for another tab, the address
\* was typed, the page has been left; or it is one of those of AtOdds
\* (buttons of views/*.vue against the guards and checks of the API).
RefusalsExplained ==
  [][\A c \in Call :
       call[c].pc = "sent" /\ call'[c].pc = "refused" =>
         \/ ~call[c].live
         \/ call[c].about /\ ~call[c].fresh
         \/ AtOdds(c)]_vars

\* A spinner or a button that is switched off waits for a call that is still on
\* its way: no order of answers, refusals and changes of tab leaves one behind
\* (finally in every handler of views/*.vue).
NothingHangs ==
  /\ loading => \E c \in Call : call[c].live /\ call[c].load
  /\ \A what \in busy :
       \E c \in Call :
         /\ call[c].live /\ call[c].pc # "idle"
         /\ call[c].of = what \/ (what = "row" /\ call[c].of = "qr")

=============================================================================
