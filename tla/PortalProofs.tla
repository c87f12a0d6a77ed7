---------------------------- MODULE PortalProofs -----------------------------
(***************************************************************************)
(* Proofs about Portal, for every number of calls at once and every set of  *)
(* roles and kinds of row.                                                  *)
(***************************************************************************)
EXTENDS Portal, TLAPS

Tabs == {"incoming", "outgoing", "all"}
Kinds == {"piece", "transfer", "incident", "certificate", "service", "notice"}
LoadPage == Page \ {"dashboard"}

(* What the handlers of a page call. *)
LoadRoute ==
  {"GET /products", "GET /pieces", "GET /pieces/:id", "GET /sales",
   "GET /claims", "GET /transfers/incoming", "GET /transfers/outgoing",
   "GET /transfers", "GET /incidents", "GET /certificates", "GET /services",
   "GET /notifications", "GET /webhooks", "GET /users/me/sessions"}
DialogRoute == {"GET /products", "GET /pieces", "GET /users"}
PickingPost ==
  {"POST /sales", "POST /transfers", "POST /incidents", "POST /certificates",
   "POST /services"}
FormPost ==
  PickingPost \cup
    {"", "POST /products", "POST /pieces", "POST /claims/redeem",
     "POST /webhooks"}
ToolRoute ==
  {"PATCH /webhooks/:id", "POST /webhooks/:id/secret", "DELETE /webhooks/:id",
   "GET /webhooks/:id/deliveries", "PATCH /users/me",
   "DELETE /users/me/sessions/:id"}
RowRoute(kind) ==
  CASE kind = "piece" ->
         {"POST /pieces/:id/status", "POST /pieces/:id/qr/regenerate",
          "POST /pieces/:id/retire"}
    [] kind = "transfer" ->
         {"POST /transfers/:id/accept", "POST /transfers/:id/reject",
          "POST /transfers/:id/cancel"}
    [] kind = "incident" -> {"GET /incidents/:id"}
    [] kind = "certificate" ->
         {"GET /certificates/:id/download", "POST /certificates/:id/revoke"}
    [] kind = "service" ->
         {"POST /services/:id/start", "POST /services/:id/complete",
          "POST /services/:id/cancel"}
    [] kind = "notice" ->
         {"PATCH /notifications/:id/read", "PATCH /notifications/read-all"}

\* The routes of the calls that name a row of this kind.
AboutRoute(kind) ==
  RowRoute(kind) \cup
    IF kind = "piece" THEN PickingPost \cup {"GET /pieces/:id"} ELSE {}

Route ==
  LoadRoute \cup DialogRoute \cup FormPost \cup ToolRoute
    \cup UNION {RowRoute(kind) : kind \in Kinds}

\* The pages that show a row of this kind.
PagesOf(kind) ==
  CASE kind = "piece" -> {"pieces", "piece-detail"}
    [] kind = "transfer" -> {"transfers"}
    [] kind = "incident" -> {"incidents"}
    [] kind = "certificate" -> {"certificates"}
    [] kind = "service" -> {"services"}
    [] kind = "notice" -> {"notifications"}

CallRecord ==
  [pc : {"idle", "sent", "served", "refused"}, of : Handler, route : Route,
   load : BOOLEAN, about : BOOLEAN, fresh : BOOLEAN, live : BOOLEAN,
   seen : Snapshot]

\* Whose call it is tells what it calls.
Origin(kind, k) ==
  \/ k.load /\ k.of # "dialog" /\ k.route \in LoadRoute
  \/ k.pc = "idle" /\ k.of = "page"
  \/ ~k.load /\ k.of = "form" /\ k.route \in FormPost
  \/ ~k.load /\ k.of = "dialog" /\ k.route \in DialogRoute /\ ~k.about
  \/ ~k.load /\ k.of = "row" /\ k.route \in RowRoute(kind) /\ k.about
  \/ ~k.load /\ k.of = "tool" /\ k.route \in ToolRoute /\ ~k.about

\* What a call is while its page p is there: its
\* page is the one that called it, and its answer has the row if it names it.
Bound(p, k) ==
  /\ p \in LoadPage
  /\ k.pc = "served" /\ k.about => k.seen # Nothing
  /\ k.load => \E t \in Tabs : k.route = View(p, t).load
  /\ k.of = "dialog" =>
       \A t \in Tabs :
         \E i \in DOMAIN View(p, t).form.loads :
           k.route = View(p, t).form.loads[i]

Shape(kind, p, k) ==
  /\ k \in CallRecord
  /\ k.pc = "idle" => ~k.live
  /\ k.fresh => k.pc = "sent" /\ k.about
  /\ Origin(kind, k)
  /\ k.about => k.route \in AboutRoute(kind)
  /\ k.seen # Nothing => k.about \/ k.route \in Lists(kind)
  /\ k.live => Bound(p, k)

Calls ==
  /\ call \in [Call -> CallRecord]
  /\ \A c \in Call : Shape(row.kind, page, call[c])

\* A page shows rows of its own kind, and dialogs offer pieces.
Pages ==
  /\ page = "piece-detail" => row.kind = "piece"
  /\ shown # Nothing => page \in PagesOf(row.kind)
  /\ choice # Nothing => row.kind = "piece"
  /\ dialog => page \in LoadPage

\* What TypeOK says of everything but the calls.
Fields ==
  /\ role \in Viewer /\ row \in Row
  /\ page \in Page \cup {"verify-public"} /\ tab \in Tabs
  /\ shown \in Snapshot /\ choice \in Snapshot
  /\ loading \in BOOLEAN /\ dialog \in BOOLEAN
  /\ busy \subseteq {"row", "form"}

\* The inductive invariant.
PortalInv == Fields /\ Calls /\ Pages /\ NothingHangs

\* A call that the spinner waits for, and one that a button waits for.
Spins(k) == k.live /\ k.load
Waits(k, what) ==
  /\ k.live /\ k.pc # "idle"
  /\ k.of = what \/ (what = "row" /\ k.of = "qr")

-----------------------------------------------------------------------------
(* The pages                                                                *)

\* What each page loads.
LEMMA LoadsOfPages ==
  ASSUME NEW p, NEW t \in Tabs
  PROVE /\ p = "products" => View(p, t).load = "GET /products"
        /\ p = "pieces" => View(p, t).load = "GET /pieces"
        /\ p = "piece-detail" => View(p, t).load = "GET /pieces/:id"
        /\ p = "sales" => View(p, t).load = "GET /sales"
        /\ p = "claims" => View(p, t).load = "GET /claims"
        /\ p = "incidents" => View(p, t).load = "GET /incidents"
        /\ p = "certificates" => View(p, t).load = "GET /certificates"
        /\ p = "services" => View(p, t).load = "GET /services"
        /\ p = "notifications" => View(p, t).load = "GET /notifications"
        /\ p = "webhooks" => View(p, t).load = "GET /webhooks"
        /\ p = "profile" => View(p, t).load = "GET /users/me/sessions"
        /\ p = "transfers" => View(p, t).load =
             IF t = "incoming" THEN "GET /transfers/incoming"
             ELSE IF t = "outgoing" THEN "GET /transfers/outgoing"
             ELSE "GET /transfers"
<1>1. p = "products" => View(p, t).load = "GET /products"
  BY DEF View, ProductsPage, productsApi
<1>2. p = "pieces" => View(p, t).load = "GET /pieces"
  BY DEF View, PiecesPage, piecesApi
<1>3. p = "piece-detail" => View(p, t).load = "GET /pieces/:id"
  BY DEF View, PieceDetailPage, piecesApi
<1>4. p = "sales" => View(p, t).load = "GET /sales"
  BY DEF View, SalesPage, salesApi
<1>5. p = "claims" => View(p, t).load = "GET /claims"
  BY DEF View, ClaimsPage, claimsApi
<1>6. p = "incidents" => View(p, t).load = "GET /incidents"
  BY DEF View, IncidentsPage, incidentsApi
<1>7. p = "certificates" => View(p, t).load = "GET /certificates"
  BY DEF View, CertificatesPage, certificatesApi
<1>8. p = "services" => View(p, t).load = "GET /services"
  BY DEF View, ServicesPage, servicesApi
<1>9. p = "notifications" => View(p, t).load = "GET /notifications"
  BY DEF View, NotificationsPage, notificationsApi
<1>10. p = "webhooks" => View(p, t).load = "GET /webhooks"
  BY DEF View, WebhooksPage, webhooksApi
<1>11. p = "profile" => View(p, t).load = "GET /users/me/sessions"
  BY DEF View, ProfilePage, usersApi
<1>12. p = "transfers" => View(p, t).load =
         IF t = "incoming" THEN "GET /transfers/incoming"
         ELSE IF t = "outgoing" THEN "GET /transfers/outgoing"
         ELSE "GET /transfers"
  BY DEF Tabs, View, TransfersPage, transfersApi
<1> QED
  BY <1>1, <1>2, <1>3, <1>4, <1>5, <1>6, <1>7, <1>8, <1>9, <1>10, <1>11, <1>12

\* A page's load is answered with the rows that the page shows.
LEMMA PageLoads ==
  ASSUME NEW p \in LoadPage, NEW t \in Tabs
  PROVE /\ View(p, t).load \in LoadRoute
        /\ \A kind \in Kinds : View(p, t).load \in Lists(kind)
             => p \in PagesOf(kind)
        /\ View(p, t).load = "GET /pieces/:id" <=> p = "piece-detail"
<1>2. p \in {"products", "pieces", "piece-detail", "sales", "claims",
             "transfers", "incidents", "certificates", "services",
             "notifications", "webhooks", "profile"}
  BY DEF LoadPage, Page
<1>3. View(p, t).load \in LoadRoute
  BY <1>2, LoadsOfPages DEF LoadRoute
<1>4. View(p, t).load = "GET /pieces/:id" <=> p = "piece-detail"
  BY <1>2, LoadsOfPages
<1>5. ASSUME NEW kind \in Kinds, View(p, t).load \in Lists(kind)
      PROVE p \in PagesOf(kind)
  <2>1. CASE kind = "piece"
    BY <1>2, LoadsOfPages, <1>5, <2>1 DEF Lists, PagesOf
  <2>2. CASE kind = "transfer"
    BY <1>2, LoadsOfPages, <1>5, <2>2 DEF Lists, PagesOf
  <2>3. CASE kind = "incident"
    BY <1>2, LoadsOfPages, <1>5, <2>3 DEF Lists, PagesOf
  <2>4. CASE kind = "certificate"
    BY <1>2, LoadsOfPages, <1>5, <2>4 DEF Lists, PagesOf
  <2>5. CASE kind = "service"
    BY <1>2, LoadsOfPages, <1>5, <2>5 DEF Lists, PagesOf
  <2>6. CASE kind = "notice"
    BY <1>2, LoadsOfPages, <1>5, <2>6 DEF Lists, PagesOf
  <2> QED  BY <2>1, <2>2, <2>3, <2>4, <2>5, <2>6 DEF Kinds
<1> QED  BY <1>3, <1>4, <1>5

\* What opening the dialog of each page calls, and what the dialog posts.
FormIs(form, button, loads, posts, pieces) ==
  /\ form.button = button /\ form.loads = loads
  /\ form.posts = posts /\ form.pieces = pieces

LEMMA FormsOfPages ==
  ASSUME NEW p, NEW t \in Tabs
  PROVE /\ p = "products" =>
             FormIs(View(p, t).form, {"products:create"},
                    <<>>, "POST /products", {})
        /\ p = "pieces" =>
             FormIs(View(p, t).form, {"pieces:create"},
                    <<"GET /products">>, "POST /pieces", {})
        /\ p = "sales" =>
             FormIs(View(p, t).form, {"sales:create"},
                    <<"GET /pieces", "GET /users">>, "POST /sales", {"AVAILABLE"})
        /\ p = "claims" =>
             FormIs(View(p, t).form, {"claims:redeem"},
                    <<>>, "POST /claims/redeem", {})
        /\ p = "webhooks" =>
             FormIs(View(p, t).form, {},
                    <<>>, "POST /webhooks", {})
        /\ p = "transfers" =>
             FormIs(View(p, t).form, {"transfers:request", "transfers:manage"},
                    <<"GET /pieces", "GET /users">>, "POST /transfers", AnyPiece)
        /\ p = "incidents" =>
             FormIs(View(p, t).form, {"incidents:create"},
                    <<"GET /pieces">>, "POST /incidents", AnyPiece)
        /\ p = "certificates" =>
             FormIs(View(p, t).form, {"certificates:create"},
                    <<"GET /pieces">>, "POST /certificates", AnyPiece)
        /\ p = "services" =>
             FormIs(View(p, t).form, {"services:request", "services:create", "services:complete"},
                    <<"GET /pieces">>, "POST /services", AnyPiece)
        /\ p = "piece-detail" =>
             FormIs(View(p, t).form, {"none"},
                    <<>>, "", {})
        /\ p = "notifications" =>
             FormIs(View(p, t).form, {"none"},
                    <<>>, "", {})
        /\ p = "profile" =>
             FormIs(View(p, t).form, {"none"},
                    <<>>, "", {})
<1> USE DEF FormIs, View, Form
<1>1. p = "products" =>
         FormIs(View(p, t).form, {"products:create"},
                <<>>, "POST /products", {})
  BY DEF ProductsPage, productsApi
<1>2. p = "pieces" =>
         FormIs(View(p, t).form, {"pieces:create"},
                <<"GET /products">>, "POST /pieces", {})
  BY DEF PiecesPage, piecesApi, productsApi
<1>3. p = "sales" =>
         FormIs(View(p, t).form, {"sales:create"},
                <<"GET /pieces", "GET /users">>, "POST /sales", {"AVAILABLE"})
  BY DEF SalesPage, piecesApi, usersApi, salesApi
<1>4. p = "claims" =>
         FormIs(View(p, t).form, {"claims:redeem"},
                <<>>, "POST /claims/redeem", {})
  BY DEF ClaimsPage, claimsApi
<1>5. p = "webhooks" =>
         FormIs(View(p, t).form, {},
                <<>>, "POST /webhooks", {})
  BY DEF WebhooksPage, webhooksApi
<1>6. p = "transfers" =>
         FormIs(View(p, t).form, {"transfers:request", "transfers:manage"},
                <<"GET /pieces", "GET /users">>, "POST /transfers", AnyPiece)
  BY DEF TransfersPage, piecesApi, usersApi, transfersApi
<1>7. p = "incidents" =>
         FormIs(View(p, t).form, {"incidents:create"},
                <<"GET /pieces">>, "POST /incidents", AnyPiece)
  BY DEF IncidentsPage, piecesApi, incidentsApi
<1>8. p = "certificates" =>
         FormIs(View(p, t).form, {"certificates:create"},
                <<"GET /pieces">>, "POST /certificates", AnyPiece)
  BY DEF CertificatesPage, piecesApi, certificatesApi
<1>9. p = "services" =>
         FormIs(View(p, t).form, {"services:request", "services:create", "services:complete"},
                <<"GET /pieces">>, "POST /services", AnyPiece)
  BY DEF ServicesPage, piecesApi, servicesApi
<1>10. p = "piece-detail" =>
         FormIs(View(p, t).form, {"none"},
                <<>>, "", {})
  BY DEF PieceDetailPage, NoForm
<1>11. p = "notifications" =>
         FormIs(View(p, t).form, {"none"},
                <<>>, "", {})
  BY DEF NotificationsPage, NoForm
<1>12. p = "profile" =>
         FormIs(View(p, t).form, {"none"},
                <<>>, "", {})
  BY DEF ProfilePage, NoForm
<1> HIDE DEF FormIs, View, Form
<1> QED
  BY <1>1, <1>2, <1>3, <1>4, <1>5, <1>6, <1>7,
     <1>8, <1>9, <1>10, <1>11, <1>12

\* The dialog of a page is the same on every tab.
LEMMA FormsSame ==
  ASSUME NEW p, NEW t \in Tabs, NEW u \in Tabs
  PROVE View(p, t).form = View(p, u).form
<1>1. CASE p = "transfers"
  BY <1>1 DEF View, TransfersPage
<1>2. CASE p # "transfers"
  <2>1. View(p, t) = View(p, u)
    BY <1>2 DEF View
  <2> QED  BY <2>1
<1> QED  BY <1>1, <1>2

\* It asks in turn for what it needs; one that picks pieces posts what is about
\* a piece.
LEMMA PageForms ==
  ASSUME NEW p \in LoadPage, NEW t \in Tabs
  PROVE /\ View(p, t).form.loads \in Seq(DialogRoute)
        /\ View(p, t).form.posts \in FormPost
        /\ View(p, t).form.pieces # {} => View(p, t).form.posts \in PickingPost
<1>0. /\ <<>> \in Seq(DialogRoute)
      /\ <<"GET /products">> \in Seq(DialogRoute)
      /\ <<"GET /pieces">> \in Seq(DialogRoute)
      /\ <<"GET /pieces", "GET /users">> \in Seq(DialogRoute)
  BY DEF DialogRoute
<1>1. CASE p = "products"
  <2>0. FormIs(View(p, t).form, {"products:create"},
                <<>>, "POST /products", {})
    BY <1>1, FormsOfPages
  <2>1. View(p, t).form.loads = <<>>
    BY <2>0 DEF FormIs
  <2>2. View(p, t).form.posts = "POST /products" /\ View(p, t).form.pieces = {}
    BY <2>0 DEF FormIs
  <2> QED  BY <1>0, <2>1, <2>2 DEF FormPost, PickingPost
<1>2. CASE p = "pieces"
  <2>0. FormIs(View(p, t).form, {"pieces:create"},
                <<"GET /products">>, "POST /pieces", {})
    BY <1>2, FormsOfPages
  <2>1. View(p, t).form.loads = <<"GET /products">>
    BY <2>0 DEF FormIs
  <2>2. View(p, t).form.posts = "POST /pieces" /\ View(p, t).form.pieces = {}
    BY <2>0 DEF FormIs
  <2> QED  BY <1>0, <2>1, <2>2 DEF FormPost, PickingPost
<1>3. CASE p = "sales"
  <2>0. FormIs(View(p, t).form, {"sales:create"},
                <<"GET /pieces", "GET /users">>, "POST /sales", {"AVAILABLE"})
    BY <1>3, FormsOfPages
  <2>1. View(p, t).form.loads = <<"GET /pieces", "GET /users">>
    BY <2>0 DEF FormIs
  <2>2. View(p, t).form.posts = "POST /sales" /\ View(p, t).form.pieces = {"AVAILABLE"}
    BY <2>0 DEF FormIs
  <2> QED  BY <1>0, <2>1, <2>2 DEF FormPost, PickingPost
<1>4. CASE p = "claims"
  <2>0. FormIs(View(p, t).form, {"claims:redeem"},
                <<>>, "POST /claims/redeem", {})
    BY <1>4, FormsOfPages
  <2>1. View(p, t).form.loads = <<>>
    BY <2>0 DEF FormIs
  <2>2. View(p, t).form.posts = "POST /claims/redeem" /\ View(p, t).form.pieces = {}
    BY <2>0 DEF FormIs
  <2> QED  BY <1>0, <2>1, <2>2 DEF FormPost, PickingPost
<1>5. CASE p = "webhooks"
  <2>0. FormIs(View(p, t).form, {},
                <<>>, "POST /webhooks", {})
    BY <1>5, FormsOfPages
  <2>1. View(p, t).form.loads = <<>>
    BY <2>0 DEF FormIs
  <2>2. View(p, t).form.posts = "POST /webhooks" /\ View(p, t).form.pieces = {}
    BY <2>0 DEF FormIs
  <2> QED  BY <1>0, <2>1, <2>2 DEF FormPost, PickingPost
<1>6. CASE p = "transfers"
  <2>0. FormIs(View(p, t).form, {"transfers:request", "transfers:manage"},
                <<"GET /pieces", "GET /users">>, "POST /transfers", AnyPiece)
    BY <1>6, FormsOfPages
  <2>1. View(p, t).form.loads = <<"GET /pieces", "GET /users">>
    BY <2>0 DEF FormIs
  <2>2. View(p, t).form.posts = "POST /transfers" /\ View(p, t).form.pieces = AnyPiece
    BY <2>0 DEF FormIs
  <2> QED  BY <1>0, <2>1, <2>2 DEF FormPost, PickingPost
<1>7. CASE p = "incidents"
  <2>0. FormIs(View(p, t).form, {"incidents:create"},
                <<"GET /pieces">>, "POST /incidents", AnyPiece)
    BY <1>7, FormsOfPages
  <2>1. View(p, t).form.loads = <<"GET /pieces">>
    BY <2>0 DEF FormIs
  <2>2. View(p, t).form.posts = "POST /incidents" /\ View(p, t).form.pieces = AnyPiece
    BY <2>0 DEF FormIs
  <2> QED  BY <1>0, <2>1, <2>2 DEF FormPost, PickingPost
<1>8. CASE p = "certificates"
  <2>0. FormIs(View(p, t).form, {"certificates:create"},
                <<"GET /pieces">>, "POST /certificates", AnyPiece)
    BY <1>8, FormsOfPages
  <2>1. View(p, t).form.loads = <<"GET /pieces">>
    BY <2>0 DEF FormIs
  <2>2. View(p, t).form.posts = "POST /certificates" /\ View(p, t).form.pieces = AnyPiece
    BY <2>0 DEF FormIs
  <2> QED  BY <1>0, <2>1, <2>2 DEF FormPost, PickingPost
<1>9. CASE p = "services"
  <2>0. FormIs(View(p, t).form, {"services:request", "services:create", "services:complete"},
                <<"GET /pieces">>, "POST /services", AnyPiece)
    BY <1>9, FormsOfPages
  <2>1. View(p, t).form.loads = <<"GET /pieces">>
    BY <2>0 DEF FormIs
  <2>2. View(p, t).form.posts = "POST /services" /\ View(p, t).form.pieces = AnyPiece
    BY <2>0 DEF FormIs
  <2> QED  BY <1>0, <2>1, <2>2 DEF FormPost, PickingPost
<1>10. CASE p \in {"piece-detail", "notifications", "profile"}
  <2>1. View(p, t).form.loads = <<>>
    BY <1>10, FormsOfPages DEF FormIs
  <2>2. View(p, t).form.posts = "" /\ View(p, t).form.pieces = {}
    BY <1>10, FormsOfPages DEF FormIs
  <2> QED  BY <1>0, <2>1, <2>2 DEF FormPost, PickingPost
<1> QED
  BY <1>1, <1>2, <1>3, <1>4, <1>5, <1>6, <1>7, <1>8, <1>9, <1>10
     DEF LoadPage, Page

LEMMA PageTools ==
  ASSUME NEW p \in LoadPage, NEW t \in Tabs
  PROVE View(p, t).tools \subseteq ToolRoute
<1>1. CASE p = "webhooks"
  BY <1>1 DEF View, WebhooksPage, webhooksApi, ToolRoute
<1>2. CASE p = "profile"
  BY <1>2 DEF View, ProfilePage, usersApi, ToolRoute
<1>3. CASE p \notin {"webhooks", "profile"}
  <2>1. View(p, t).tools = {}
    BY <1>3 DEF LoadPage, Page, View, ProductsPage, PiecesPage, SalesPage,
                ClaimsPage, PieceDetailPage, TransfersPage, IncidentsPage,
                CertificatesPage, ServicesPage, NotificationsPage
  <2> QED  BY <2>1
<1> QED  BY <1>1, <1>2, <1>3

\* The buttons of a row are about its kind.
LEMMA PageButtons ==
  ASSUME NEW kind \in Kinds, NEW p \in PagesOf(kind), NEW r, NEW t, NEW s,
         NEW b \in Buttons(r, p, t, s)
  PROVE b \in RowRoute(kind) /\ p # "pieces"
<1>1. CASE kind = "piece"
  <2>1. p # "pieces"
    BY DEF Buttons
  <2>2. p = "piece-detail"
    BY <1>1, <2>1 DEF PagesOf
  <2> QED
    BY <1>1, <2>2 DEF Buttons, PieceDetailButtons, piecesApi, RowRoute
<1>2. CASE kind = "transfer"
  BY <1>2 DEF PagesOf, Buttons, TransfersButtons, transfersApi, RowRoute
<1>3. CASE kind = "incident"
  BY <1>3 DEF PagesOf, Buttons, IncidentsButtons, incidentsApi, RowRoute
<1>4. CASE kind = "certificate"
  BY <1>4 DEF PagesOf, Buttons, CertificatesButtons, certificatesApi, RowRoute
<1>5. CASE kind = "service"
  BY <1>5 DEF PagesOf, Buttons, ServicesButtons, servicesApi, RowRoute
<1>6. CASE kind = "notice"
  <2>1. p = "notifications"
    BY <1>6 DEF PagesOf
  <2>2. b \in {notificationsApi.markAllRead, notificationsApi.markRead}
    BY <2>1 DEF Buttons, NotificationsButtons
  <2> QED  BY <1>6, <2>1, <2>2 DEF notificationsApi, RowRoute
<1> QED  BY <1>1, <1>2, <1>3, <1>4, <1>5, <1>6 DEF Kinds

LEMMA TabsOfUser ==
  ASSUME NEW r
  PROVE StartTab(r) \in Tabs /\ TransfersTabs(r) \subseteq Tabs
  BY DEF StartTab, TransfersTabs, Tabs

\* The handlers that put the answer in the place of the row, and those that
\* load again, are those of buttons; regenerateQr() is that of a piece.
LEMMA Answering ==
  /\ \A route \in LoadRoute \cup DialogRoute \cup FormPost :
       /\ route \notin Replacing \cup Reloading
       /\ route # piecesApi.regenerateQr
  /\ \A route \in ToolRoute :
       route \notin Replacing /\ route # piecesApi.regenerateQr
  /\ \A kind \in Kinds : piecesApi.regenerateQr \in RowRoute(kind)
       => kind = "piece"
  /\ piecesApi.regenerateQr \notin Replacing \cup Reloading
<1>0. /\ Replacing = {"POST /transfers/:id/accept", "POST /transfers/:id/reject",
                      "POST /transfers/:id/cancel", "PATCH /notifications/:id/read",
                      "PATCH /notifications/read-all"}
      /\ Reloading = {"POST /pieces/:id/status", "POST /pieces/:id/retire",
                      "POST /certificates/:id/revoke", "POST /services/:id/start",
                      "POST /services/:id/complete", "POST /services/:id/cancel",
                      "PATCH /webhooks/:id", "DELETE /webhooks/:id",
                      "DELETE /users/me/sessions/:id"}
      /\ piecesApi.regenerateQr = "POST /pieces/:id/qr/regenerate"
  BY DEF Replacing, Reloading, piecesApi, transfersApi, notificationsApi,
         certificatesApi, servicesApi, webhooksApi, usersApi
<1>1. \A route \in LoadRoute : /\ route \notin Replacing \cup Reloading
                               /\ route # piecesApi.regenerateQr
  BY <1>0 DEF LoadRoute
<1>2. \A route \in DialogRoute : /\ route \notin Replacing \cup Reloading
                                 /\ route # piecesApi.regenerateQr
  BY <1>0 DEF DialogRoute
<1>3. \A route \in FormPost : /\ route \notin Replacing \cup Reloading
                              /\ route # piecesApi.regenerateQr
  BY <1>0 DEF FormPost, PickingPost
<1>4. \A route \in ToolRoute :
        route \notin Replacing /\ route # piecesApi.regenerateQr
  BY <1>0 DEF ToolRoute
<1>5. piecesApi.regenerateQr \notin Replacing \cup Reloading
  BY <1>0
<1>6. \A kind \in Kinds : piecesApi.regenerateQr \in RowRoute(kind)
        => kind = "piece"
  BY <1>0 DEF Kinds, RowRoute
<1> QED  BY <1>1, <1>2, <1>3, <1>4, <1>5, <1>6

-----------------------------------------------------------------------------
(* Rows and snapshots                                                       *)

LEMMA RowKinds ==
  ASSUME NEW r \in Row
  PROVE /\ r.kind \in Kinds
        /\ r.kind = "piece" <=> r \in PieceRow
        /\ r.kind = "transfer" <=> r \in TransferRow
        /\ r.kind = "incident" <=> r \in IncidentRow
        /\ r.kind = "certificate" <=> r \in CertificateRow
        /\ r.kind = "service" <=> r \in ServiceRow
        /\ r.kind = "notice" <=> r \in NoticeRow
  BY DEF Row, Kinds, PieceRow, TransferRow, IncidentRow, CertificateRow,
         ServiceRow, NoticeRow

\* A handler leaves a row of the kind that it was about.
LEMMA AfterRow ==
  ASSUME NEW r \in Row, NEW u, NEW route \in AboutRoute(r.kind),
         Takes(u, route, r), NEW q \in After(route, r)
  PROVE /\ q \in Row /\ q.kind = r.kind
        /\ r.kind = "transfer" => q.tie = r.tie
<1>1. CASE r.kind = "piece"
  <2>1. r \in PieceRow
    BY <1>1, RowKinds
  <2>2. route \in {"POST /pieces/:id/status", "POST /pieces/:id/qr/regenerate",
                   "POST /pieces/:id/retire", "POST /sales", "POST /transfers",
                   "POST /incidents", "POST /certificates", "POST /services",
                   "GET /pieces/:id"}
    BY <1>1 DEF AboutRoute, RowRoute, PickingPost
  <2>3. q \in PieceRow
    <3>1. CASE route = "POST /pieces/:id/retire"
      <4>1. q = [r EXCEPT !.status = "RETIRED"]
        BY <1>1, <2>1, <3>1 DEF After, Leaves, PieceRow
      <4> QED  BY <2>1, <4>1 DEF PieceRow
    <3>2. CASE route = "POST /sales"
      <4>1. q = [r EXCEPT !.status = "SOLD", !.bar = "sale"]
        BY <3>2 DEF After, Leaves
      <4>2. r.tie = "unheld"
        BY <1>1, <3>2 DEF Takes, PieceTakes
      <4> QED  BY <2>1, <4>1, <4>2 DEF PieceRow
    <3>3. CASE route = "POST /transfers"
      <4>1. q = [r EXCEPT !.bar = "transfer"]
        BY <3>3 DEF After, Leaves
      <4>2. r.tie # "unheld"
        BY <1>1, <3>3 DEF Takes, PieceTakes
      <4> QED  BY <2>1, <4>1, <4>2 DEF PieceRow
    <3>4. CASE route = "POST /incidents"
      <4>1. PICK s \in {r.status, "REPORTED_STOLEN"} :
              q = [r EXCEPT !.status = s, !.bar = "incident"]
        BY <3>4 DEF After, Leaves
      <4> QED  BY <2>1, <4>1 DEF PieceRow
    <3>5. CASE route \in {"POST /pieces/:id/status",
                          "POST /pieces/:id/qr/regenerate",
                          "POST /certificates", "POST /services",
                          "GET /pieces/:id"}
      <4>1. q = r
        BY <3>5 DEF After, Leaves
      <4> QED  BY <2>1, <4>1
    <3> QED  BY <2>2, <3>1, <3>2, <3>3, <3>4, <3>5
  <2> QED  BY <1>1, <2>3 DEF Row, PieceRow
<1>2. CASE r.kind = "transfer"
  <2>1. r \in TransferRow
    BY <1>2, RowKinds
  <2>2. PICK s \in {"ACCEPTED", "REJECTED", "CANCELLED"} :
          q = [r EXCEPT !.status = s, !.bar = "none"]
    <3>1. route \in {"POST /transfers/:id/accept", "POST /transfers/:id/reject",
                     "POST /transfers/:id/cancel"}
      BY <1>2 DEF AboutRoute, RowRoute
    <3>2. PICK s \in {"ACCEPTED", "REJECTED", "CANCELLED"} : Leaves(route) = {s}
      BY <3>1 DEF Leaves
    <3> QED  BY <1>2, <3>1, <3>2 DEF After
  <2>3. q \in TransferRow /\ q.tie = r.tie
    BY <2>1, <2>2 DEF TransferRow
  <2> QED  BY <1>2, <2>3 DEF Row, TransferRow
<1>3. CASE r.kind = "incident"
  <2>1. q = r
    BY <1>3 DEF AboutRoute, RowRoute, After, Leaves
  <2> QED  BY <2>1
<1>4. CASE r.kind = "certificate"
  <2>1. r \in CertificateRow
    BY <1>4, RowKinds
  <2>2. q = r \/ q = [r EXCEPT !.status = "REVOKED"]
    BY <1>4, <2>1 DEF AboutRoute, RowRoute, After, Leaves, CertificateRow
  <2>3. q \in CertificateRow
    BY <2>1, <2>2 DEF CertificateRow
  <2> QED  BY <1>4, <2>3 DEF Row, CertificateRow
<1>5. CASE r.kind = "service"
  <2>1. r \in ServiceRow
    BY <1>5, RowKinds
  <2>2. PICK s \in {"IN_PROGRESS", "COMPLETED", "CANCELLED"} :
          q = [r EXCEPT !.status = s]
    <3>1. route \in {"POST /services/:id/start", "POST /services/:id/complete",
                     "POST /services/:id/cancel"}
      BY <1>5 DEF AboutRoute, RowRoute
    <3>2. PICK s \in {"IN_PROGRESS", "COMPLETED", "CANCELLED"} : Leaves(route) = {s}
      BY <3>1 DEF Leaves
    <3>3. q = [r EXCEPT !.status = s, !.bar = r.bar]
      BY <1>5, <3>1, <3>2 DEF After
    <3> QED  BY <2>1, <3>3 DEF ServiceRow
  <2>3. q \in ServiceRow
    BY <2>1, <2>2 DEF ServiceRow
  <2> QED  BY <1>5, <2>3 DEF Row, ServiceRow
<1>6. CASE r.kind = "notice"
  <2>1. r \in NoticeRow
    BY <1>6, RowKinds
  <2>2. q = [r EXCEPT !.status = "READ"]
    BY <1>6, <2>1 DEF AboutRoute, RowRoute, After, Leaves, NoticeRow
  <2>3. q \in NoticeRow
    BY <2>1, <2>2 DEF NoticeRow
  <2> QED  BY <1>6, <2>3 DEF Row, NoticeRow
<1> QED  BY <1>1, <1>2, <1>3, <1>4, <1>5, <1>6, RowKinds DEF Kinds

\* Others leave a row of its kind too.
LEMMA MovedRow ==
  ASSUME row \in Row, NEW q \in Moves
  PROVE /\ q \in Row /\ q.kind = row.kind
        /\ row.kind = "transfer" => q.tie = row.tie
<1>1. CASE row.kind \in {"piece", "transfer", "incident"}
  BY <1>1 DEF Moves, Row, PieceRow, TransferRow, IncidentRow
<1>2. CASE row.kind \in {"certificate", "service"}
  BY <1>2 DEF Moves, Row, CertificateRow, ServiceRow
<1>3. CASE row.kind = "notice"
  <2>1. row \in NoticeRow
    BY <1>3, RowKinds
  <2>2. q = [row EXCEPT !.status = "READ"]
    BY <1>3 DEF Moves
  <2>3. q \in NoticeRow
    BY <2>1, <2>2 DEF NoticeRow
  <2> QED  BY <1>3, <2>3 DEF Row, NoticeRow
<1> QED  BY <1>1, <1>2, <1>3, RowKinds DEF Kinds

\* What a page is told of a row, and what is left of that when it changes.
LEMMA Looks ==
  ASSUME NEW r \in Row, NEW t \in Tabs
  PROVE /\ Look(r, t) \in Picture
        /\ Look(r, t).status = r.status /\ Look(r, t).tab = t
        /\ Look(r, t).own = (r.kind = "service" /\ r.tie = "requester")
        /\ Look(r, t).fresh
<1>1. (r.kind = "service" /\ r.tie = "requester") \in BOOLEAN
  OBVIOUS
<1>2. r.status \in {x.status : x \in Row}
  OBVIOUS
<1> QED  BY <1>1, <1>2 DEF Look, Picture, Tabs

LEMMA Ages ==
  ASSUME NEW s \in Snapshot
  PROVE /\ Aged(s) \in Snapshot
        /\ Aged(s) # Nothing <=> s # Nothing
        /\ Aged(s) # Nothing => ~Aged(s).fresh
<1>1. CASE s = Nothing
  BY <1>1 DEF Aged
<1>2. CASE s # Nothing
  <2>1. s \in Picture
    BY <1>2 DEF Snapshot
  <2>2. /\ [s EXCEPT !.fresh = FALSE] \in Picture
        /\ ~[s EXCEPT !.fresh = FALSE].fresh
    BY <2>1 DEF Picture
  <2> QED  BY <1>2, <2>2, PortalAssumption DEF Aged, Snapshot
<1> QED  BY <1>1, <1>2

-----------------------------------------------------------------------------
(* The shape of a call, from its start to its end                           *)

LEMMA IdleShape ==
  ASSUME NEW kind, NEW p
  PROVE Shape(kind, p, IdleCall) /\ IdleCall \in CallRecord
<1>1. IdleCall \in CallRecord
  BY DEF IdleCall, CallRecord, Handler, Route, FormPost, Snapshot
<1> QED  BY <1>1 DEF IdleCall, Shape, Origin

LEMMA SentShape ==
  ASSUME NEW kind, NEW p, NEW of \in Handler, NEW route \in Route,
         NEW about \in BOOLEAN, NEW fresh \in BOOLEAN,
         fresh => about,
         \/ of = "form" /\ route \in FormPost
         \/ of = "dialog" /\ route \in DialogRoute /\ ~about
         \/ of = "row" /\ route \in RowRoute(kind) /\ about
         \/ of = "tool" /\ route \in ToolRoute /\ ~about,
         about => route \in AboutRoute(kind), p \in LoadPage,
         of = "dialog" =>
           \A t \in Tabs : \E i \in DOMAIN View(p, t).form.loads :
             route = View(p, t).form.loads[i]
  PROVE Shape(kind, p, Sent(of, route, about, fresh))
<1> DEFINE k == Sent(of, route, about, fresh)
<1>1. /\ k.pc = "sent" /\ k.of = of /\ k.route = route /\ ~k.load
      /\ k.about = about /\ k.fresh = fresh /\ k.live /\ k.seen = Nothing
  BY DEF Sent
<1>2. k \in CallRecord
  BY DEF Sent, CallRecord, Snapshot
<1> HIDE DEF k
<1>3. Origin(kind, k)
  BY <1>1 DEF Origin
<1>4. Bound(p, k)
  BY <1>1 DEF Bound
<1>5. Shape(kind, p, k)
  BY <1>1, <1>2, <1>3, <1>4 DEF Shape
<1> QED  BY <1>5 DEF k

LEMMA LoadFields ==
  ASSUME NEW of \in Handler, NEW p \in LoadPage, NEW t \in Tabs,
         NEW fresh \in BOOLEAN
  PROVE LET k == LoadOf(of, p, t, fresh) IN
        /\ k \in CallRecord
        /\ k.pc = "sent" /\ k.of = of /\ k.route = View(p, t).load
        /\ k.load /\ (k.about <=> p = "piece-detail") /\ (k.fresh <=> fresh)
        /\ k.live /\ k.seen = Nothing
<1>1. View(p, t).load \in Route
  BY PageLoads DEF Route
<1>2. PICK route \in Route : route = View(p, t).load
  BY <1>1
<1>3. ASSUME NEW about \in BOOLEAN, about <=> p = "piece-detail"
      PROVE LoadOf(of, p, t, fresh) = [Sent(of, route, about, fresh) EXCEPT !.load = TRUE]
  <2>1. CASE p = "piece-detail"
    <3>1. about = TRUE /\ (p = "piece-detail") = TRUE
      BY <1>3, <2>1
    <3> QED  BY <1>2, <3>1 DEF LoadOf
  <2>2. CASE p # "piece-detail"
    <3>1. about = FALSE /\ (p = "piece-detail") = FALSE
      BY <1>3, <2>2
    <3> QED  BY <1>2, <3>1 DEF LoadOf
  <2> QED  BY <2>1, <2>2
<1>4. ASSUME NEW about \in BOOLEAN
      PROVE LET k == [Sent(of, route, about, fresh) EXCEPT !.load = TRUE] IN
            /\ k \in CallRecord
            /\ k.pc = "sent" /\ k.of = of /\ k.route = route
            /\ k.load /\ k.about = about /\ (k.fresh <=> fresh)
            /\ k.live /\ k.seen = Nothing
  BY DEF Sent, CallRecord, Snapshot
<1>5. PICK about \in BOOLEAN : about <=> p = "piece-detail"
  OBVIOUS
<1>6. LoadOf(of, p, t, fresh) = [Sent(of, route, about, fresh) EXCEPT !.load = TRUE]
  BY <1>3, <1>5
<1> QED  BY <1>2, <1>4, <1>5, <1>6

\* A load is of its page; one is about the row on the page of a piece.
LEMMA LoadShape ==
  ASSUME NEW kind, NEW of \in Handler \ {"dialog"}, NEW p \in LoadPage,
         NEW t \in Tabs, NEW fresh \in BOOLEAN,
         p = "piece-detail" => kind = "piece",
         fresh => p = "piece-detail"
  PROVE Shape(kind, p, LoadOf(of, p, t, fresh))
<1> DEFINE k == LoadOf(of, p, t, fresh)
<1>1. /\ k \in CallRecord
      /\ k.pc = "sent" /\ k.of = of /\ k.route = View(p, t).load
      /\ k.load /\ (k.about <=> p = "piece-detail") /\ (k.fresh <=> fresh)
      /\ k.live /\ k.seen = Nothing
  BY LoadFields
<1> HIDE DEF k
<1>2. Origin(kind, k)
  BY <1>1, PageLoads DEF Origin
<1>3. Bound(p, k)
  BY <1>1 DEF Bound
<1>4. k.about => k.route \in AboutRoute(kind)
  BY <1>1, PageLoads DEF AboutRoute
<1>5. Shape(kind, p, k)
  BY <1>1, <1>2, <1>3, <1>4 DEF Shape
<1> QED  BY <1>5 DEF k

\* A page is left: what is still under way acts for nobody.
Unmounted(k) == [k EXCEPT !.live = FALSE, !.fresh = FALSE, !.seen = Nothing]

LEMMA UnmountedShape ==
  ASSUME NEW kind, NEW p, NEW q, NEW k, Shape(kind, p, k)
  PROVE Shape(kind, q, Unmounted(k))
<1> DEFINE m == Unmounted(k)
<1>1. /\ m \in CallRecord /\ ~m.live /\ ~m.fresh /\ m.seen = Nothing
      /\ m.pc = k.pc /\ m.of = k.of /\ m.route = k.route /\ m.load = k.load
      /\ m.about = k.about
  BY DEF Unmounted, Shape, CallRecord, Snapshot
<1> HIDE DEF m
<1>2. Origin(kind, m)
  BY <1>1 DEF Origin, Shape
<1>3. Shape(kind, q, m)
  BY <1>1, <1>2 DEF Shape
<1> QED  BY <1>3 DEF m

\* The second half of regenerateQr(), whose page has been left.
LEMMA StrayShape ==
  ASSUME NEW p, NEW t \in Tabs
  PROVE LET m == [LoadOf("qr", "piece-detail", t, FALSE) EXCEPT !.live = FALSE] IN
        Shape("piece", p, m) /\ ~m.live
<1>0. "piece-detail" \in LoadPage /\ "qr" \in Handler \ {"dialog"} /\ "qr" \in Handler
  BY DEF LoadPage, Page, Handler
<1>1. PICK k : k = LoadOf("qr", "piece-detail", t, FALSE)
  OBVIOUS
<1>2. Shape("piece", "piece-detail", k)
  BY <1>0, <1>1, LoadShape
<1>3. k \in CallRecord /\ k.seen = Nothing /\ k.fresh = FALSE
  <2>1. k \in CallRecord
    BY <1>0, <1>1, LoadFields
  <2>2. k.seen = Nothing
    BY <1>0, <1>1, LoadFields
  <2>3. k.fresh = FALSE
    BY <1>1 DEF LoadOf, Sent
  <2> QED  BY <2>1, <2>2, <2>3
<1>4. [k EXCEPT !.live = FALSE] = Unmounted(k) /\ ~Unmounted(k).live
  BY <1>3 DEF Unmounted, CallRecord
<1>5. Shape("piece", p, Unmounted(k))
  BY <1>2, UnmountedShape
<1> QED  BY <1>1, <1>4, <1>5

\* The row changes: what is known of it is out of date.
AgedCall(k) == [k EXCEPT !.seen = Aged(@), !.fresh = FALSE]

LEMMA AgedShape ==
  ASSUME NEW kind, NEW p, NEW k, Shape(kind, p, k)
  PROVE /\ Shape(kind, p, AgedCall(k))
        /\ AgedCall(k).pc = k.pc /\ AgedCall(k).of = k.of
        /\ AgedCall(k).live = k.live /\ AgedCall(k).load = k.load
        /\ AgedCall(k).about = k.about /\ AgedCall(k).route = k.route
<1> DEFINE m == AgedCall(k)
<1>1. PICK s \in Snapshot : s = k.seen
  BY DEF Shape, CallRecord
<1>2. PICK a \in Snapshot : a = Aged(s)
  BY Ages
<1>3. m = [k EXCEPT !.seen = a, !.fresh = FALSE]
  BY <1>1, <1>2 DEF AgedCall
<1>4. /\ m \in CallRecord /\ m.live = k.live /\ ~m.fresh /\ m.seen = a
      /\ m.pc = k.pc /\ m.of = k.of /\ m.route = k.route /\ m.load = k.load
      /\ m.about = k.about
  BY <1>3 DEF Shape, CallRecord
<1>5. m.seen # Nothing <=> k.seen # Nothing
  BY <1>1, <1>2, <1>4, Ages
<1> HIDE DEF m
<1>6. Origin(kind, m)
  BY <1>4 DEF Origin, Shape
<1>7. m.live => Bound(p, m)
  BY <1>4, <1>5 DEF Bound, Shape
<1>8. Shape(kind, p, m)
  BY <1>4, <1>5, <1>6, <1>7 DEF Shape
<1> QED  BY <1>4, <1>8 DEF m

\* The API answers.
Served(k, s) == [k EXCEPT !.pc = "served", !.fresh = FALSE, !.seen = s]
Refused(k) == [k EXCEPT !.pc = "refused", !.fresh = FALSE]

LEMMA ServedShape ==
  ASSUME NEW kind, NEW p, NEW k, Shape(kind, p, k), k.pc = "sent",
         NEW s \in Snapshot, k.about => s # Nothing,
         s # Nothing => k.about \/ k.route \in Lists(kind)
  PROVE /\ Shape(kind, p, Served(k, s)) /\ Served(k, s).pc = "served"
        /\ Served(k, s).of = k.of /\ Served(k, s).live = k.live
        /\ Served(k, s).load = k.load
<1> DEFINE m == Served(k, s)
<1>1. /\ m \in CallRecord /\ m.live = k.live /\ ~m.fresh /\ m.seen = s
      /\ m.pc = "served" /\ m.of = k.of /\ m.route = k.route /\ m.load = k.load
      /\ m.about = k.about
  BY DEF Shape, CallRecord, Served
<1> HIDE DEF m
<1>2. Origin(kind, m)
  BY <1>1 DEF Origin, Shape
<1>3. m.live => Bound(p, m)
  BY <1>1 DEF Bound, Shape
<1>4. Shape(kind, p, m)
  BY <1>1, <1>2, <1>3 DEF Shape
<1> QED  BY <1>1, <1>4 DEF m

LEMMA RefusedShape ==
  ASSUME NEW kind, NEW p, NEW k, Shape(kind, p, k), k.pc = "sent"
  PROVE /\ Shape(kind, p, Refused(k)) /\ Refused(k).pc = "refused"
        /\ Refused(k).of = k.of /\ Refused(k).live = k.live
        /\ Refused(k).load = k.load
<1> DEFINE m == Refused(k)
<1>1. /\ m \in CallRecord /\ m.live = k.live /\ ~m.fresh /\ m.seen = k.seen
      /\ m.pc = "refused" /\ m.of = k.of /\ m.route = k.route
      /\ m.load = k.load /\ m.about = k.about
  BY DEF Shape, CallRecord, Refused
<1> HIDE DEF m
<1>2. Origin(kind, m)
  BY <1>1 DEF Origin, Shape
<1>3. m.live => Bound(p, m)
  BY <1>1 DEF Bound, Shape
<1>4. Shape(kind, p, m)
  BY <1>1, <1>2, <1>3 DEF Shape
<1> QED  BY <1>1, <1>4 DEF m

-----------------------------------------------------------------------------
(* The invariant is inductive                                               *)

LEMMA CallFacts ==
  ASSUME Calls, NEW c \in Call
  PROVE /\ call[c] \in CallRecord /\ Shape(row.kind, page, call[c])
        /\ call[c].pc = "idle" => ~call[c].live
        /\ call[c].of \in Handler /\ call[c].route \in Route
        /\ call[c].seen \in Snapshot
  BY DEF Calls, Shape, CallRecord

LEMMA RowKind ==
  ASSUME Fields
  PROVE row \in Row /\ row.kind \in Kinds
  BY RowKinds DEF Fields

\* A page that loads, and what it loads when it does so again.
LEMMA LoadsHere ==
  ASSUME Fields, Pages, Loads(page), NEW of \in Handler \ {"dialog"},
         NEW t \in Tabs
  PROVE /\ page \in LoadPage
        /\ Shape(row.kind, page, LoadOf(of, page, t, FALSE))
        /\ Spins(LoadOf(of, page, t, FALSE))
        /\ LoadOf(of, page, t, FALSE).of = of
        /\ LoadOf(of, page, t, FALSE).pc = "sent"
<1>1. page \in LoadPage
  BY DEF Fields, Loads, LoadPage
<1>2. FALSE \in BOOLEAN /\ of \in Handler
  OBVIOUS
<1>3. Shape(row.kind, page, LoadOf(of, page, t, FALSE))
  BY <1>1, <1>2, LoadShape DEF Pages
<1>4. /\ LoadOf(of, page, t, FALSE).live /\ LoadOf(of, page, t, FALSE).load
      /\ LoadOf(of, page, t, FALSE).of = of
      /\ LoadOf(of, page, t, FALSE).pc = "sent"
  BY DEF LoadOf, Sent
<1> QED  BY <1>1, <1>3, <1>4 DEF Spins

\* A step that changes one call: what the page waits for is that call or does
\* not wait for the one that it replaces.
LEMMA OneCall ==
  ASSUME Calls, NothingHangs, row' = row, page' = page,
         NEW c \in Call, NEW k, Shape(row.kind, page, k),
         call' = [call EXCEPT ![c] = k],
         loading' => Spins(k) \/ (loading /\ ~Spins(call[c])),
         \A what \in busy' :
           Waits(k, what) \/ (what \in busy /\ ~Waits(call[c], what))
  PROVE Calls' /\ NothingHangs'
<1>1. k \in CallRecord
  BY DEF Shape
<1>2. /\ call' \in [Call -> CallRecord] /\ call'[c] = k
      /\ \A d \in Call \ {c} : call'[d] = call[d]
  BY <1>1 DEF Calls
<1>3. \A d \in Call : Shape(row.kind, page, call'[d])
  <2> SUFFICES ASSUME NEW d \in Call PROVE Shape(row.kind, page, call'[d])
    OBVIOUS
  <2>1. CASE d = c
    BY <1>2, <2>1, Zenon
  <2>2. CASE d # c
    BY <1>2, <2>2, Zenon DEF Calls
  <2> QED  BY <2>1, <2>2
<1>4. Calls'
  BY <1>2, <1>3, Zenon DEF Calls
<1>5. ASSUME loading' PROVE \E d \in Call : call'[d].live /\ call'[d].load
  <2>1. CASE Spins(k)
    BY <1>2, <2>1 DEF Spins
  <2>2. CASE loading /\ ~Spins(call[c])
    BY <1>2, <2>2 DEF Spins, NothingHangs
  <2> QED  BY <1>5, <2>1, <2>2
<1>6. ASSUME NEW what \in busy'
      PROVE \E d \in Call :
              /\ call'[d].live /\ call'[d].pc # "idle"
              /\ call'[d].of = what \/ (what = "row" /\ call'[d].of = "qr")
  <2>1. CASE Waits(k, what)
    BY <1>2, <2>1 DEF Waits
  <2>2. CASE what \in busy /\ ~Waits(call[c], what)
    BY <1>2, <2>2 DEF Waits, NothingHangs
  <2> QED  BY <2>1, <2>2
<1> QED  BY <1>4, <1>5, <1>6 DEF NothingHangs

\* A step that changes what is known of the row, and of a call no more than
\* that it was answered.
LEMMA SameWaits ==
  ASSUME NothingHangs, loading' = loading, busy' \subseteq busy,
         \A d \in Call :
           /\ call'[d].live = call[d].live /\ call'[d].load = call[d].load
           /\ call'[d].of = call[d].of
           /\ call[d].pc # "idle" => call'[d].pc # "idle"
  PROVE NothingHangs'
<1>1. ASSUME loading' PROVE \E d \in Call : call'[d].live /\ call'[d].load
  BY <1>1 DEF NothingHangs
<1>2. ASSUME NEW what \in busy'
      PROVE \E d \in Call :
              /\ call'[d].live /\ call'[d].pc # "idle"
              /\ call'[d].of = what \/ (what = "row" /\ call'[d].of = "qr")
  <2>1. PICK d \in Call :
          /\ call[d].live /\ call[d].pc # "idle"
          /\ call[d].of = what \/ (what = "row" /\ call[d].of = "qr")
    BY <1>2 DEF NothingHangs
  <2> QED  BY <2>1
<1> QED  BY <1>1, <1>2 DEF NothingHangs

LEMMA PortalStart ==
  ASSUME Init
  PROVE PortalInv
<1>1. Fields
  <2>1. tab \in Tabs
    BY TabsOfUser DEF Init
  <2> QED  BY <2>1 DEF Init, Fields, Page, Snapshot
<1>2. \A c \in Call : call[c] = IdleCall
  BY DEF Init
<1>3. Calls
  BY <1>2, IdleShape DEF Init, Calls
<1>4. Pages
  BY DEF Init, Pages
<1>5. NothingHangs
  BY DEF Init, NothingHangs
<1> QED  BY <1>1, <1>3, <1>4, <1>5 DEF PortalInv

-----------------------------------------------------------------------------
(* The user                                                                 *)

LEMMA LeftShape ==
  ASSUME Calls, NEW q, NEW c \in Call
  PROVE /\ Left \in [Call -> CallRecord]
        /\ Shape(row.kind, q, Left[c])
<1>1. ASSUME NEW d \in Call
      PROVE Shape(row.kind, q, IF Outlives(d) THEN Unmounted(call[d]) ELSE IdleCall)
  <2>1. CASE Outlives(d)
    <3>1. Shape(row.kind, q, Unmounted(call[d]))
      BY UnmountedShape DEF Calls
    <3> QED  BY <2>1, <3>1
  <2>2. CASE ~Outlives(d)
    BY <2>2, IdleShape
  <2> QED  BY <2>1, <2>2
<1>2. Left = [d \in Call |-> IF Outlives(d) THEN Unmounted(call[d]) ELSE IdleCall]
  BY DEF Left, Unmounted
<1>3. \A d \in Call :
        (IF Outlives(d) THEN Unmounted(call[d]) ELSE IdleCall) \in CallRecord
  BY <1>1 DEF Shape
<1>4. Left \in [Call -> CallRecord]
  BY <1>2, <1>3
<1>5. Left[c] = IF Outlives(c) THEN Unmounted(call[c]) ELSE IdleCall
  BY <1>2
<1> QED  BY <1>1, <1>4, <1>5

LEMMA MountedStep ==
  ASSUME PortalInv, NEW c \in Call, NEW p \in Page, NEW fresh \in BOOLEAN,
         p = "piece-detail" => row.kind = "piece",
         fresh => p = "piece-detail",
         Mounted(c, p, fresh)
  PROVE PortalInv'
<1> USE DEF PortalInv
<1>1. /\ page' = p /\ tab' = StartTab(role) /\ tab' \in Tabs
      /\ shown' = Nothing /\ dialog' = FALSE /\ choice' = Nothing
      /\ busy' = {} /\ loading' = Loads(p) /\ role' = role /\ row' = row
  BY TabsOfUser DEF Mounted
<1>2. Fields'
  <2>1. loading' \in BOOLEAN
    BY <1>1 DEF Loads
  <2> QED  BY <1>1, <2>1 DEF Fields, Snapshot
<1>3. Pages'
  BY <1>1 DEF Pages
<1>4. \A d \in Call : Shape(row.kind, p, Left[d])
  BY LeftShape
<1>5. Left \in [Call -> CallRecord]
  BY LeftShape
<1>6. CASE Loads(p)
  <2>1. p \in LoadPage
    BY <1>6 DEF Loads, LoadPage
  <2>2. PICK u : u = StartTab(role)
    OBVIOUS
  <2>3. PICK k : k = LoadOf("page", p, u, fresh)
    OBVIOUS
  <2>4. u \in Tabs /\ "page" \in Handler /\ "page" \in Handler \ {"dialog"}
    BY <2>2, TabsOfUser DEF Handler
  <2>5. Shape(row.kind, p, k)
    BY <2>1, <2>3, <2>4, LoadShape
  <2>6. k \in CallRecord /\ k.live /\ k.load
    BY <2>1, <2>3, <2>4, LoadFields
  <2>7. call' = [Left EXCEPT ![c] = k]
    BY <1>6, <2>2, <2>3 DEF Mounted
  <2>8. /\ call' \in [Call -> CallRecord] /\ call'[c] = k
        /\ \A d \in Call \ {c} : call'[d] = Left[d]
    BY <1>5, <2>6, <2>7
  <2>9. \A d \in Call : Shape(row.kind, p, call'[d])
    <3> SUFFICES ASSUME NEW d \in Call PROVE Shape(row.kind, p, call'[d])
      OBVIOUS
    <3>1. CASE d = c
      BY <2>5, <2>8, <3>1, Zenon
    <3>2. CASE d # c
      BY <1>4, <2>8, <3>2, Zenon
    <3> QED  BY <3>1, <3>2
  <2>10. Calls'
    BY <1>1, <2>8, <2>9, Zenon DEF Calls
  <2>11. NothingHangs'
    BY <1>1, <2>6, <2>8 DEF NothingHangs
  <2> QED  BY <1>2, <1>3, <2>10, <2>11
<1>7. CASE ~Loads(p)
  <2>1. call' = Left
    BY <1>7 DEF Mounted
  <2>2. Calls'
    BY <1>1, <1>4, <1>5, <2>1, Zenon DEF Calls
  <2>3. NothingHangs'
    BY <1>1, <1>7 DEF NothingHangs
  <2> QED  BY <1>2, <1>3, <2>2, <2>3
<1> QED  BY <1>6, <1>7

LEMMA OpenStep ==
  ASSUME PortalInv, NEW c \in Call, NEW p \in Destinations, Open(c, p)
  PROVE PortalInv'
<1>1. p \in Page /\ (p = "piece-detail" => row.kind = "piece")
  BY DEF Destinations, Guarded, Page
<1>2. FALSE \in BOOLEAN
  OBVIOUS
<1> QED  BY <1>1, <1>2, MountedStep DEF Open

LEMMA OpenPieceStep ==
  ASSUME PortalInv, NEW c \in Call, OpenPiece(c)
  PROVE PortalInv'
<1>1. "piece-detail" \in Page
  BY DEF Page
<1>2. shown.fresh \in BOOLEAN
  BY DEF OpenPiece, Drawn, PortalInv, Fields, Snapshot, Picture
<1>3. PICK fresh \in BOOLEAN : fresh = shown.fresh
  BY <1>2
<1>4. Mounted(c, "piece-detail", fresh) /\ row.kind = "piece"
  BY <1>3 DEF OpenPiece
<1> QED  BY <1>1, <1>4, MountedStep

LEMMA IdleSlot ==
  ASSUME Calls, NEW c \in Call, Idle(c)
  PROVE ~Spins(call[c]) /\ \A what : ~Waits(call[c], what)
<1>1. call[c].pc = "idle"
  BY DEF Idle, Slot
<1> QED  BY <1>1, CallFacts DEF Spins, Waits

LEMMA SwitchTabStep ==
  ASSUME PortalInv, NEW c \in Call, NEW t \in Tabs, SwitchTab(c, t)
  PROVE PortalInv'
<1> USE DEF PortalInv
<1>1. Loads(page) /\ "page" \in Handler \ {"dialog"}
  BY DEF SwitchTab, Loads, Handler
<1>2. PICK k : k = LoadOf("page", page, t, FALSE)
  OBVIOUS
<1>3. Shape(row.kind, page, k) /\ Spins(k)
  BY <1>1, <1>2, LoadsHere
<1>4. call' = [call EXCEPT ![c] = k] /\ tab' = t /\ loading' = TRUE
  BY <1>2 DEF SwitchTab
<1>5. /\ role' = role /\ row' = row /\ page' = page /\ shown' = shown
      /\ dialog' = dialog /\ choice' = choice /\ busy' = busy
  BY DEF SwitchTab
<1>6. Calls' /\ NothingHangs'
  BY <1>3, <1>4, <1>5, IdleSlot, OneCall DEF SwitchTab
<1>7. Fields' /\ Pages'
  BY <1>4, <1>5 DEF Fields, Pages
<1> QED  BY <1>6, <1>7

LEMMA ReloadStep ==
  ASSUME PortalInv, NEW c \in Call, Reload(c)
  PROVE PortalInv'
<1> USE DEF PortalInv
<1>1. Loads(page) /\ "page" \in Handler \ {"dialog"} /\ tab \in Tabs
  BY DEF Reload, Handler, Fields
<1>2. PICK k : k = LoadOf("page", page, tab, FALSE)
  OBVIOUS
<1>3. Shape(row.kind, page, k) /\ Spins(k)
  BY <1>1, <1>2, LoadsHere
<1>4. call' = [call EXCEPT ![c] = k] /\ loading' = TRUE
  BY <1>2 DEF Reload
<1>5. /\ role' = role /\ row' = row /\ page' = page /\ shown' = shown
      /\ dialog' = dialog /\ choice' = choice /\ busy' = busy /\ tab' = tab
  BY DEF Reload
<1>6. Calls' /\ NothingHangs'
  BY <1>3, <1>4, <1>5, IdleSlot, OneCall DEF Reload
<1>7. Fields' /\ Pages'
  BY <1>4, <1>5 DEF Fields, Pages
<1> QED  BY <1>6, <1>7

\* A page that shows the row is one that loads.
LEMMA ShownPage ==
  ASSUME Fields, Pages, shown # Nothing
  PROVE page \in LoadPage /\ page \in PagesOf(row.kind)
<1>1. page \in PagesOf(row.kind)
  BY DEF Pages
<1>2. page \in LoadPage
  BY <1>1, RowKind DEF Kinds, PagesOf, LoadPage, Page
<1> QED  BY <1>1, <1>2

LEMMA PressStep ==
  ASSUME PortalInv, NEW c \in Call, Press(c)
  PROVE PortalInv'
<1> USE DEF PortalInv
<1>1. PICK button \in Buttons(role, page, tab, shown) :
        call' = [call EXCEPT ![c] = Sent("row", button, TRUE,
                                           shown.fresh /\ shown.tab = tab)]
  BY DEF Press
<1>2. page \in LoadPage /\ page \in PagesOf(row.kind)
  BY ShownPage DEF Press, Drawn
<1>3. button \in RowRoute(row.kind)
  BY <1>1, <1>2, RowKind, PageButtons
<1>4. /\ button \in Route /\ button \in AboutRoute(row.kind)
      /\ "row" \in Handler
  BY <1>3, RowKind DEF Route, AboutRoute, Handler
<1>5. PICK fresh \in BOOLEAN : fresh = (shown.fresh /\ shown.tab = tab)
  OBVIOUS
<1>6. PICK k : k = Sent("row", button, TRUE, fresh)
  OBVIOUS
<1>7. Shape(row.kind, page, k)
  BY <1>2, <1>3, <1>4, <1>6, SentShape
<1>8. Waits(k, "row")
  BY <1>6 DEF Waits, Sent
<1>9. call' = [call EXCEPT ![c] = k]
  BY <1>1, <1>5, <1>6
<1>10. /\ role' = role /\ row' = row /\ page' = page /\ tab' = tab
       /\ shown' = shown /\ loading' = loading /\ dialog' = dialog
       /\ choice' = choice /\ busy' \subseteq busy \cup {"row"}
  BY DEF Press
<1>13. ~Spins(call[c]) /\ \A what : ~Waits(call[c], what)
  BY IdleSlot DEF Press
<1>14. \A what \in busy' :
         Waits(k, what) \/ (what \in busy /\ ~Waits(call[c], what))
  BY <1>8, <1>10, <1>13
<1>15. loading' => Spins(k) \/ (loading /\ ~Spins(call[c]))
  BY <1>10, <1>13
<1>11. Calls' /\ NothingHangs'
  BY <1>7, <1>9, <1>10, <1>14, <1>15, OneCall
<1>12. Fields' /\ Pages'
  BY <1>10 DEF Fields, Pages
<1> QED  BY <1>11, <1>12

LEMMA UseStep ==
  ASSUME PortalInv, NEW c \in Call, Use(c)
  PROVE PortalInv'
<1> USE DEF PortalInv
<1>1. PICK tool \in View(page, tab).tools :
        call' = [call EXCEPT ![c] = Sent("tool", tool, FALSE, FALSE)]
  BY DEF Use
<1>2. page \in LoadPage /\ tab \in Tabs
  BY DEF Use, Loads, LoadPage, Fields
<1>3. tool \in ToolRoute /\ tool \in Route /\ "tool" \in Handler
  BY <1>1, <1>2, PageTools DEF Route, Handler
<1>4. PICK k : k = Sent("tool", tool, FALSE, FALSE)
  OBVIOUS
<1>5. Shape(row.kind, page, k)
  BY <1>2, <1>3, <1>4, SentShape
<1>6. call' = [call EXCEPT ![c] = k]
  BY <1>1, <1>4
<1>7. /\ role' = role /\ row' = row /\ page' = page /\ tab' = tab
      /\ shown' = shown /\ loading' = loading /\ dialog' = dialog
      /\ choice' = choice /\ busy' = busy
  BY DEF Use
<1>10. ~Spins(call[c]) /\ \A what : ~Waits(call[c], what)
  BY IdleSlot DEF Use
<1>8. Calls' /\ NothingHangs'
  BY <1>5, <1>6, <1>7, <1>10, OneCall
<1>9. Fields' /\ Pages'
  BY <1>7 DEF Fields, Pages
<1> QED  BY <1>8, <1>9

\* One of the routes that a dialog loads, called by its page.
LEMMA DialogShape ==
  ASSUME Fields, page \in LoadPage,
         NEW i \in 1 .. Len(Form_.loads), NEW k,
         k = Sent("dialog", Form_.loads[i], FALSE, FALSE)
  PROVE Shape(row.kind, page, k)
<1>1. tab \in Tabs
  BY DEF Fields
<1>2. PICK loads \in Seq(DialogRoute) : loads = Form_.loads
  BY <1>1, PageForms DEF Form_
<1>3. i \in DOMAIN loads /\ loads[i] \in DialogRoute
  BY <1>2
<1>4. \A u \in Tabs : View(page, u).form.loads = loads
  BY <1>1, <1>2, FormsSame DEF Form_
<1>5. \A u \in Tabs : \E j \in DOMAIN View(page, u).form.loads :
        loads[i] = View(page, u).form.loads[j]
  BY <1>3, <1>4
<1>6. PICK route : route = loads[i]
  OBVIOUS
<1>7. route \in DialogRoute /\ route \in Route /\ "dialog" \in Handler
  BY <1>3, <1>6 DEF Route, Handler
<1>8. k = Sent("dialog", route, FALSE, FALSE)
  BY <1>2, <1>6
<1> QED  BY <1>5, <1>6, <1>7, <1>8, SentShape

LEMMA OpenFormStep ==
  ASSUME PortalInv, NEW c \in Call, OpenForm(c)
  PROVE PortalInv'
<1> USE DEF PortalInv
<1>1. page \in LoadPage /\ tab \in Tabs
  BY DEF OpenForm, Loads, LoadPage, Fields
<1>2. /\ role' = role /\ row' = row /\ page' = page /\ tab' = tab
      /\ shown' = shown /\ loading' = loading /\ choice' = choice
      /\ busy' = busy
  BY DEF OpenForm
<1>3. CASE Form_.loads = <<>>
  <2>1. dialog' = TRUE /\ call' = call
    BY <1>3 DEF OpenForm
  <2>2. Fields' /\ Pages'
    BY <1>1, <1>2, <2>1 DEF Fields, Pages
  <2>3. Calls' /\ NothingHangs'
    BY <1>2, <2>1 DEF Calls, NothingHangs
  <2> QED  BY <2>2, <2>3
<1>4. CASE Form_.loads # <<>>
  <2>1. /\ Idle(c) /\ dialog' = dialog
        /\ call' = [call EXCEPT ![c] =
                      Sent("dialog", Head(Form_.loads), FALSE, FALSE)]
    BY <1>4 DEF OpenForm
  <2>2. Form_.loads \in Seq(DialogRoute)
    BY <1>1, PageForms DEF Form_
  <2>3. 1 \in 1 .. Len(Form_.loads) /\ Head(Form_.loads) = Form_.loads[1]
    BY <1>4, <2>2
  <2>4. PICK k : k = Sent("dialog", Form_.loads[1], FALSE, FALSE)
    OBVIOUS
  <2>5. Shape(row.kind, page, k)
    BY <1>1, <2>3, <2>4, DialogShape
  <2>6. call' = [call EXCEPT ![c] = k]
    BY <2>1, <2>3, <2>4
  <2>7. Calls' /\ NothingHangs'
    BY <1>2, <2>1, <2>5, <2>6, IdleSlot, OneCall
  <2>8. Fields' /\ Pages'
    BY <1>2, <2>1 DEF Fields, Pages
  <2> QED  BY <2>7, <2>8
<1> QED  BY <1>3, <1>4

LEMMA CloseFormStep ==
  ASSUME PortalInv, CloseForm
  PROVE PortalInv'
  BY DEF PortalInv, CloseForm, Fields, Calls, Pages, NothingHangs

LEMMA SubmitStep ==
  ASSUME PortalInv, NEW c \in Call, Submit(c)
  PROVE PortalInv'
<1> USE DEF PortalInv
<1>1. page \in LoadPage /\ tab \in Tabs
  BY DEF Submit, Pages, Fields
<1>2. PICK about \in BOOLEAN : about = (Form_.pieces # {})
  OBVIOUS
<1>3. PICK fresh \in BOOLEAN : fresh = (Form_.pieces # {} /\ choice.fresh)
  OBVIOUS
<1>4. PICK route : route = Form_.posts
  OBVIOUS
<1>5. /\ route \in FormPost /\ route \in Route /\ "form" \in Handler
      /\ about => route \in PickingPost
  BY <1>1, <1>2, <1>4, PageForms DEF Form_, Route, Handler
<1>6. about => row.kind = "piece"
  BY <1>2 DEF Submit, Pages
<1>7. /\ about => route \in AboutRoute(row.kind)
      /\ fresh => about
  BY <1>2, <1>3, <1>5, <1>6 DEF AboutRoute
<1>8. PICK k : k = Sent("form", route, about, fresh)
  OBVIOUS
<1>9. Shape(row.kind, page, k)
  BY <1>1, <1>5, <1>7, <1>8, SentShape
<1>10. Waits(k, "form")
  BY <1>8 DEF Waits, Sent
<1>11. call' = [call EXCEPT ![c] =
                  Sent("form", Form_.posts, Form_.pieces # {},
                       Form_.pieces # {} /\ choice.fresh)]
  BY DEF Submit
<1>12. call' = [call EXCEPT ![c] = k]
  BY <1>2, <1>3, <1>4, <1>8, <1>11
<1>13. /\ role' = role /\ row' = row /\ page' = page /\ tab' = tab
       /\ shown' = shown /\ loading' = loading /\ dialog' = dialog
       /\ choice' = choice /\ busy' = busy \cup {"form"}
  BY DEF Submit
<1>14. Calls' /\ NothingHangs'
  BY <1>9, <1>10, <1>12, <1>13, IdleSlot, OneCall DEF Submit
<1>15. Fields' /\ Pages'
  BY <1>13 DEF Fields, Pages
<1> QED  BY <1>14, <1>15

-----------------------------------------------------------------------------
(* The API, and others                                                      *)

LEMMA CallsAgedShape ==
  ASSUME Calls
  PROVE /\ CallsAged \in [Call -> CallRecord]
        /\ \A c \in Call :
             LET k == CallsAged[c] IN
             /\ Shape(row.kind, page, k)
             /\ k.pc = call[c].pc /\ k.of = call[c].of
             /\ k.live = call[c].live /\ k.load = call[c].load
             /\ k.about = call[c].about /\ k.route = call[c].route
<1>1. CallsAged = [c \in Call |-> AgedCall(call[c])]
  BY DEF CallsAged, AgedCall
<1>2. ASSUME NEW c \in Call
      PROVE /\ Shape(row.kind, page, AgedCall(call[c]))
            /\ AgedCall(call[c]).pc = call[c].pc
            /\ AgedCall(call[c]).of = call[c].of
            /\ AgedCall(call[c]).live = call[c].live
            /\ AgedCall(call[c]).load = call[c].load
            /\ AgedCall(call[c]).about = call[c].about
            /\ AgedCall(call[c]).route = call[c].route
  BY AgedShape DEF Calls
<1>3. \A c \in Call : AgedCall(call[c]) \in CallRecord
  BY <1>2 DEF Shape
<1> QED  BY <1>1, <1>2, <1>3

\* The row changes under the page.
LEMMA AgedFields ==
  ASSUME Fields, Pages, row' \in Row, row'.kind = row.kind,
         \/ shown' = shown /\ choice' = choice
         \/ shown' = Aged(shown) /\ choice' = Aged(choice),
         role' = role, page' = page, tab' = tab, loading' = loading,
         dialog' = dialog, busy' = busy
  PROVE Fields' /\ Pages'
<1>1. /\ shown' \in Snapshot /\ choice' \in Snapshot
      /\ shown' # Nothing <=> shown # Nothing
      /\ choice' # Nothing <=> choice # Nothing
  BY Ages DEF Fields
<1>2. Fields'
  BY <1>1 DEF Fields
<1>3. Pages'
  BY <1>1 DEF Pages
<1> QED  BY <1>2, <1>3

LEMMA OthersActStep ==
  ASSUME PortalInv, OthersAct
  PROVE PortalInv'
<1> USE DEF PortalInv
<1>1. row' \in Row /\ row'.kind = row.kind
  BY RowKind, MovedRow DEF OthersAct
<1>2. /\ shown' = Aged(shown) /\ choice' = Aged(choice)
      /\ role' = role /\ page' = page /\ tab' = tab /\ loading' = loading
      /\ dialog' = dialog /\ busy' = busy /\ call' = CallsAged
  BY DEF OthersAct
<1>3. Fields' /\ Pages'
  BY <1>1, <1>2, AgedFields
<1>4. Calls'
  BY <1>1, <1>2, CallsAgedShape, Zenon DEF Calls
<1>5. NothingHangs'
  BY <1>2, CallsAgedShape, SameWaits
<1> QED  BY <1>3, <1>4, <1>5

LEMMA ServeStep ==
  ASSUME PortalInv, NEW c \in Call, Serve(c)
  PROVE PortalInv'
<1> USE DEF PortalInv
<1>1. PICK q : q = row'
  OBVIOUS
<1>2. q \in Row /\ q.kind = row.kind
  <2>1. CASE call[c].about
    <3>1. call[c].route \in AboutRoute(row.kind)
      BY <2>1, CallFacts DEF Shape
    <3>2. Takes(role, call[c].route, row) /\ q \in After(call[c].route, row)
      BY <1>1, <2>1 DEF Serve, Accepted
    <3> QED  BY <3>1, <3>2, RowKind, AfterRow
  <2>2. CASE ~call[c].about
    BY <1>1, <2>2, RowKind DEF Serve
  <2> QED  BY <2>1, <2>2
<1>3. /\ role' = role /\ page' = page /\ tab' = tab /\ loading' = loading
      /\ dialog' = dialog /\ busy' = busy
  BY DEF Serve
<1>4. \/ shown' = shown /\ choice' = choice
      \/ shown' = Aged(shown) /\ choice' = Aged(choice)
  BY DEF Serve, Changes
<1>5. Fields' /\ Pages'
  BY <1>1, <1>2, <1>3, <1>4, AgedFields
<1>6. PICK f : f = IF row' = row THEN call ELSE CallsAged
  OBVIOUS
<1>7. /\ f \in [Call -> CallRecord]
      /\ \A d \in Call :
           /\ Shape(row.kind, page, f[d])
           /\ f[d].pc = call[d].pc /\ f[d].of = call[d].of
           /\ f[d].live = call[d].live /\ f[d].load = call[d].load
           /\ f[d].about = call[d].about /\ f[d].route = call[d].route
  <2>1. CASE f = call
    BY <2>1, Zenon DEF Calls
  <2>2. CASE f = CallsAged
    BY <2>2, CallsAgedShape, Zenon
  <2> QED  BY <1>6, <2>1, <2>2
<1>8. PICK t : t = TabOf(call[c].route)
  OBVIOUS
<1>9. PICK s : s = IF call[c].about \/ Shows(role, call[c].route, q)
                     THEN Look(q, t) ELSE Nothing
  OBVIOUS
<1>10. /\ s \in Snapshot
       /\ call[c].about => s # Nothing
       /\ s # Nothing => call[c].about \/ call[c].route \in Lists(row.kind)
  <2>1. t \in Tabs
    BY <1>8 DEF TabOf, Tabs, Fields
  <2>2. Look(q, t) \in Picture
    BY <1>2, <2>1, Looks
  <2>3. Shows(role, call[c].route, q) => call[c].route \in Lists(row.kind)
    BY <1>2 DEF Shows
  <2> QED  BY <1>9, <2>2, <2>3, PortalAssumption DEF Snapshot
<1>11. PICK k : k = Served(f[c], s)
  OBVIOUS
<1>12. /\ Shape(row.kind, page, k) /\ k.pc = "served" /\ k.of = f[c].of
       /\ k.live = f[c].live /\ k.load = f[c].load
  <2>1. Shape(row.kind, page, f[c]) /\ f[c].pc = "sent"
    BY <1>7 DEF Serve
  <2>2. /\ f[c].about => s # Nothing
        /\ s # Nothing => f[c].about \/ f[c].route \in Lists(row.kind)
    BY <1>7, <1>10
  <2> QED  BY <1>10, <1>11, <2>1, <2>2, ServedShape
<1>13. call' = [f EXCEPT ![c] = k]
  <2>1. call' = [f EXCEPT ![c].pc = "served", ![c].fresh = FALSE, ![c].seen = s]
    BY <1>1, <1>6, <1>8, <1>9 DEF Serve
  <2> QED  BY <1>7, <1>11, <2>1 DEF Served
<1>14. /\ call' \in [Call -> CallRecord] /\ call'[c] = k
       /\ \A d \in Call \ {c} : call'[d] = f[d]
  BY <1>7, <1>12, <1>13 DEF Shape
<1>15. \A d \in Call : Shape(row.kind, page, call'[d])
  <2> SUFFICES ASSUME NEW d \in Call PROVE Shape(row.kind, page, call'[d])
    OBVIOUS
  <2>1. CASE d = c
    BY <1>12, <1>14, <2>1, Zenon
  <2>2. CASE d # c
    BY <1>7, <1>14, <2>2, Zenon
  <2> QED  BY <2>1, <2>2
<1>16. Calls'
  BY <1>1, <1>2, <1>3, <1>14, <1>15, Zenon DEF Calls
<1>17. \A d \in Call :
         /\ call'[d].live = call[d].live /\ call'[d].load = call[d].load
         /\ call'[d].of = call[d].of
         /\ call[d].pc # "idle" => call'[d].pc # "idle"
  BY <1>7, <1>12, <1>14
<1>18. NothingHangs'
  BY <1>3, <1>17, SameWaits
<1> QED  BY <1>5, <1>16, <1>18

LEMMA RefuseStep ==
  ASSUME PortalInv, NEW c \in Call, Refuse(c)
  PROVE PortalInv'
<1> USE DEF PortalInv
<1>1. PICK k : k = Refused(call[c])
  OBVIOUS
<1>2. Shape(row.kind, page, call[c]) /\ call[c].pc = "sent"
  BY CallFacts DEF Refuse
<1>3. /\ Shape(row.kind, page, k) /\ k.pc = "refused" /\ k.of = call[c].of
      /\ k.live = call[c].live /\ k.load = call[c].load
  BY <1>1, <1>2, RefusedShape
<1>4. call' = [call EXCEPT ![c] = k]
  BY <1>1 DEF Refuse, Refused, Calls
<1>5. /\ role' = role /\ row' = row /\ page' = page /\ tab' = tab
      /\ shown' = shown /\ loading' = loading /\ dialog' = dialog
      /\ choice' = choice /\ busy' = busy
  BY DEF Refuse
<1>6. Fields' /\ Pages'
  BY <1>5 DEF Fields, Pages
<1>7. /\ Spins(call[c]) => Spins(k)
      /\ \A what : Waits(call[c], what) => Waits(k, what)
  BY <1>3 DEF Spins, Waits
<1>8. Calls' /\ NothingHangs'
  BY <1>3, <1>4, <1>5, <1>7, OneCall
<1> QED  BY <1>6, <1>8

-----------------------------------------------------------------------------
(* Answers                                                                  *)

\* The call is over; what waited for it is let go.
LEMMA OverStep ==
  ASSUME PortalInv, NEW c \in Call, call' = [call EXCEPT ![c] = IdleCall],
         row' = row, page' = page,
         loading' => loading /\ ~Spins(call[c]),
         \A what \in busy' : what \in busy /\ ~Waits(call[c], what)
  PROVE Calls' /\ NothingHangs'
<1>1. Shape(row.kind, page, IdleCall)
  BY IdleShape
<1>2. PICK k : k = IdleCall
  OBVIOUS
<1> QED  BY <1>1, <1>2, OneCall DEF PortalInv

\* The handler loads its page again before it is over.
LEMMA ThenStep ==
  ASSUME PortalInv, NEW c \in Call, call[c].live,
         NEW of \in Handler \ {"dialog"}, Then(c, of),
         row' = row, page' = page, busy' = busy,
         \A what \in {"row", "form"} :
           Waits(call[c], what) => of = what \/ (what = "row" /\ of = "qr")
  PROVE Calls' /\ NothingHangs'
<1>1. page \in LoadPage /\ Loads(page) /\ tab \in Tabs
  BY CallFacts DEF PortalInv, Shape, Bound, Loads, LoadPage, Page, Fields
<1>2. PICK k : k = LoadOf(of, page, tab, FALSE)
  OBVIOUS
<1>3. Shape(row.kind, page, k) /\ Spins(k) /\ k.of = of /\ k.pc = "sent"
  BY <1>1, <1>2, LoadsHere DEF PortalInv
<1>4. call' = [call EXCEPT ![c] = k] /\ loading' = TRUE
  BY <1>2 DEF Then
<1>5. ASSUME NEW what \in busy'
      PROVE Waits(k, what) \/ (what \in busy /\ ~Waits(call[c], what))
  BY <1>3 DEF PortalInv, Fields, Waits, Spins
<1> QED  BY <1>3, <1>4, <1>5, OneCall DEF PortalInv

\* Whose call it is.
LEMMA CallOrigin ==
  ASSUME Calls, NEW c \in Call
  PROVE /\ Origin(row.kind, call[c])
        /\ call[c].live => Bound(page, call[c])
        /\ call[c].about => call[c].route \in AboutRoute(row.kind)
        /\ call[c].seen # Nothing =>
             call[c].about \/ call[c].route \in Lists(row.kind)
  BY CallFacts DEF Shape

LEMMA DroppedStep ==
  ASSUME PortalInv, NEW c \in Call, Dropped(c)
  PROVE PortalInv'
<1>1. /\ role' = role /\ row' = row /\ page' = page /\ tab' = tab
      /\ shown' = shown /\ loading' = loading /\ dialog' = dialog
      /\ choice' = choice /\ busy' = busy
      /\ call' = [call EXCEPT ![c] = IdleCall]
  BY DEF Dropped, Over
<1>2. ~Spins(call[c]) /\ \A what : ~Waits(call[c], what)
  BY DEF Dropped, Spins, Waits
<1>3. Calls' /\ NothingHangs'
  BY <1>1, <1>2, OverStep
<1>4. Fields' /\ Pages'
  BY <1>1 DEF PortalInv, Fields, Pages
<1> QED  BY <1>3, <1>4 DEF PortalInv

LEMMA LandsRefusedStep ==
  ASSUME PortalInv, NEW c \in Call, LandsRefused(c)
  PROVE PortalInv'
<1>1. /\ role' = role /\ row' = row /\ page' = page /\ tab' = tab
      /\ shown' = shown /\ dialog' = dialog /\ choice' = choice
      /\ loading' = (loading /\ ~call[c].load)
      /\ busy' = busy \ {call[c].of}
      /\ call' = [call EXCEPT ![c] = IdleCall]
  BY DEF LandsRefused, Over
<1>2. loading' => loading /\ ~Spins(call[c])
  BY <1>1 DEF Spins
<1>3. \A what \in busy' : what \in busy /\ ~Waits(call[c], what)
  BY <1>1 DEF LandsRefused, Waits
<1>4. Calls' /\ NothingHangs'
  BY <1>1, <1>2, <1>3, OverStep
<1>5. Fields' /\ Pages'
  BY <1>1 DEF PortalInv, Fields, Pages
<1> QED  BY <1>4, <1>5 DEF PortalInv

\* Only the load of a piece's page names its row.
LEMMA AboutLoad ==
  ASSUME PortalInv, NEW c \in Call, call[c].live, call[c].load, call[c].about
  PROVE page = "piece-detail" /\ row.kind = "piece"
<1>1. Bound(page, call[c])
  BY CallOrigin DEF PortalInv
<1>2. page \in LoadPage
  BY <1>1 DEF Bound
<1>3. PICK t \in Tabs : call[c].route = View(page, t).load
  BY <1>1 DEF Bound
<1>4. row.kind \in Kinds /\ call[c].route \in AboutRoute(row.kind)
  BY RowKind, CallOrigin DEF PortalInv
<1>5. call[c].route \in LoadRoute
  BY <1>2, <1>3, PageLoads
<1>6. call[c].route = "GET /pieces/:id" /\ row.kind = "piece"
  BY <1>4, <1>5 DEF AboutRoute, RowRoute, PickingPost, LoadRoute, Kinds
<1> QED  BY <1>2, <1>3, <1>6, PageLoads

\* What an answer to a load says of the row is for its page.
LEMMA LandsLoadStep ==
  ASSUME PortalInv, NEW c \in Call, LandsLoad(c)
  PROVE PortalInv'
<1>1. /\ role' = role /\ row' = row /\ page' = page /\ tab' = tab
      /\ shown' = call[c].seen /\ dialog' = dialog /\ choice' = choice
      /\ loading' = FALSE /\ busy' = busy \ {call[c].of}
      /\ call' = [call EXCEPT ![c] = IdleCall]
  BY DEF LandsLoad, Over
<1>2. \A what \in busy' : what \in busy /\ ~Waits(call[c], what)
  BY <1>1 DEF LandsLoad, Waits
<1>3. Calls' /\ NothingHangs'
  BY <1>1, <1>2, OverStep
<1>4. Fields'
  BY <1>1, CallFacts DEF PortalInv, Fields
<1>5. ASSUME call[c].seen # Nothing PROVE page \in PagesOf(row.kind)
  <2>1. Bound(page, call[c])
    BY CallOrigin DEF PortalInv, LandsLoad
  <2>2. page \in LoadPage
    BY <2>1 DEF Bound
  <2>3. PICK t \in Tabs : call[c].route = View(page, t).load
    BY <2>1 DEF Bound, LandsLoad
  <2>4. row.kind \in Kinds
    BY RowKind DEF PortalInv
  <2>5. CASE call[c].route \in Lists(row.kind)
    BY <2>2, <2>3, <2>4, <2>5, PageLoads
  <2>6. CASE call[c].about
    BY <2>6, AboutLoad DEF LandsLoad, PagesOf
  <2> QED  BY <1>5, <2>5, <2>6, CallOrigin DEF PortalInv
<1>6. Pages'
  BY <1>1, <1>5 DEF PortalInv, Pages
<1> QED  BY <1>3, <1>4, <1>6 DEF PortalInv

LEMMA LandsDialogStep ==
  ASSUME PortalInv, NEW c \in Call, LandsDialog(c)
  PROVE PortalInv'
<1>1. /\ role' = role /\ row' = row /\ page' = page /\ tab' = tab
      /\ shown' = shown /\ loading' = loading /\ busy' = busy
      /\ choice' = IF call[c].route = piecesApi.list THEN call[c].seen ELSE choice
  BY DEF LandsDialog
<1>2. /\ ~call[c].load /\ ~call[c].about
      /\ page \in LoadPage /\ Bound(page, call[c]) /\ tab \in Tabs
  BY CallOrigin DEF PortalInv, LandsDialog, Origin, Bound, Fields
<1>3. ~Spins(call[c]) /\ \A what \in busy : ~Waits(call[c], what)
  BY <1>2 DEF Spins, Waits, LandsDialog, PortalInv, Fields
<1>4. choice' \in Snapshot /\ (choice' # Nothing => row.kind = "piece")
  <2>1. CASE call[c].route = piecesApi.list
    <3>1. choice' = call[c].seen /\ call[c].seen \in Snapshot
      BY <1>1, <2>1, CallFacts DEF PortalInv
    <3>2. call[c].seen # Nothing => call[c].route \in Lists(row.kind)
      BY <1>2, CallOrigin DEF PortalInv
    <3>3. call[c].route \in Lists(row.kind) => row.kind = "piece"
      BY <2>1, RowKind DEF PortalInv, Kinds, Lists, piecesApi
    <3> QED  BY <3>1, <3>2, <3>3
  <2>2. CASE call[c].route # piecesApi.list
    BY <1>1, <2>2 DEF PortalInv, Fields, Pages
  <2> QED  BY <2>1, <2>2
<1>5. dialog' \in BOOLEAN
  BY DEF LandsDialog, PortalInv, Fields
<1>6. Fields'
  BY <1>1, <1>4, <1>5 DEF PortalInv, Fields
<1>7. Pages'
  BY <1>1, <1>2, <1>4 DEF PortalInv, Pages
<1>8. PICK loads \in Seq(DialogRoute) : loads = Form_.loads
  BY <1>2, PageForms DEF Form_
<1>9. PICK i : i = CHOOSE j \in DOMAIN loads : loads[j] = call[c].route
  OBVIOUS
<1>10. i \in 1 .. Len(loads)
  <2>1. \E j \in DOMAIN loads : loads[j] = call[c].route
    BY <1>2, <1>8 DEF Bound, LandsDialog, Form_
  <2> QED  BY <1>8, <1>9, <2>1
<1>11. CASE i < Len(loads)
  <2>1. call' = [call EXCEPT ![c] = Sent("dialog", loads[i + 1], FALSE, FALSE)]
    BY <1>8, <1>9, <1>11 DEF LandsDialog
  <2>2. i + 1 \in 1 .. Len(Form_.loads)
    BY <1>8, <1>10, <1>11
  <2>3. PICK k : k = Sent("dialog", Form_.loads[i + 1], FALSE, FALSE)
    OBVIOUS
  <2>4. Shape(row.kind, page, k)
    BY <1>2, <2>2, <2>3, DialogShape DEF PortalInv
  <2>5. call' = [call EXCEPT ![c] = k]
    BY <1>8, <2>1, <2>3
  <2>6. Calls' /\ NothingHangs'
    BY <1>1, <1>3, <2>4, <2>5, OneCall DEF PortalInv
  <2> QED  BY <1>6, <1>7, <2>6 DEF PortalInv
<1>12. CASE ~(i < Len(loads))
  <2>1. call' = [call EXCEPT ![c] = IdleCall]
    BY <1>8, <1>9, <1>12 DEF LandsDialog, Over
  <2>2. Calls' /\ NothingHangs'
    BY <1>1, <1>3, <2>1, OverStep
  <2> QED  BY <1>6, <1>7, <2>2 DEF PortalInv
<1> QED  BY <1>11, <1>12

LEMMA LandsFormStep ==
  ASSUME PortalInv, NEW c \in Call, LandsForm(c)
  PROVE PortalInv'
<1>1. /\ role' = role /\ row' = row /\ page' = page /\ tab' = tab
      /\ shown' = shown /\ dialog' = FALSE /\ choice' = choice
      /\ busy' = busy /\ loading' = TRUE /\ Then(c, "form")
  BY DEF LandsForm, Then
<1>2. \A what \in {"row", "form"} : Waits(call[c], what) => "form" = what
  BY DEF LandsForm, Waits
<1>3. "form" \in Handler \ {"dialog"} /\ call[c].live
  BY DEF Handler, LandsForm
<1>4. Calls' /\ NothingHangs'
  BY <1>1, <1>2, <1>3, ThenStep
<1>5. Fields' /\ Pages'
  BY <1>1 DEF PortalInv, Fields, Pages
<1> QED  BY <1>4, <1>5 DEF PortalInv

LEMMA LandsReplacedStep ==
  ASSUME PortalInv, NEW c \in Call, LandsReplaced(c)
  PROVE PortalInv'
<1>1. /\ role' = role /\ row' = row /\ page' = page /\ tab' = tab
      /\ loading' = loading /\ dialog' = dialog /\ choice' = choice
      /\ busy' = busy \ {"row"}
      /\ call' = [call EXCEPT ![c] = IdleCall]
  BY DEF LandsReplaced, Over
<1>2. /\ call[c].pc = "served" /\ call[c].live
      /\ call[c].route \in Replacing
  BY DEF LandsReplaced
<1>3. call[c].of = "row" /\ call[c].about /\ ~call[c].load
  BY <1>2, CallOrigin, Answering DEF PortalInv, Origin
<1>4. call[c].seen \in Picture
  BY <1>2, <1>3, CallOrigin, CallFacts DEF PortalInv, Bound, Snapshot
<1>5. /\ shown' \in Snapshot
      /\ shown' # Nothing => shown # Nothing
  <2>1. CASE shown = Nothing
    <3>1. shown' = Nothing
      BY <2>1 DEF LandsReplaced
    <3> QED  BY <3>1 DEF Snapshot
  <2>2. CASE shown # Nothing
    <3>1. shown.tab \in Tabs
      BY <2>2 DEF PortalInv, Fields, Snapshot, Picture, Tabs
    <3>2. PICK t \in Tabs : t = shown.tab
      BY <3>1
    <3>3. PICK s \in Picture : s = call[c].seen
      BY <1>4
    <3>4. [s EXCEPT !.tab = t] \in Picture
      BY DEF Picture, Tabs
    <3>5. shown' \in {[s EXCEPT !.tab = t], Nothing}
      BY <2>2, <3>2, <3>3 DEF LandsReplaced
    <3> QED  BY <2>2, <3>4, <3>5 DEF Snapshot
  <2> QED  BY <2>1, <2>2
<1>6. ~Spins(call[c]) /\ \A what \in busy' : ~Waits(call[c], what)
  BY <1>1, <1>3 DEF Spins, Waits, PortalInv, Fields
<1>7. Calls' /\ NothingHangs'
  BY <1>1, <1>6, OverStep
<1>8. Fields'
  BY <1>1, <1>5 DEF PortalInv, Fields
<1>9. Pages'
  BY <1>1, <1>5 DEF PortalInv, Pages
<1> QED  BY <1>7, <1>8, <1>9 DEF PortalInv

LEMMA LandsReloadingStep ==
  ASSUME PortalInv, NEW c \in Call, LandsReloading(c)
  PROVE PortalInv'
<1>1. /\ role' = role /\ row' = row /\ page' = page /\ tab' = tab
      /\ shown' = shown /\ dialog' = dialog /\ choice' = choice
      /\ busy' = busy /\ loading' = TRUE /\ Then(c, call[c].of)
  BY DEF LandsReloading, Then
<1>2. /\ call[c].pc = "served" /\ call[c].live /\ ~call[c].load
      /\ call[c].route \in Reloading
  BY DEF LandsReloading
<1>3. PICK of : of = call[c].of
  OBVIOUS
<1>4. of \in {"row", "tool"}
  BY <1>2, <1>3, CallOrigin, Answering DEF PortalInv, Origin
<1>5. of \in Handler \ {"dialog"}
  BY <1>4 DEF Handler
<1>6. \A what \in {"row", "form"} : Waits(call[c], what) => of = what
  BY <1>3, <1>4 DEF Waits
<1>7. Then(c, of)
  BY <1>1, <1>3
<1>8. Calls' /\ NothingHangs'
  BY <1>1, <1>2, <1>5, <1>6, <1>7, ThenStep
<1>9. Fields' /\ Pages'
  BY <1>1 DEF PortalInv, Fields, Pages
<1> QED  BY <1>8, <1>9 DEF PortalInv

LEMMA LandsDoneStep ==
  ASSUME PortalInv, NEW c \in Call, LandsDone(c)
  PROVE PortalInv'
<1>1. /\ role' = role /\ row' = row /\ page' = page /\ tab' = tab
      /\ shown' = shown /\ dialog' = dialog /\ choice' = choice
      /\ loading' = loading /\ busy' = busy \ {call[c].of}
      /\ call' = [call EXCEPT ![c] = IdleCall]
  BY DEF LandsDone, Over
<1>2. ~Spins(call[c]) /\ \A what \in busy' : ~Waits(call[c], what)
  BY <1>1 DEF LandsDone, Spins, Waits
<1>3. Calls' /\ NothingHangs'
  BY <1>1, <1>2, OverStep
<1>4. Fields' /\ Pages'
  BY <1>1 DEF PortalInv, Fields, Pages
<1> QED  BY <1>3, <1>4 DEF PortalInv

LEMMA LandsQrStep ==
  ASSUME PortalInv, NEW c \in Call, LandsQr(c)
  PROVE PortalInv'
<1>1. /\ role' = role /\ row' = row /\ page' = page /\ tab' = tab
      /\ shown' = shown /\ dialog' = dialog /\ choice' = choice
      /\ busy' = busy /\ loading' \in BOOLEAN
  BY DEF LandsQr, Then, PortalInv, Fields
<1>2. call[c].pc = "served" /\ call[c].route = piecesApi.regenerateQr
  BY DEF LandsQr
<1>3. /\ call[c].of = "row" /\ call[c].route \in RowRoute(row.kind)
      /\ row.kind = "piece"
  BY <1>2, CallOrigin, Answering, RowKind DEF PortalInv, Origin
<1>4. Fields' /\ Pages'
  BY <1>1 DEF PortalInv, Fields, Pages
<1>5. CASE call[c].live
  <2>1. Then(c, "qr") /\ "qr" \in Handler \ {"dialog"}
    BY <1>5 DEF LandsQr, Handler
  <2>2. \A what \in {"row", "form"} : Waits(call[c], what) => what = "row"
    BY <1>3 DEF Waits
  <2>3. Calls' /\ NothingHangs'
    BY <1>1, <1>5, <2>1, <2>2, ThenStep
  <2> QED  BY <1>4, <2>3 DEF PortalInv
<1>6. CASE ~call[c].live
  <2>1. PICK k : k = [LoadOf("qr", "piece-detail", tab, FALSE) EXCEPT
                        !.live = FALSE]
    OBVIOUS
  <2>2. tab \in Tabs
    BY DEF PortalInv, Fields
  <2>3. Shape(row.kind, page, k) /\ ~k.live
    BY <1>3, <2>1, <2>2, StrayShape
  <2>4. call' = [call EXCEPT ![c] = k] /\ loading' = loading
    BY <1>6, <2>1 DEF LandsQr
  <2>5. ~Spins(call[c]) /\ \A what : ~Waits(call[c], what)
    BY <1>6 DEF Spins, Waits
  <2>6. Calls' /\ NothingHangs'
    BY <1>1, <2>3, <2>4, <2>5, OneCall DEF PortalInv
  <2> QED  BY <1>4, <2>6 DEF PortalInv
<1> QED  BY <1>5, <1>6

LEMMA VerifyStep ==
  ASSUME PortalInv, NEW c \in Call, Verify(c)
  PROVE PortalInv'
<1>1. /\ role' = role /\ row' = row /\ page' = "verify-public"
      /\ tab' = StartTab(role) /\ tab' \in Tabs /\ shown' = Nothing
      /\ loading' = FALSE /\ dialog' = FALSE /\ choice' = Nothing
      /\ busy' = {} /\ call' = [Left EXCEPT ![c] = IdleCall]
  BY TabsOfUser DEF Verify
<1>2. Fields'
  BY <1>1 DEF PortalInv, Fields, Snapshot
<1>3. Pages' /\ NothingHangs'
  BY <1>1 DEF Pages, NothingHangs
<1>4. /\ Left \in [Call -> CallRecord]
      /\ \A d \in Call : Shape(row.kind, page', Left[d])
  BY LeftShape DEF PortalInv
<1>5. IdleCall \in CallRecord /\ Shape(row.kind, page', IdleCall)
  BY IdleShape
<1>6. /\ call' \in [Call -> CallRecord] /\ call'[c] = IdleCall
      /\ \A d \in Call \ {c} : call'[d] = Left[d]
  BY <1>1, <1>4, <1>5
<1>7. \A d \in Call : Shape(row.kind, page', call'[d])
  <2> SUFFICES ASSUME NEW d \in Call PROVE Shape(row.kind, page', call'[d])
    OBVIOUS
  <2>1. CASE d = c
    BY <1>5, <1>6, <2>1, Zenon
  <2>2. CASE d # c
    BY <1>4, <1>6, <2>2, Zenon
  <2> QED  BY <2>1, <2>2
<1>8. Calls'
  BY <1>1, <1>6, <1>7, Zenon DEF Calls
<1> QED  BY <1>2, <1>3, <1>8 DEF PortalInv

LEMMA OtherRowDoneStep ==
  ASSUME PortalInv, OtherRowDone
  PROVE PortalInv'
<1>1. /\ role' = role /\ row' = row /\ page' = page /\ tab' = tab
      /\ shown' = shown /\ dialog' = dialog /\ choice' = choice
      /\ loading' = loading /\ busy' = busy \ {"row"} /\ call' = call
  BY DEF OtherRowDone
<1>2. Fields' /\ Pages' /\ Calls'
  BY <1>1 DEF PortalInv, Fields, Pages, Calls
<1>3. NothingHangs'
  BY <1>1 DEF PortalInv, NothingHangs
<1> QED  BY <1>2, <1>3 DEF PortalInv

-----------------------------------------------------------------------------
LEMMA PortalStep ==
  ASSUME PortalInv, [Next]_vars
  PROVE PortalInv'
<1>1. ASSUME NEW c \in Call, Navigate(c) PROVE PortalInv'
  <2>1. CASE \E p \in Destinations \ {page} : Open(c, p)
    BY <2>1, OpenStep
  <2>2. CASE \E t \in {"incoming", "outgoing", "all"} : SwitchTab(c, t)
    BY <2>2, SwitchTabStep DEF Tabs
  <2> QED  BY <1>1, <2>1, <2>2, OpenPieceStep, ReloadStep DEF Navigate
<1>2. ASSUME NEW c \in Call, Act(c) PROVE PortalInv'
  BY <1>2, PressStep, UseStep, OpenFormStep, SubmitStep DEF Act
<1>3. ASSUME NEW c \in Call, Lands(c) PROVE PortalInv'
  BY <1>3, DroppedStep, LandsRefusedStep, LandsLoadStep, LandsDialogStep,
     LandsFormStep, LandsReplacedStep, LandsReloadingStep, LandsDoneStep,
     LandsQrStep, VerifyStep DEF Lands
<1>4. CASE UNCHANGED vars
  BY <1>4 DEF vars, PortalInv, Fields, Calls, Pages, NothingHangs
<1> QED
  BY <1>1, <1>2, <1>3, <1>4, ServeStep, RefuseStep, CloseFormStep,
     OthersActStep, OtherRowDoneStep DEF Next

\* The inductive invariant of a page and the calls that it has made.
THEOREM PortalInvariant == Spec => []PortalInv
<1>1. Init => PortalInv
  BY PortalStart
<1>2. PortalInv /\ [Next]_vars => PortalInv'
  BY PortalStep
<1> QED  BY <1>1, <1>2, PTL DEF Spec

\* The state is of its type: whatever handlers and others leave is a row that
\* the store can hold, and only a call under way speaks of a row as it is.
THEOREM PortalTypeCorrect == Spec => []TypeOK
<1>1. PortalInv => TypeOK
  <2> SUFFICES ASSUME PortalInv PROVE TypeOK
    OBVIOUS
  <2>1. ASSUME NEW c \in Call
        PROVE /\ call[c].pc \in {"idle", "sent", "served", "refused"}
              /\ call[c].of \in Handler /\ call[c].seen \in Snapshot
              /\ call[c].fresh => call[c].pc = "sent" /\ call[c].about
    BY DEF PortalInv, Calls, Shape, CallRecord
  <2> QED  BY <2>1 DEF PortalInv, Fields, Tabs, TypeOK
<1> QED  BY <1>1, PortalInvariant, PTL

\* A spinner or a button that is switched off waits for a call that is still on
\* its way (finally in every handler of views/*.vue).
THEOREM NothingIsLeftHanging == Spec => []NothingHangs
<1>1. PortalInv => NothingHangs
  BY DEF PortalInv
<1> QED  BY <1>1, PortalInvariant, PTL

-----------------------------------------------------------------------------
(* What a page knows, and why its calls are let in and taken                *)

\* A fresh snapshot is how the row is.
Truth(rw, s) ==
  s # Nothing /\ s.fresh =>
    /\ s.status = rw.status
    /\ s.own = (rw.kind = "service" /\ rw.tie = "requester")

\* The row was in a list that the user may see.
InList(r, rw, p, s) ==
  s # Nothing =>
    /\ rw.kind = "transfer" =>
         /\ s.tab = "incoming" => rw.tie = "to"
         /\ s.tab = "outgoing" => rw.tie = "from"
    /\ s.fresh =>
         /\ p = "pieces" =>
              Holds(r, {"pieces:list"}) \/ rw.tie \in {"owner", "former"}
         /\ rw.kind = "incident" => IncidentsShow(r, rw)
         /\ rw.kind = "certificate" => CertificatesShow(r, rw)

\* The routes of AtOdds, and the rows.
OddRoute(r, p, route) ==
  \/ route = "GET /claims" /\ ~Holds(r, {"claims:read"})
  \/ route = "GET /users" /\ p = "transfers" /\ ~Holds(r, {"sales:create"})
  \/ /\ route \in {"GET /transfers/incoming", "GET /transfers/outgoing"}
     /\ ~Holds(r, {"transfers:request", "transfers:accept", "transfers:reject"})
  \/ route = "POST /pieces/:id/status"
  \/ route \in {"POST /transfers", "POST /incidents", "POST /services"}

OddRow(rw, route) ==
  \/ route = "GET /pieces/:id" /\ rw.tie = "former"
  \/ route = "POST /pieces/:id/retire" /\ rw.status \in {"SOLD", "REPORTED_STOLEN"}
  \/ route = "POST /sales" /\ (rw.bar = "sale" \/ rw.tie # "unheld")
  \/ route \in {"POST /transfers", "POST /incidents", "POST /services"}
  \/ rw.kind = "transfer" /\ rw.bar # "none"

Allowed(r, p, route) == OddRoute(r, p, route) \/ LetIn(r, route)
Taken(r, rw, route) == OddRow(rw, route) \/ Takes(r, route, rw)

\* The button of the page's dialog is one that the user has.
MayOpen(r, p) == \A t \in Tabs : Holds(r, View(p, t).form.button)

Honest(r, rw, p, k) ==
  /\ Truth(rw, k.seen)
  /\ k.live =>
       /\ k.load => InList(r, rw, p, k.seen)
       /\ k.of = "dialog" => MayOpen(r, p)
       /\ k.pc = "sent" => Allowed(r, p, k.route)
       /\ k.fresh => Taken(r, rw, k.route)

\* The second inductive invariant, on top of PortalInv.
Honesty ==
  /\ page \in Page => Holds(role, Permitted[page])
  /\ tab \in TransfersTabs(role)
  /\ dialog => MayOpen(role, page)
  /\ Truth(row, shown) /\ Truth(row, choice)
  /\ InList(role, row, page, shown)
  /\ \A c \in Call : Honest(role, row, page, call[c])

\* Whom the API lets in, for the routes that the client calls.
LEMMA LetInBy ==
  ASSUME NEW route, NEW any, On(route, any) \in Registered,
         NEW r, Holds(r, any)
  PROVE LetIn(r, route)
  BY DEF LetIn, On

LEMMA RoutesOpen ==
  ASSUME NEW r
  PROVE /\ Holds(r, {"products:read"}) => LetIn(r, "GET /products")
        /\ Holds(r, {"products:create"}) => LetIn(r, "POST /products")
        /\ Holds(r, {"pieces:list", "pieces:read_own"})
             => LetIn(r, "GET /pieces")
        /\ Holds(r, {"pieces:read", "pieces:read_own"})
             => LetIn(r, "GET /pieces/:id")
        /\ Holds(r, {"pieces:create"}) => LetIn(r, "POST /pieces")
        /\ Holds(r, {"pieces:retire"}) => LetIn(r, "POST /pieces/:id/retire")
        /\ Holds(r, {"qr:regenerate"})
             => LetIn(r, "POST /pieces/:id/qr/regenerate")
        /\ Holds(r, {"sales:read"}) => LetIn(r, "GET /sales")
        /\ Holds(r, {"sales:create"}) => LetIn(r, "POST /sales")
        /\ Holds(r, {"claims:read"}) => LetIn(r, "GET /claims")
        /\ Holds(r, {"claims:redeem"}) => LetIn(r, "POST /claims/redeem")
        /\ Holds(r, {"transfers:manage"}) => LetIn(r, "GET /transfers")
        /\ Holds(r, {"transfers:accept", "transfers:reject"})
             => LetIn(r, "GET /transfers/incoming")
        /\ Holds(r, {"transfers:request"})
             => LetIn(r, "GET /transfers/outgoing")
        /\ Holds(r, {"transfers:accept", "transfers:manage"})
             => LetIn(r, "POST /transfers/:id/accept")
        /\ Holds(r, {"transfers:reject", "transfers:manage"})
             => LetIn(r, "POST /transfers/:id/reject")
        /\ Holds(r, {"transfers:request", "transfers:manage"})
             => LetIn(r, "POST /transfers/:id/cancel")
        /\ Holds(r, {"incidents:read", "incidents:read_own"})
             => LetIn(r, "GET /incidents")
        /\ Holds(r, {"incidents:read", "incidents:read_own"})
             => LetIn(r, "GET /incidents/:id")
        /\ Holds(r, {"certificates:read", "certificates:read_own"})
             => LetIn(r, "GET /certificates")
        /\ Holds(r, {"certificates:create"}) => LetIn(r, "POST /certificates")
        /\ Holds(r, {"certificates:read", "certificates:download_own"})
             => LetIn(r, "GET /certificates/:id/download")
        /\ Holds(r, {"certificates:revoke"})
             => LetIn(r, "POST /certificates/:id/revoke")
        /\ Holds(r, {"services:read", "services:request"})
             => LetIn(r, "GET /services")
        /\ Holds(r, {"services:create", "services:complete"})
             => LetIn(r, "POST /services/:id/start")
        /\ Holds(r, {"services:complete"})
             => LetIn(r, "POST /services/:id/complete")
        /\ Holds(r, {"services:create", "services:complete", "services:request"})
             => LetIn(r, "POST /services/:id/cancel")
        /\ Holds(r, {"notifications:read_own"})
             => LetIn(r, "GET /notifications")
        /\ Holds(r, {"notifications:update_own"})
             => LetIn(r, "PATCH /notifications/:id/read")
        /\ Holds(r, {"notifications:update_own"})
             => LetIn(r, "PATCH /notifications/read-all")
        /\ Holds(r, {"webhooks:manage_own", "webhooks:manage"})
             => LetIn(r, "GET /webhooks")
        /\ Holds(r, {"webhooks:manage_own", "webhooks:manage"})
             => LetIn(r, "POST /webhooks")
        /\ Holds(r, {"webhooks:manage_own", "webhooks:manage"})
             => LetIn(r, "PATCH /webhooks/:id")
        /\ Holds(r, {"webhooks:manage_own", "webhooks:manage"})
             => LetIn(r, "POST /webhooks/:id/secret")
        /\ Holds(r, {"webhooks:manage_own", "webhooks:manage"})
             => LetIn(r, "DELETE /webhooks/:id")
        /\ Holds(r, {"webhooks:manage_own", "webhooks:manage"})
             => LetIn(r, "GET /webhooks/:id/deliveries")
        /\ Holds(r, {"sales:create"}) => LetIn(r, "GET /users")
        /\ Holds(r, {}) => LetIn(r, "PATCH /users/me")
        /\ Holds(r, {}) => LetIn(r, "GET /users/me/sessions")
        /\ Holds(r, {}) => LetIn(r, "DELETE /users/me/sessions/:id")
<1>1. /\ On("GET /products", {"products:read"}) \in Registered
      /\ On("POST /products", {"products:create"}) \in Registered
  BY DEF Registered, ProductsRoutes
<1>2. /\ On("GET /pieces", {"pieces:list", "pieces:read_own"}) \in Registered
      /\ On("GET /pieces/:id", {"pieces:read", "pieces:read_own"}) \in Registered
      /\ On("POST /pieces", {"pieces:create"}) \in Registered
      /\ On("POST /pieces/:id/retire", {"pieces:retire"}) \in Registered
      /\ On("POST /pieces/:id/qr/regenerate", {"qr:regenerate"}) \in Registered
  BY DEF Registered, PiecesRoutes
<1>3. /\ On("GET /sales", {"sales:read"}) \in Registered
      /\ On("POST /sales", {"sales:create"}) \in Registered
  BY DEF Registered, SalesRoutes
<1>4. /\ On("GET /claims", {"claims:read"}) \in Registered
      /\ On("POST /claims/redeem", {"claims:redeem"}) \in Registered
  BY DEF Registered, ClaimsRoutes
<1>5. /\ On("GET /transfers", {"transfers:manage"}) \in Registered
      /\ On("GET /transfers/incoming", {"transfers:accept", "transfers:reject"}) \in Registered
      /\ On("GET /transfers/outgoing", {"transfers:request"}) \in Registered
      /\ On("POST /transfers/:id/accept", {"transfers:accept", "transfers:manage"}) \in Registered
      /\ On("POST /transfers/:id/reject", {"transfers:reject", "transfers:manage"}) \in Registered
      /\ On("POST /transfers/:id/cancel", {"transfers:request", "transfers:manage"}) \in Registered
  BY DEF Registered, TransfersRoutes
<1>6. /\ On("GET /incidents", {"incidents:read", "incidents:read_own"}) \in Registered
      /\ On("GET /incidents/:id", {"incidents:read", "incidents:read_own"}) \in Registered
  BY DEF Registered, IncidentsRoutes
<1>7. /\ On("GET /certificates", {"certificates:read", "certificates:read_own"}) \in Registered
      /\ On("POST /certificates", {"certificates:create"}) \in Registered
      /\ On("GET /certificates/:id/download", {"certificates:read", "certificates:download_own"}) \in Registered
      /\ On("POST /certificates/:id/revoke", {"certificates:revoke"}) \in Registered
  BY DEF Registered, CertificatesRoutes
<1>8. /\ On("GET /services", {"services:read", "services:request"}) \in Registered
      /\ On("POST /services/:id/start", {"services:create", "services:complete"}) \in Registered
      /\ On("POST /services/:id/complete", {"services:complete"}) \in Registered
      /\ On("POST /services/:id/cancel", {"services:create", "services:complete", "services:request"}) \in Registered
  BY DEF Registered, ServicesRoutes
<1>9. /\ On("GET /notifications", {"notifications:read_own"}) \in Registered
      /\ On("PATCH /notifications/:id/read", {"notifications:update_own"}) \in Registered
      /\ On("PATCH /notifications/read-all", {"notifications:update_own"}) \in Registered
  BY DEF Registered, NotificationsRoutes
<1>10. /\ On("GET /webhooks", {"webhooks:manage_own", "webhooks:manage"}) \in Registered
       /\ On("POST /webhooks", {"webhooks:manage_own", "webhooks:manage"}) \in Registered
       /\ On("PATCH /webhooks/:id", {"webhooks:manage_own", "webhooks:manage"}) \in Registered
       /\ On("POST /webhooks/:id/secret", {"webhooks:manage_own", "webhooks:manage"}) \in Registered
       /\ On("DELETE /webhooks/:id", {"webhooks:manage_own", "webhooks:manage"}) \in Registered
       /\ On("GET /webhooks/:id/deliveries", {"webhooks:manage_own", "webhooks:manage"}) \in Registered
  BY DEF Registered, WebhooksRoutes
<1>11. /\ On("GET /users", {"sales:create"}) \in Registered
       /\ On("PATCH /users/me", {}) \in Registered
       /\ On("GET /users/me/sessions", {}) \in Registered
       /\ On("DELETE /users/me/sessions/:id", {}) \in Registered
  BY DEF Registered, UsersRoutes
<1> QED
  BY <1>1, <1>2, <1>3, <1>4, <1>5, <1>6, <1>7, <1>8, <1>9, <1>10, <1>11, LetInBy, Zenon

\* What one permission of the seed implies of another: the tables of roles.
LEMMA RoleTables ==
  ASSUME NEW r \in Role
  PROVE /\ Holds(r, {"sales:read", "sales:create"}) => Holds(r, {"sales:read"})
        /\ Holds(r, {"transfers:request", "transfers:accept", "transfers:reject"})
             => /\ Holds(r, {"transfers:accept", "transfers:reject"})
                /\ Holds(r, {"transfers:request"})
        /\ Holds(r, {"pieces:create"}) => Holds(r, {"products:read"})
        /\ Holds(r, {"pieces:list", "pieces:read_own"})
        /\ Holds(r, {"pieces:list"}) => Holds(r, {"pieces:read"})
        /\ Holds(r, {"incidents:read", "incidents:read_own"})
        /\ Holds(r, {"pieces:read", "pieces:read_own"})
        /\ Holds(r, {"notifications:update_own"})
        /\ ~Holds(r, {"none"})
<1>1. CASE r = "CUSTOMER"
  <2>1. Permissions[r] = Customer
    BY <1>1 DEF Permissions, Role
  <2> QED  BY <2>1 DEF Holds, Customer
<1>2. CASE r = "STAFF"
  <2>1. Permissions[r] = Staff
    BY <1>2 DEF Permissions, Role
  <2> QED  BY <2>1 DEF Holds, Staff
<1>3. CASE r = "ADMIN"
  <2>1. Permissions[r] = Admin
    BY <1>3 DEF Permissions, Role
  <2> QED  BY <2>1 DEF Holds, Admin, Staff
<1>4. CASE r = "SUPER_ADMIN"
  <2>1. Permissions[r] = Permission
    BY <1>4 DEF Permissions, Role
  <2> QED  BY <2>1 DEF Holds, Permission, Admin, Staff, Customer
<1> QED  BY <1>1, <1>2, <1>3, <1>4 DEF Role

\* More permissions asked for let in more roles.
LEMMA HoldsMore ==
  ASSUME NEW r, NEW X, NEW Y, X # {}, X \subseteq Y, Holds(r, X)
  PROVE Holds(r, Y)
  BY DEF Holds

\* Whom a page is for may make the calls of its handlers, but for OddRoute.
LEMMA PermittedAt ==
  ASSUME NEW p \in LoadPage
  PROVE /\ p = "products" => Permitted[p] = {"products:read"}
        /\ p = "pieces" => Permitted[p] = {"pieces:list", "pieces:read_own"}
        /\ p = "piece-detail" => Permitted[p] = {"pieces:read", "pieces:read_own"}
        /\ p = "sales" => Permitted[p] = {"sales:read", "sales:create"}
        /\ p = "certificates" =>
             Permitted[p] = {"certificates:read", "certificates:read_own"}
        /\ p = "services" => Permitted[p] = {"services:read", "services:request"}
        /\ p = "notifications" => Permitted[p] = {"notifications:read_own"}
        /\ p = "webhooks" => Permitted[p] = {"webhooks:manage_own", "webhooks:manage"}
        /\ p = "profile" => Permitted[p] = {}
  BY DEF Permitted, LoadPage, Page

LEMMA LoadAllowed ==
  ASSUME NEW r \in Role, NEW p \in LoadPage, Holds(r, Permitted[p]),
         NEW t \in TransfersTabs(r)
  PROVE Allowed(r, p, View(p, t).load)
<1>0. t \in Tabs
  BY TabsOfUser
<1>1. CASE p = "products"
  <2>1. Holds(r, {"products:read"})
    BY <1>1, PermittedAt
  <2> QED  BY <1>0, <1>1, <2>1, LoadsOfPages, RoutesOpen DEF Allowed
<1>2. CASE p = "pieces"
  <2>1. Holds(r, {"pieces:list", "pieces:read_own"})
    BY <1>2, PermittedAt
  <2> QED  BY <1>0, <1>2, <2>1, LoadsOfPages, RoutesOpen DEF Allowed
<1>3. CASE p = "piece-detail"
  <2>1. Holds(r, {"pieces:read", "pieces:read_own"})
    BY <1>3, PermittedAt
  <2> QED  BY <1>0, <1>3, <2>1, LoadsOfPages, RoutesOpen DEF Allowed
<1>4. CASE p = "sales"
  <2>1. Holds(r, {"sales:read", "sales:create"})
    BY <1>4, PermittedAt
  <2> QED  BY <1>0, <1>4, <2>1, LoadsOfPages, RoleTables, RoutesOpen DEF Allowed
<1>5. CASE p = "claims"
  BY <1>0, <1>5, LoadsOfPages, RoutesOpen DEF Allowed, OddRoute
<1>6. CASE p = "transfers"
  <2>1. CASE t = "incoming"
    BY <1>0, <1>6, <2>1, LoadsOfPages, RoleTables, RoutesOpen
       DEF Allowed, OddRoute
  <2>2. CASE t = "outgoing"
    BY <1>0, <1>6, <2>2, LoadsOfPages, RoleTables, RoutesOpen
       DEF Allowed, OddRoute
  <2>3. CASE t = "all"
    <3>1. Holds(r, {"transfers:manage"})
      BY <2>3 DEF TransfersTabs, canManage
    <3> QED  BY <1>0, <1>6, <2>3, <3>1, LoadsOfPages, RoutesOpen DEF Allowed
  <2> QED  BY <1>0, <2>1, <2>2, <2>3 DEF Tabs
<1>7. CASE p = "incidents"
  BY <1>0, <1>7, LoadsOfPages, RoleTables, RoutesOpen DEF Allowed
<1>8. CASE p = "certificates"
  <2>1. Holds(r, {"certificates:read", "certificates:read_own"})
    BY <1>8, PermittedAt
  <2> QED  BY <1>0, <1>8, <2>1, LoadsOfPages, RoutesOpen DEF Allowed
<1>9. CASE p = "services"
  <2>1. Holds(r, {"services:read", "services:request"})
    BY <1>9, PermittedAt
  <2> QED  BY <1>0, <1>9, <2>1, LoadsOfPages, RoutesOpen DEF Allowed
<1>10. CASE p = "notifications"
  <2>1. Holds(r, {"notifications:read_own"})
    BY <1>10, PermittedAt
  <2> QED  BY <1>0, <1>10, <2>1, LoadsOfPages, RoutesOpen DEF Allowed
<1>11. CASE p = "webhooks"
  <2>1. Holds(r, {"webhooks:manage_own", "webhooks:manage"})
    BY <1>11, PermittedAt
  <2> QED  BY <1>0, <1>11, <2>1, LoadsOfPages, RoutesOpen DEF Allowed
<1>12. CASE p = "profile"
  <2>1. Holds(r, {})
    BY <1>12, PermittedAt
  <2> QED  BY <1>0, <1>12, <2>1, LoadsOfPages, RoutesOpen DEF Allowed
<1> QED
  BY <1>1, <1>2, <1>3, <1>4, <1>5, <1>6, <1>7, <1>8, <1>9, <1>10, <1>11,
     <1>12 DEF LoadPage, Page

LEMMA ToolAllowed ==
  ASSUME NEW r, NEW p \in LoadPage, Holds(r, Permitted[p]), NEW t \in Tabs,
         NEW tool \in View(p, t).tools
  PROVE Allowed(r, p, tool)
<1>1. CASE p = "webhooks"
  <2>1. tool \in {"PATCH /webhooks/:id", "POST /webhooks/:id/secret",
                  "DELETE /webhooks/:id", "GET /webhooks/:id/deliveries"}
    BY <1>1 DEF View, WebhooksPage, webhooksApi
  <2>2. Holds(r, {"webhooks:manage_own", "webhooks:manage"})
    BY <1>1, PermittedAt
  <2> QED  BY <2>1, <2>2, RoutesOpen DEF Allowed
<1>2. CASE p = "profile"
  <2>1. tool \in {"PATCH /users/me", "DELETE /users/me/sessions/:id"}
    BY <1>2 DEF View, ProfilePage, usersApi
  <2>2. Holds(r, {})
    BY DEF Holds
  <2> QED  BY <2>1, <2>2, RoutesOpen DEF Allowed
<1>3. CASE p \notin {"webhooks", "profile"}
  <2>1. View(p, t).tools = {}
    BY <1>3 DEF LoadPage, Page, View, ProductsPage, PiecesPage, SalesPage,
                ClaimsPage, PieceDetailPage, TransfersPage, IncidentsPage,
                CertificatesPage, ServicesPage, NotificationsPage
  <2> QED  BY <2>1
<1> QED  BY <1>1, <1>2, <1>3

LEMMA Listed ==
  ASSUME NEW s, NEW a, s = <<a>>
  PROVE \A i \in 1 .. Len(s) : s[i] = a
  OBVIOUS

\* Whom a page is for, and who has the button of its dialog, may make the calls
\* that open it and post it.
LEMMA DialogAllowed ==
  ASSUME NEW r \in Role, NEW p \in LoadPage, Holds(r, Permitted[p]),
         NEW t \in Tabs, MayOpen(r, p)
  PROVE /\ \A i \in 1 .. Len(View(p, t).form.loads) :
             Allowed(r, p, View(p, t).form.loads[i])
        /\ Allowed(r, p, View(p, t).form.posts)
<1>0. Holds(r, View(p, t).form.button)
  BY DEF MayOpen
<1>13. Allowed(r, p, "GET /pieces")
  BY RoleTables, RoutesOpen DEF Allowed
<1>1. CASE p = "products"
  <2>0. FormIs(View(p, t).form, {"products:create"},
                <<>>, "POST /products", {})
    BY <1>1, FormsOfPages
  <2>1. View(p, t).form.loads = <<>>
    BY <2>0 DEF FormIs
  <2>2. View(p, t).form.posts = "POST /products"
    BY <2>0 DEF FormIs
  <2>3. Holds(r, {"products:create"})
    <3>1. View(p, t).form.button = {"products:create"}
      BY <2>0 DEF FormIs
    <3> QED  BY <1>0, <3>1
  <2>5. Allowed(r, p, "POST /products")
    BY <2>3, RoutesOpen DEF Allowed
  <2>7. \A i \in 1 .. Len(View(p, t).form.loads) : FALSE
    BY <2>1
  <2> QED  BY <1>13, <2>2, <2>5, <2>7
<1>2. CASE p = "pieces"
  <2>0. FormIs(View(p, t).form, {"pieces:create"},
                <<"GET /products">>, "POST /pieces", {})
    BY <1>2, FormsOfPages
  <2>1. View(p, t).form.loads = <<"GET /products">>
    BY <2>0 DEF FormIs
  <2>2. View(p, t).form.posts = "POST /pieces"
    BY <2>0 DEF FormIs
  <2>3. Holds(r, {"pieces:create"})
    <3>1. View(p, t).form.button = {"pieces:create"}
      BY <2>0 DEF FormIs
    <3> QED  BY <1>0, <3>1
  <2>5. Allowed(r, p, "POST /pieces")
    BY <2>3, RoutesOpen DEF Allowed
  <2>6. Allowed(r, p, "GET /products")
    BY <2>3, RoleTables, RoutesOpen DEF Allowed
  <2>7. \A i \in 1 .. Len(View(p, t).form.loads) :
          View(p, t).form.loads[i] = "GET /products"
    BY <2>1, Listed, Zenon
  <2> QED  BY <1>13, <2>2, <2>5, <2>6, <2>7
<1>3. CASE p = "sales"
  <2>0. FormIs(View(p, t).form, {"sales:create"},
                <<"GET /pieces", "GET /users">>, "POST /sales", {"AVAILABLE"})
    BY <1>3, FormsOfPages
  <2>1. View(p, t).form.loads = <<"GET /pieces", "GET /users">>
    BY <2>0 DEF FormIs
  <2>2. View(p, t).form.posts = "POST /sales"
    BY <2>0 DEF FormIs
  <2>3. Holds(r, {"sales:create"})
    <3>1. View(p, t).form.button = {"sales:create"}
      BY <2>0 DEF FormIs
    <3> QED  BY <1>0, <3>1
  <2>5. Allowed(r, p, "POST /sales")
    BY <2>3, RoutesOpen DEF Allowed
  <2>6. Allowed(r, p, "GET /users")
    BY <2>3, RoutesOpen DEF Allowed
  <2>7. \A i \in 1 .. Len(View(p, t).form.loads) :
          \/ View(p, t).form.loads[i] = "GET /pieces"
          \/ View(p, t).form.loads[i] = "GET /users"
    <3>1. PICK s : s = View(p, t).form.loads
      OBVIOUS
    <3>2. s = <<"GET /pieces", "GET /users">>
      BY <2>1, <3>1
    <3>3. Len(s) = 2 /\ s[1] = "GET /pieces" /\ s[2] = "GET /users"
      BY <3>2
    <3>4. \A i \in 1 .. Len(s) : i = 1 \/ i = 2
      <4>1. Len(s) = 2
        BY <3>3, Zenon
      <4>2. \A i \in 1 .. 2 : i = 1 \/ i = 2
        OBVIOUS
      <4> QED  BY <4>1, <4>2, Zenon
    <3>5. \A i \in 1 .. Len(s) : s[i] = "GET /pieces" \/ s[i] = "GET /users"
      BY <3>3, <3>4, Zenon
    <3> QED  BY <3>1, <3>5
  <2> QED  BY <1>13, <2>2, <2>5, <2>6, <2>7
<1>4. CASE p = "claims"
  <2>0. FormIs(View(p, t).form, {"claims:redeem"},
                <<>>, "POST /claims/redeem", {})
    BY <1>4, FormsOfPages
  <2>1. View(p, t).form.loads = <<>>
    BY <2>0 DEF FormIs
  <2>2. View(p, t).form.posts = "POST /claims/redeem"
    BY <2>0 DEF FormIs
  <2>3. Holds(r, {"claims:redeem"})
    <3>1. View(p, t).form.button = {"claims:redeem"}
      BY <2>0 DEF FormIs
    <3> QED  BY <1>0, <3>1
  <2>5. Allowed(r, p, "POST /claims/redeem")
    BY <2>3, RoutesOpen DEF Allowed
  <2>7. \A i \in 1 .. Len(View(p, t).form.loads) : FALSE
    BY <2>1
  <2> QED  BY <1>13, <2>2, <2>5, <2>7
<1>5. CASE p = "webhooks"
  <2>0. FormIs(View(p, t).form, {},
                <<>>, "POST /webhooks", {})
    BY <1>5, FormsOfPages
  <2>1. View(p, t).form.loads = <<>>
    BY <2>0 DEF FormIs
  <2>2. View(p, t).form.posts = "POST /webhooks"
    BY <2>0 DEF FormIs
  <2>3. Holds(r, {})
    BY DEF Holds
  <2>4. Holds(r, {"webhooks:manage_own", "webhooks:manage"})
    BY <1>5, PermittedAt
  <2>5. Allowed(r, p, "POST /webhooks")
    BY <2>4, RoutesOpen DEF Allowed
  <2>7. \A i \in 1 .. Len(View(p, t).form.loads) : FALSE
    BY <2>1
  <2> QED  BY <1>13, <2>2, <2>5, <2>7
<1>6. CASE p = "transfers"
  <2>0. FormIs(View(p, t).form, {"transfers:request", "transfers:manage"},
                <<"GET /pieces", "GET /users">>, "POST /transfers", AnyPiece)
    BY <1>6, FormsOfPages
  <2>1. View(p, t).form.loads = <<"GET /pieces", "GET /users">>
    BY <2>0 DEF FormIs
  <2>2. View(p, t).form.posts = "POST /transfers"
    BY <2>0 DEF FormIs
  <2>3. Holds(r, {"transfers:request", "transfers:manage"})
    <3>1. View(p, t).form.button = {"transfers:request", "transfers:manage"}
      BY <2>0 DEF FormIs
    <3> QED  BY <1>0, <3>1
  <2>5. Allowed(r, p, "POST /transfers")
    BY DEF Allowed, OddRoute
  <2>6. Allowed(r, p, "GET /users")
    BY <1>6, RoutesOpen DEF Allowed, OddRoute
  <2>7. \A i \in 1 .. Len(View(p, t).form.loads) :
          \/ View(p, t).form.loads[i] = "GET /pieces"
          \/ View(p, t).form.loads[i] = "GET /users"
    <3>1. PICK s : s = View(p, t).form.loads
      OBVIOUS
    <3>2. s = <<"GET /pieces", "GET /users">>
      BY <2>1, <3>1
    <3>3. Len(s) = 2 /\ s[1] = "GET /pieces" /\ s[2] = "GET /users"
      BY <3>2
    <3>4. \A i \in 1 .. Len(s) : i = 1 \/ i = 2
      <4>1. Len(s) = 2
        BY <3>3, Zenon
      <4>2. \A i \in 1 .. 2 : i = 1 \/ i = 2
        OBVIOUS
      <4> QED  BY <4>1, <4>2, Zenon
    <3>5. \A i \in 1 .. Len(s) : s[i] = "GET /pieces" \/ s[i] = "GET /users"
      BY <3>3, <3>4, Zenon
    <3> QED  BY <3>1, <3>5
  <2> QED  BY <1>13, <2>2, <2>5, <2>6, <2>7
<1>7. CASE p = "incidents"
  <2>0. FormIs(View(p, t).form, {"incidents:create"},
                <<"GET /pieces">>, "POST /incidents", AnyPiece)
    BY <1>7, FormsOfPages
  <2>1. View(p, t).form.loads = <<"GET /pieces">>
    BY <2>0 DEF FormIs
  <2>2. View(p, t).form.posts = "POST /incidents"
    BY <2>0 DEF FormIs
  <2>3. Holds(r, {"incidents:create"})
    <3>1. View(p, t).form.button = {"incidents:create"}
      BY <2>0 DEF FormIs
    <3> QED  BY <1>0, <3>1
  <2>5. Allowed(r, p, "POST /incidents")
    BY DEF Allowed, OddRoute
  <2>7. \A i \in 1 .. Len(View(p, t).form.loads) :
          View(p, t).form.loads[i] = "GET /pieces"
    BY <2>1, Listed, Zenon
  <2> QED  BY <1>13, <2>2, <2>5, <2>7
<1>8. CASE p = "certificates"
  <2>0. FormIs(View(p, t).form, {"certificates:create"},
                <<"GET /pieces">>, "POST /certificates", AnyPiece)
    BY <1>8, FormsOfPages
  <2>1. View(p, t).form.loads = <<"GET /pieces">>
    BY <2>0 DEF FormIs
  <2>2. View(p, t).form.posts = "POST /certificates"
    BY <2>0 DEF FormIs
  <2>3. Holds(r, {"certificates:create"})
    <3>1. View(p, t).form.button = {"certificates:create"}
      BY <2>0 DEF FormIs
    <3> QED  BY <1>0, <3>1
  <2>5. Allowed(r, p, "POST /certificates")
    BY <2>3, RoutesOpen DEF Allowed
  <2>7. \A i \in 1 .. Len(View(p, t).form.loads) :
          View(p, t).form.loads[i] = "GET /pieces"
    BY <2>1, Listed, Zenon
  <2> QED  BY <1>13, <2>2, <2>5, <2>7
<1>9. CASE p = "services"
  <2>0. FormIs(View(p, t).form, {"services:request", "services:create", "services:complete"},
                <<"GET /pieces">>, "POST /services", AnyPiece)
    BY <1>9, FormsOfPages
  <2>1. View(p, t).form.loads = <<"GET /pieces">>
    BY <2>0 DEF FormIs
  <2>2. View(p, t).form.posts = "POST /services"
    BY <2>0 DEF FormIs
  <2>3. Holds(r, {"services:request", "services:create", "services:complete"})
    <3>1. View(p, t).form.button = {"services:request", "services:create", "services:complete"}
      BY <2>0 DEF FormIs
    <3> QED  BY <1>0, <3>1
  <2>5. Allowed(r, p, "POST /services")
    BY DEF Allowed, OddRoute
  <2>7. \A i \in 1 .. Len(View(p, t).form.loads) :
          View(p, t).form.loads[i] = "GET /pieces"
    BY <2>1, Listed, Zenon
  <2> QED  BY <1>13, <2>2, <2>5, <2>7
<1>10. CASE p \in {"piece-detail", "notifications", "profile"}
  <2>1. View(p, t).form.button = {"none"}
    BY <1>10, FormsOfPages DEF FormIs
  <2> QED  BY <1>0, <2>1, RoleTables
<1> QED
  BY <1>1, <1>2, <1>3, <1>4, <1>5, <1>6, <1>7, <1>8, <1>9, <1>10
     DEF LoadPage, Page

\* The buttons of a row are for whom the API lets in.
LEMMA ButtonAllowed ==
  ASSUME NEW r \in Role, NEW kind \in Kinds, NEW p \in PagesOf(kind),
         NEW t \in Tabs, NEW s, NEW b \in Buttons(r, p, t, s)
  PROVE Allowed(r, p, b)
<1>1. CASE kind = "piece"
  <2>1. p = "piece-detail"
    BY <1>1, PageButtons DEF PagesOf
  <2>2. \/ b = "POST /pieces/:id/status"
        \/ /\ b = "POST /pieces/:id/qr/regenerate"
           /\ Holds(r, {"qr:regenerate"})
        \/ b = "POST /pieces/:id/retire" /\ Holds(r, {"pieces:retire"})
    BY <2>1 DEF Buttons, PieceDetailButtons, piecesApi
  <2> QED  BY <2>2, RoutesOpen DEF Allowed, OddRoute
<1>2. CASE kind = "transfer"
  <2>1. p = "transfers"
    BY <1>2 DEF PagesOf
  <2>2. \/ /\ b = "POST /transfers/:id/accept"
           /\ Holds(r, {"transfers:accept", "transfers:manage"})
        \/ /\ b = "POST /transfers/:id/reject"
           /\ Holds(r, {"transfers:reject", "transfers:manage"})
        \/ /\ b = "POST /transfers/:id/cancel"
           /\ \/ Holds(r, {"transfers:request", "transfers:manage"})
              \/ Holds(r, {"transfers:manage"})
    BY <2>1 DEF Buttons, TransfersButtons, transfersApi, canManage
  <2>3. Holds(r, {"transfers:manage"})
          => Holds(r, {"transfers:request", "transfers:manage"})
    BY DEF Holds
  <2> QED  BY <2>2, <2>3, RoutesOpen DEF Allowed
<1>3. CASE kind = "incident"
  <2>1. b = "GET /incidents/:id"
    BY <1>3 DEF PagesOf, Buttons, IncidentsButtons, incidentsApi
  <2> QED  BY <2>1, RoleTables, RoutesOpen DEF Allowed
<1>4. CASE kind = "certificate"
  <2>1. p = "certificates"
    BY <1>4 DEF PagesOf
  <2>2. \/ /\ b = "GET /certificates/:id/download"
           /\ Holds(r, {"certificates:download_own", "certificates:read"})
        \/ b = "POST /certificates/:id/revoke" /\ Holds(r, {"certificates:revoke"})
    BY <2>1 DEF Buttons, CertificatesButtons, certificatesApi
  <2>3. Holds(r, {"certificates:download_own", "certificates:read"})
          => Holds(r, {"certificates:read", "certificates:download_own"})
    BY DEF Holds
  <2> QED  BY <2>2, <2>3, RoutesOpen DEF Allowed
<1>5. CASE kind = "service"
  <2>1. p = "services"
    BY <1>5 DEF PagesOf
  <2>2. \/ /\ b = "POST /services/:id/start"
           /\ Holds(r, {"services:create", "services:complete"})
        \/ b = "POST /services/:id/complete" /\ Holds(r, {"services:complete"})
        \/ /\ b = "POST /services/:id/cancel"
           /\ \/ Holds(r, {"services:create", "services:complete"})
              \/ Holds(r, {"services:request"})
    BY <2>1 DEF Buttons, ServicesButtons, servicesApi, canStart, canCancel
  <2>3. \/ Holds(r, {"services:create", "services:complete"})
        \/ Holds(r, {"services:request"})
        => Holds(r, {"services:create", "services:complete", "services:request"})
    BY DEF Holds
  <2> QED  BY <2>2, <2>3, RoutesOpen DEF Allowed
<1>6. CASE kind = "notice"
  <2>1. p = "notifications"
    BY <1>6 DEF PagesOf
  <2>2. b \in {"PATCH /notifications/:id/read", "PATCH /notifications/read-all"}
    BY <2>1 DEF Buttons, NotificationsButtons, notificationsApi
  <2> QED  BY <2>2, RoleTables, RoutesOpen DEF Allowed
<1> QED  BY <1>1, <1>2, <1>3, <1>4, <1>5, <1>6 DEF Kinds

\* A button that is drawn from what is so takes, but for OddRow.
LEMMA ButtonTaken ==
  ASSUME NEW r \in Role, NEW rw \in Row, NEW p \in PagesOf(rw.kind),
         NEW t \in Tabs, NEW s, s # Nothing, s.fresh, s.tab = t,
         Truth(rw, s), InList(r, rw, p, s), NEW b \in Buttons(r, p, t, s)
  PROVE Taken(r, rw, b)
<1>0. rw.kind \in Kinds /\ s.status = rw.status
  BY RowKinds DEF Truth
<1>1. CASE rw.kind = "piece"
  <2>1. p = "piece-detail"
    BY <1>0, <1>1, PageButtons DEF PagesOf
  <2>2. \/ b \in {"POST /pieces/:id/status", "POST /pieces/:id/qr/regenerate"}
        \/ b = "POST /pieces/:id/retire" /\ rw.status # "RETIRED"
    BY <1>0, <2>1 DEF Buttons, PieceDetailButtons, piecesApi
  <2> QED  BY <1>1, <2>2 DEF Taken, OddRow, Takes, PieceTakes
<1>2. CASE rw.kind = "transfer"
  <2>1. p = "transfers"
    BY <1>2 DEF PagesOf
  <2>2. /\ t = "incoming" => rw.tie = "to"
        /\ t = "outgoing" => rw.tie = "from"
    BY <1>2 DEF InList
  <2>3. /\ rw.status = "PENDING"
        /\ \/ /\ b \in {"POST /transfers/:id/accept", "POST /transfers/:id/reject"}
              /\ t = "incoming"
           \/ /\ b = "POST /transfers/:id/cancel"
              /\ t = "outgoing" \/ Holds(r, {"transfers:manage"})
    BY <1>0, <2>1 DEF Buttons, TransfersButtons, transfersApi, canManage
  <2>4. rw.bar = "none" => Takes(r, b, rw)
    BY <1>2, <2>2, <2>3 DEF Takes, TransferTakes
  <2> QED  BY <1>2, <2>4 DEF Taken, OddRow
<1>3. CASE rw.kind = "incident"
  <2>1. b = "GET /incidents/:id"
    BY <1>3 DEF PagesOf, Buttons, IncidentsButtons, incidentsApi
  <2>2. IncidentsShow(r, rw)
    BY <1>3 DEF InList
  <2> QED  BY <1>3, <2>1, <2>2 DEF Taken, Takes, Shows, Lists
<1>4. CASE rw.kind = "certificate"
  <2>1. p = "certificates"
    BY <1>4 DEF PagesOf
  <2>2. /\ b \in {"GET /certificates/:id/download", "POST /certificates/:id/revoke"}
        /\ rw.status = "ACTIVE"
    BY <1>0, <2>1 DEF Buttons, CertificatesButtons, certificatesApi
  <2>3. CertificatesShow(r, rw)
    BY <1>4 DEF InList
  <2> QED  BY <1>4, <2>2, <2>3 DEF Taken, Takes, CertificateTakes
<1>5. CASE rw.kind = "service"
  <2>1. p = "services"
    BY <1>5 DEF PagesOf
  <2>2. s.own = (rw.tie = "requester")
    BY <1>5 DEF Truth
  <2>3. \/ b = "POST /services/:id/start" /\ rw.status = "REQUESTED"
        \/ /\ b = "POST /services/:id/complete"
           /\ rw.status \in {"REQUESTED", "IN_PROGRESS"}
        \/ /\ b = "POST /services/:id/cancel" /\ rw.status = "REQUESTED"
           /\ Holds(r, {"services:create", "services:complete"}) \/ s.own
    BY <1>0, <2>1 DEF Buttons, ServicesButtons, servicesApi, canStart, canCancel
  <2> QED  BY <1>5, <2>2, <2>3 DEF Taken, Takes, ServiceTakes
<1>6. CASE rw.kind = "notice"
  <2>1. b \in RowRoute("notice")
    BY <1>0, <1>6, PageButtons
  <2> QED  BY <1>6, <2>1 DEF RowRoute, Taken, Takes
<1> QED  BY <1>0, <1>1, <1>2, <1>3, <1>4, <1>5, <1>6 DEF Kinds

\* So does a form that picks what is so, and the page of a piece in the list.
LEMMA PickTaken ==
  ASSUME NEW r, NEW rw, rw.kind = "piece", NEW p \in LoadPage, NEW t \in Tabs,
         View(p, t).form.pieces # {}, rw.status \in View(p, t).form.pieces
  PROVE Taken(r, rw, View(p, t).form.posts)
<1>1. View(p, t).form.posts \in PickingPost
  BY PageForms
<1>2. CASE View(p, t).form.posts = "POST /sales"
  <2>1. p = "sales"
    BY <1>2, FormsOfPages DEF FormIs, LoadPage, Page
  <2>2. View(p, t).form.pieces = {"AVAILABLE"}
    BY <2>1, FormsOfPages DEF FormIs
  <2>3. rw.status = "AVAILABLE"
    BY <2>2
  <2> QED  BY <1>2, <2>3 DEF Taken, OddRow, Takes, PieceTakes
<1>3. CASE View(p, t).form.posts # "POST /sales"
  BY <1>1, <1>3 DEF PickingPost, Taken, OddRow, Takes, PieceTakes
<1> QED  BY <1>2, <1>3

LEMMA DetailTaken ==
  ASSUME NEW r \in Role, NEW rw \in Row, rw.kind = "piece", NEW s,
         s # Nothing, s.fresh, InList(r, rw, "pieces", s)
  PROVE Taken(r, rw, "GET /pieces/:id")
<1>1. Holds(r, {"pieces:list"}) \/ rw.tie \in {"owner", "former"}
  BY DEF InList
<1>2. Holds(r, {"pieces:list"}) => Holds(r, {"pieces:read"})
  BY RoleTables
<1>3. CASE rw.tie = "former"
  BY <1>3 DEF Taken, OddRow
<1>4. CASE Holds(r, {"pieces:read"}) \/ rw.tie = "owner"
  <2>1. PiecesShow(r, "GET /pieces/:id", rw)
    BY <1>4 DEF PiecesShow
  <2>2. "GET /pieces/:id" \in Lists(rw.kind)
    BY DEF Lists
  <2>3. Shows(r, "GET /pieces/:id", rw)
    BY <2>1, <2>2 DEF Shows
  <2>4. Takes(r, "GET /pieces/:id", rw)
    BY <2>3 DEF Takes
  <2> QED  BY <2>4 DEF Taken
<1> QED  BY <1>1, <1>2, <1>3, <1>4

-----------------------------------------------------------------------------
(* Calls stay honest                                                        *)

LEMMA NothingTrue ==
  ASSUME NEW r, NEW rw, NEW p
  PROVE Truth(rw, Nothing) /\ InList(r, rw, p, Nothing)
  BY DEF Truth, InList

LEMMA IdleHonest ==
  ASSUME NEW r, NEW rw, NEW p
  PROVE Honest(r, rw, p, IdleCall)
<1>1. IdleCall.seen = Nothing /\ ~IdleCall.live
  BY DEF IdleCall
<1> QED  BY <1>1, NothingTrue DEF Honest

LEMMA SentHonest ==
  ASSUME NEW r, NEW rw, NEW p, NEW of, NEW route, NEW about, NEW fresh,
         of = "dialog" => MayOpen(r, p), Allowed(r, p, route),
         fresh => Taken(r, rw, route)
  PROVE Honest(r, rw, p, Sent(of, route, about, fresh))
<1> DEFINE k == Sent(of, route, about, fresh)
<1>1. /\ k.seen = Nothing /\ ~k.load /\ k.of = of /\ k.route = route
      /\ k.fresh = fresh
  BY DEF Sent
<1> HIDE DEF k
<1>2. Honest(r, rw, p, k)
  BY <1>1, NothingTrue DEF Honest
<1> QED  BY <1>2 DEF k

LEMMA LoadHonest ==
  ASSUME NEW r, NEW rw, NEW of \in Handler \ {"dialog"}, NEW p \in LoadPage,
         NEW t \in Tabs, NEW fresh \in BOOLEAN,
         Allowed(r, p, View(p, t).load),
         fresh => Taken(r, rw, View(p, t).load)
  PROVE Honest(r, rw, p, LoadOf(of, p, t, fresh))
<1> DEFINE k == LoadOf(of, p, t, fresh)
<1>0. of \in Handler
  OBVIOUS
<1>1. /\ k.seen = Nothing /\ k.of = of /\ k.route = View(p, t).load
      /\ k.fresh <=> fresh
  BY <1>0, LoadFields
<1> HIDE DEF k
<1>2. Honest(r, rw, p, k)
  BY <1>1, NothingTrue DEF Honest
<1> QED  BY <1>2 DEF k

LEMMA UnmountedHonest ==
  ASSUME NEW r, NEW rw, NEW p, NEW k \in CallRecord
  PROVE Honest(r, rw, p, Unmounted(k))
<1>1. Unmounted(k).seen = Nothing /\ ~Unmounted(k).live
  BY DEF Unmounted, CallRecord
<1> QED  BY <1>1, NothingTrue DEF Honest

LEMMA StrayHonest ==
  ASSUME NEW r, NEW rw, NEW p, NEW t \in Tabs
  PROVE Honest(r, rw, p,
               [LoadOf("qr", "piece-detail", t, FALSE) EXCEPT !.live = FALSE])
<1>0. "piece-detail" \in LoadPage /\ "qr" \in Handler
  BY DEF LoadPage, Page, Handler
<1>1. PICK k : k = LoadOf("qr", "piece-detail", t, FALSE)
  OBVIOUS
<1>2. k \in CallRecord /\ k.seen = Nothing
  <2>1. k \in CallRecord
    BY <1>0, <1>1, LoadFields
  <2>2. k.seen = Nothing
    BY <1>0, <1>1, LoadFields
  <2> QED  BY <2>1, <2>2
<1>3. /\ [k EXCEPT !.live = FALSE].seen = Nothing
      /\ ~[k EXCEPT !.live = FALSE].live
  BY <1>2 DEF CallRecord
<1>4. Honest(r, rw, p, [k EXCEPT !.live = FALSE])
  BY <1>3, NothingTrue DEF Honest
<1> QED  BY <1>1, <1>4

\* The row has changed: what was told of it is no longer claimed.
LEMMA AgedTrue ==
  ASSUME NEW r, NEW rw, NEW p, NEW q, NEW s \in Snapshot,
         q.kind = rw.kind, rw.kind = "transfer" => q.tie = rw.tie
  PROVE /\ Truth(q, Aged(s))
        /\ InList(r, rw, p, s) => InList(r, q, p, Aged(s))
<1>1. CASE s = Nothing
  BY <1>1, NothingTrue DEF Aged
<1>2. CASE s # Nothing
  <2>1. s \in Picture
    BY <1>2 DEF Snapshot
  <2>2. Aged(s).tab = s.tab /\ ~Aged(s).fresh
    BY <1>2, <2>1 DEF Aged, Picture
  <2> QED  BY <1>2, <2>2 DEF Truth, InList
<1> QED  BY <1>1, <1>2

LEMMA AgedHonest ==
  ASSUME NEW r, NEW rw, NEW p, NEW q, NEW k \in CallRecord,
         Honest(r, rw, p, k),
         q.kind = rw.kind, rw.kind = "transfer" => q.tie = rw.tie
  PROVE Honest(r, q, p, AgedCall(k))
<1>1. PICK s \in Snapshot : s = k.seen
  BY DEF CallRecord
<1>2. PICK a \in Snapshot : a = Aged(s)
  BY Ages
<1>3. Truth(q, a) /\ (InList(r, rw, p, s) => InList(r, q, p, a))
  BY <1>2, AgedTrue
<1>4. PICK m : m = AgedCall(k)
  OBVIOUS
<1>5. /\ m.seen = a /\ m.live = k.live /\ m.load = k.load /\ m.of = k.of
      /\ m.pc = k.pc /\ m.route = k.route /\ ~m.fresh
  BY <1>1, <1>2, <1>4 DEF AgedCall, CallRecord
<1>6. Honest(r, q, p, m)
  BY <1>1, <1>3, <1>5 DEF Honest
<1> QED  BY <1>4, <1>6

LEMMA ServedHonest ==
  ASSUME NEW r, NEW rw, NEW p, NEW k \in CallRecord, NEW s \in Snapshot,
         k.live /\ k.of = "dialog" => MayOpen(r, p),
         Truth(rw, s), k.live /\ k.load => InList(r, rw, p, s)
  PROVE Honest(r, rw, p, Served(k, s))
<1>1. PICK m : m = Served(k, s)
  OBVIOUS
<1>2. /\ m.seen = s /\ m.live = k.live /\ m.load = k.load /\ m.of = k.of
      /\ m.pc = "served" /\ ~m.fresh
  BY <1>1 DEF Served, CallRecord
<1>3. Honest(r, rw, p, m)
  BY <1>2 DEF Honest
<1> QED  BY <1>1, <1>3

LEMMA RefusedHonest ==
  ASSUME NEW r, NEW rw, NEW p, NEW k \in CallRecord, Honest(r, rw, p, k)
  PROVE Honest(r, rw, p, Refused(k))
<1>1. PICK m : m = Refused(k)
  OBVIOUS
<1>2. /\ m.seen = k.seen /\ m.live = k.live /\ m.load = k.load /\ m.of = k.of
      /\ m.pc = "refused" /\ ~m.fresh
  BY <1>1 DEF Refused, CallRecord
<1>3. Honest(r, rw, p, m)
  BY <1>2 DEF Honest
<1> QED  BY <1>1, <1>3

\* What a page may do, from the two invariants.
LEMMA Here ==
  ASSUME PortalInv, Honesty
  PROVE /\ role \in Role /\ tab \in TransfersTabs(role) /\ tab \in Tabs
        /\ row \in Row /\ row.kind \in Kinds
        /\ page \in LoadPage =>
             Holds(role, Permitted[page]) /\ Allowed(role, page, View(page, tab).load)
        /\ dialog => page \in LoadPage /\ MayOpen(role, page)
        /\ \A c \in Call : /\ call[c] \in CallRecord
                           /\ Honest(role, row, page, call[c])
<1>1. role \in Role /\ tab \in TransfersTabs(role) /\ tab \in Tabs
  BY PortalAssumption, TabsOfUser DEF PortalInv, Fields, Honesty
<1>2. page \in LoadPage => Holds(role, Permitted[page])
  BY DEF LoadPage, Honesty
<1>3. page \in LoadPage => Allowed(role, page, View(page, tab).load)
  BY <1>1, <1>2, LoadAllowed
<1>4. dialog => page \in LoadPage /\ MayOpen(role, page)
  BY DEF PortalInv, Pages, Honesty
<1>5. row \in Row /\ row.kind \in Kinds
  BY RowKind DEF PortalInv
<1>6. \A c \in Call : call[c] \in CallRecord
  BY CallFacts DEF PortalInv
<1>7. \A c \in Call : Honest(role, row, page, call[c])
  BY DEF Honesty
<1> QED  BY <1>1, <1>2, <1>3, <1>4, <1>5, <1>6, <1>7

\* A step that changes one call, on the same page and for the same row.
LEMMA HonestOne ==
  ASSUME PortalInv, Honesty, role' = role, row' = row, page' = page,
         tab' \in TransfersTabs(role),
         dialog' => dialog \/ MayOpen(role, page),
         Truth(row, shown'), Truth(row, choice'),
         InList(role, row, page, shown'),
         NEW c \in Call, NEW k, call' = [call EXCEPT ![c] = k],
         Honest(role, row, page, k)
  PROVE Honesty'
<1>1. /\ call'[c] = k
      /\ \A d \in Call \ {c} : call'[d] = call[d]
  BY DEF PortalInv, Calls
<1>2. \A d \in Call : Honest(role, row, page, call'[d])
  <2> SUFFICES ASSUME NEW d \in Call
               PROVE Honest(role, row, page, call'[d])
    OBVIOUS
  <2>1. CASE d = c
    BY <1>1, <2>1, Zenon
  <2>2. CASE d # c
    BY <1>1, <2>2, Zenon DEF Honesty
  <2> QED  BY <2>1, <2>2
<1>3. /\ page \in Page => Holds(role, Permitted[page])
      /\ dialog' => MayOpen(role, page)
  BY DEF Honesty
<1> QED  BY <1>2, <1>3, Zenon DEF Honesty

LEMMA HonestSame ==
  ASSUME PortalInv, Honesty, role' = role, row' = row, page' = page,
         tab' = tab, dialog' => dialog \/ MayOpen(role, page),
         shown' = shown, choice' = choice,
         NEW c \in Call, NEW k, call' = [call EXCEPT ![c] = k],
         Honest(role, row, page, k)
  PROVE Honesty'
<1>1. /\ tab' \in TransfersTabs(role) /\ Truth(row, shown')
      /\ Truth(row, choice') /\ InList(role, row, page, shown')
  BY DEF Honesty
<1> QED  BY <1>1, HonestOne

-----------------------------------------------------------------------------
(* The user's steps, again                                                  *)

LEMMA HonestStart ==
  ASSUME Init
  PROVE Honesty
<1>1. "dashboard" \in Page /\ Holds(role, Permitted["dashboard"])
  BY DEF Page, Permitted, Holds
<1>2. StartTab(role) \in TransfersTabs(role)
  BY DEF StartTab, TransfersTabs, canManage, Holds
<1>3. \A c \in Call : call[c] = IdleCall
  BY DEF Init
<1>4. \A c \in Call : Honest(role, row, page, call[c])
  BY <1>3, IdleHonest
<1> QED  BY <1>1, <1>2, <1>4, NothingTrue DEF Init, Honesty

LEMMA MountedHonest ==
  ASSUME PortalInv, Honesty, NEW c \in Call, NEW p \in Page,
         NEW fresh \in BOOLEAN, Holds(role, Permitted[p]),
         fresh => Taken(role, row, View(p, StartTab(role)).load),
         Mounted(c, p, fresh)
  PROVE Honesty'
<1>1. /\ page' = p /\ tab' = StartTab(role) /\ shown' = Nothing
      /\ dialog' = FALSE /\ choice' = Nothing /\ role' = role /\ row' = row
  BY DEF Mounted
<1>2. StartTab(role) \in TransfersTabs(role)
  BY DEF StartTab, TransfersTabs, canManage, Holds
<1>3. \A d \in Call : Honest(role, row, p, Left[d])
  <2> SUFFICES ASSUME NEW d \in Call PROVE Honest(role, row, p, Left[d])
    OBVIOUS
  <2>1. Left[d] = IF Outlives(d) THEN Unmounted(call[d]) ELSE IdleCall
    BY DEF Left, Unmounted
  <2>2. Honest(role, row, p, Unmounted(call[d]))
    BY Here, UnmountedHonest
  <2> QED  BY <2>1, <2>2, IdleHonest
<1>4. \A d \in Call : Honest(role, row, p, call'[d])
  <2>1. CASE Loads(p)
    <3>1. p \in LoadPage
      BY <2>1 DEF Loads, LoadPage
    <3>2. PICK u \in TransfersTabs(role) : u = StartTab(role)
      BY <1>2
    <3>3. u \in Tabs /\ "page" \in Handler \ {"dialog"} /\ role \in Role
      BY TabsOfUser, Here DEF Handler
    <3>4. PICK k : k = LoadOf("page", p, u, fresh)
      OBVIOUS
    <3>5. Allowed(role, p, View(p, u).load)
      BY <3>1, <3>3, LoadAllowed
    <3>6. Honest(role, row, p, k)
      BY <3>1, <3>2, <3>3, <3>4, <3>5, LoadHonest
    <3>7. call' = [Left EXCEPT ![c] = k]
      BY <2>1, <3>2, <3>4 DEF Mounted
    <3>8. Left \in [Call -> CallRecord]
      BY LeftShape DEF PortalInv
    <3>9. call'[c] = k /\ \A d \in Call \ {c} : call'[d] = Left[d]
      BY <3>7, <3>8
    <3> SUFFICES ASSUME NEW d \in Call
                 PROVE Honest(role, row, p, call'[d])
      OBVIOUS
    <3>10. CASE d = c
      BY <3>6, <3>9, <3>10, Zenon
    <3>11. CASE d # c
      BY <1>3, <3>9, <3>11, Zenon
    <3> QED  BY <3>10, <3>11
  <2>2. CASE ~Loads(p)
    <3>1. call' = Left
      BY <2>2 DEF Mounted
    <3> QED  BY <1>3, <3>1, Zenon
  <2> QED  BY <2>1, <2>2
<1>5. /\ Truth(row', shown') /\ Truth(row', choice')
      /\ InList(role', row', page', shown')
  BY <1>1, NothingTrue
<1>6. /\ page' \in Page => Holds(role', Permitted[page'])
      /\ tab' \in TransfersTabs(role') /\ ~dialog'
      /\ \A d \in Call : Honest(role', row', page', call'[d])
  BY <1>1, <1>2, <1>4, Zenon
<1> QED  BY <1>5, <1>6, Zenon DEF Honesty

LEMMA OpenHonest ==
  ASSUME PortalInv, Honesty, NEW c \in Call, NEW p \in Destinations, Open(c, p)
  PROVE Honesty'
<1>1. PICK q \in Page : p = Guarded(role, q)
  BY DEF Destinations
<1>2. "dashboard" \in Page /\ Holds(role, Permitted["dashboard"])
  BY DEF Page, Permitted, Holds
<1>3. p \in Page /\ Holds(role, Permitted[p])
  BY <1>1, <1>2 DEF Guarded
<1>4. FALSE \in BOOLEAN
  OBVIOUS
<1> QED  BY <1>3, <1>4, MountedHonest DEF Open

LEMMA OpenPieceHonest ==
  ASSUME PortalInv, Honesty, NEW c \in Call, OpenPiece(c)
  PROVE Honesty'
<1>1. /\ page = "pieces" /\ row.kind = "piece" /\ shown # Nothing
      /\ "piece-detail" \in Page
  BY DEF OpenPiece, Drawn, Page
<1>2. Holds(role, Permitted["piece-detail"])
  <2>1. Holds(role, {"pieces:read", "pieces:read_own"})
    BY Here, RoleTables
  <2>2. Permitted["piece-detail"] = {"pieces:read", "pieces:read_own"}
    BY DEF Permitted, Page
  <2> QED  BY <2>1, <2>2
<1>3. PICK fresh \in BOOLEAN : fresh = shown.fresh
  BY <1>1 DEF PortalInv, Fields, Snapshot, Picture
<1>4. InList(role, row, "pieces", shown)
  BY <1>1 DEF Honesty
<1>5. fresh => Taken(role, row, "GET /pieces/:id")
  BY <1>1, <1>3, <1>4, Here, DetailTaken
<1>6. View("piece-detail", StartTab(role)).load = "GET /pieces/:id"
  BY TabsOfUser, LoadsOfPages
<1>7. Mounted(c, "piece-detail", fresh)
  BY <1>3 DEF OpenPiece
<1> QED  BY <1>1, <1>2, <1>5, <1>6, <1>7, MountedHonest

\* Every load of a page that is there.
LEMMA LoadHonestHere ==
  ASSUME PortalInv, Honesty, page \in LoadPage, NEW of \in Handler \ {"dialog"},
         NEW t \in TransfersTabs(role)
  PROVE Honest(role, row, page, LoadOf(of, page, t, FALSE))
<1>1. t \in Tabs /\ role \in Role /\ Holds(role, Permitted[page])
  BY TabsOfUser, Here
<1>2. Allowed(role, page, View(page, t).load)
  BY <1>1, LoadAllowed
<1>3. FALSE \in BOOLEAN
  OBVIOUS
<1> QED  BY <1>1, <1>2, <1>3, LoadHonest

LEMMA SwitchTabHonest ==
  ASSUME PortalInv, Honesty, NEW c \in Call, NEW t, SwitchTab(c, t)
  PROVE Honesty'
<1>1. /\ page \in LoadPage /\ t \in TransfersTabs(role)
      /\ "page" \in Handler \ {"dialog"}
  BY DEF SwitchTab, LoadPage, Page, Handler
<1>2. PICK k : k = LoadOf("page", page, t, FALSE)
  OBVIOUS
<1>3. Honest(role, row, page, k)
  BY <1>1, <1>2, LoadHonestHere
<1>4. /\ role' = role /\ row' = row /\ page' = page /\ tab' = t
      /\ shown' = shown /\ choice' = choice /\ dialog' = dialog
      /\ call' = [call EXCEPT ![c] = k]
  BY <1>2 DEF SwitchTab
<1>5. /\ Truth(row, shown') /\ Truth(row, choice')
      /\ InList(role, row, page, shown')
  BY <1>4 DEF Honesty
<1> QED  BY <1>1, <1>3, <1>4, <1>5, HonestOne

LEMMA ReloadHonest ==
  ASSUME PortalInv, Honesty, NEW c \in Call, Reload(c)
  PROVE Honesty'
<1>1. page \in LoadPage /\ "page" \in Handler \ {"dialog"}
  BY DEF Reload, Loads, LoadPage, Handler, PortalInv, Fields
<1>2. PICK k : k = LoadOf("page", page, tab, FALSE)
  OBVIOUS
<1>3. Honest(role, row, page, k)
  BY <1>1, <1>2, Here, LoadHonestHere
<1>4. /\ role' = role /\ row' = row /\ page' = page /\ tab' = tab
      /\ shown' = shown /\ choice' = choice /\ dialog' = dialog
      /\ call' = [call EXCEPT ![c] = k]
  BY <1>2 DEF Reload
<1> QED  BY <1>3, <1>4, HonestSame

LEMMA PressHonest ==
  ASSUME PortalInv, Honesty, NEW c \in Call, Press(c)
  PROVE Honesty'
<1>1. PICK b \in Buttons(role, page, tab, shown) :
        call' = [call EXCEPT ![c] = Sent("row", b, TRUE,
                                           shown.fresh /\ shown.tab = tab)]
  BY DEF Press
<1>2. shown # Nothing /\ page \in PagesOf(row.kind)
  BY ShownPage DEF Press, Drawn, PortalInv
<1>3. Allowed(role, page, b)
  BY <1>1, <1>2, Here, ButtonAllowed
<1>4. PICK fresh : fresh = (shown.fresh /\ shown.tab = tab)
  OBVIOUS
<1>5. ASSUME fresh PROVE Taken(role, row, b)
  <2>1. shown.fresh /\ shown.tab = tab
    BY <1>4, <1>5
  <2>2. Truth(row, shown) /\ InList(role, row, page, shown)
    BY DEF Honesty
  <2> QED  BY <1>1, <1>2, <2>1, <2>2, Here, ButtonTaken
<1>6. PICK k : k = Sent("row", b, TRUE, fresh)
  OBVIOUS
<1>7. Honest(role, row, page, k)
  BY <1>3, <1>5, <1>6, SentHonest
<1>8. call' = [call EXCEPT ![c] = k]
  BY <1>1, <1>4, <1>6
<1>9. /\ role' = role /\ row' = row /\ page' = page /\ tab' = tab
      /\ shown' = shown /\ choice' = choice /\ dialog' = dialog
  BY DEF Press
<1> QED  BY <1>7, <1>8, <1>9, HonestSame

LEMMA UseHonest ==
  ASSUME PortalInv, Honesty, NEW c \in Call, Use(c)
  PROVE Honesty'
<1>1. PICK tool \in View(page, tab).tools :
        call' = [call EXCEPT ![c] = Sent("tool", tool, FALSE, FALSE)]
  BY DEF Use
<1>2. page \in LoadPage
  BY DEF Use, Loads, LoadPage, PortalInv, Fields
<1>3. Allowed(role, page, tool)
  BY <1>1, <1>2, Here, ToolAllowed
<1>4. PICK k : k = Sent("tool", tool, FALSE, FALSE)
  OBVIOUS
<1>5. Honest(role, row, page, k)
  BY <1>3, <1>4, SentHonest
<1>6. call' = [call EXCEPT ![c] = k]
  BY <1>1, <1>4
<1>7. /\ role' = role /\ row' = row /\ page' = page /\ tab' = tab
      /\ shown' = shown /\ choice' = choice /\ dialog' = dialog
  BY DEF Use
<1> QED  BY <1>5, <1>6, <1>7, HonestSame

\* The calls that open a dialog.
LEMMA DialogHonest ==
  ASSUME PortalInv, Honesty, page \in LoadPage, MayOpen(role, page),
         NEW i \in 1 .. Len(Form_.loads)
  PROVE Honest(role, row, page, Sent("dialog", Form_.loads[i], FALSE, FALSE))
<1>1. Allowed(role, page, Form_.loads[i])
  BY Here, DialogAllowed DEF Form_
<1>2. PICK route : route = Form_.loads[i]
  OBVIOUS
<1>3. Honest(role, row, page, Sent("dialog", route, FALSE, FALSE))
  BY <1>1, <1>2, SentHonest
<1> QED  BY <1>2, <1>3

LEMMA OpenFormHonest ==
  ASSUME PortalInv, Honesty, NEW c \in Call, OpenForm(c)
  PROVE Honesty'
<1>1. page \in LoadPage
  BY DEF OpenForm, Loads, LoadPage, PortalInv, Fields
<1>2. MayOpen(role, page)
  <2> SUFFICES ASSUME NEW t \in Tabs
               PROVE Holds(role, View(page, t).form.button)
    BY DEF MayOpen
  <2>1. View(page, t).form = View(page, tab).form
    BY Here, FormsSame
  <2>2. Holds(role, View(page, tab).form.button)
    BY DEF OpenForm, Form_
  <2> QED  BY <2>1, <2>2
<1>3. /\ role' = role /\ row' = row /\ page' = page /\ tab' = tab
      /\ shown' = shown /\ choice' = choice
  BY DEF OpenForm
<1>4. CASE Form_.loads = <<>>
  <2>1. dialog' = TRUE /\ call' = call
    BY <1>4 DEF OpenForm
  <2> QED  BY <1>2, <1>3, <2>1, Zenon DEF Honesty
<1>5. CASE Form_.loads # <<>>
  <2>1. /\ dialog' = dialog
        /\ call' = [call EXCEPT ![c] =
                      Sent("dialog", Head(Form_.loads), FALSE, FALSE)]
    BY <1>5 DEF OpenForm
  <2>2. Form_.loads \in Seq(DialogRoute)
    BY <1>1, Here, PageForms DEF Form_
  <2>3. 1 \in 1 .. Len(Form_.loads) /\ Head(Form_.loads) = Form_.loads[1]
    BY <1>5, <2>2
  <2>4. PICK k : k = Sent("dialog", Form_.loads[1], FALSE, FALSE)
    OBVIOUS
  <2>5. Honest(role, row, page, k)
    BY <1>1, <1>2, <2>3, <2>4, DialogHonest
  <2>6. call' = [call EXCEPT ![c] = k]
    BY <2>1, <2>3, <2>4
  <2> QED  BY <1>3, <2>1, <2>5, <2>6, HonestSame
<1> QED  BY <1>4, <1>5

LEMMA SubmitHonest ==
  ASSUME PortalInv, Honesty, NEW c \in Call, Submit(c)
  PROVE Honesty'
<1>1. page \in LoadPage /\ MayOpen(role, page)
  BY Here DEF Submit
<1>2. Allowed(role, page, Form_.posts)
  BY <1>1, Here, DialogAllowed DEF Form_
<1>3. PICK about : about = (Form_.pieces # {})
  OBVIOUS
<1>4. PICK fresh : fresh = (Form_.pieces # {} /\ choice.fresh)
  OBVIOUS
<1>5. ASSUME fresh PROVE Taken(role, row, Form_.posts)
  <2>1. /\ Form_.pieces # {} /\ choice # Nothing /\ choice.fresh
        /\ choice.status \in Form_.pieces
    BY <1>4, <1>5 DEF Submit
  <2>2. choice.status = row.status /\ row.kind = "piece"
    BY <2>1 DEF Honesty, Truth, PortalInv, Pages
  <2>3. View(page, tab).form.pieces # {} /\ row.status \in View(page, tab).form.pieces
    BY <2>1, <2>2 DEF Form_
  <2>4. Taken(role, row, View(page, tab).form.posts)
    BY <1>1, <2>2, <2>3, Here, PickTaken
  <2> QED  BY <2>4 DEF Form_
<1>6. PICK route : route = Form_.posts
  OBVIOUS
<1>7. PICK k : k = Sent("form", route, about, fresh)
  OBVIOUS
<1>8. Honest(role, row, page, k)
  BY <1>2, <1>5, <1>6, <1>7, SentHonest
<1>9. call' = [call EXCEPT ![c] =
                 Sent("form", Form_.posts, Form_.pieces # {},
                      Form_.pieces # {} /\ choice.fresh)]
  BY DEF Submit
<1>10. call' = [call EXCEPT ![c] = k]
  BY <1>3, <1>4, <1>6, <1>7, <1>9
<1>11. /\ role' = role /\ row' = row /\ page' = page /\ tab' = tab
       /\ shown' = shown /\ choice' = choice /\ dialog' = dialog
  BY DEF Submit
<1> QED  BY <1>8, <1>10, <1>11, HonestSame

-----------------------------------------------------------------------------
(* The answers of the API, again                                            *)

\* What the answer to c says of the row that it leaves.
LEMMA AnswerTrue ==
  ASSUME PortalInv, NEW c \in Call, NEW q \in Row, q.kind = row.kind, NEW s,
         s = IF call[c].about \/ Shows(role, call[c].route, q)
               THEN Look(q, TabOf(call[c].route)) ELSE Nothing
  PROVE /\ s \in Snapshot /\ Truth(q, s)
        /\ call[c].live /\ call[c].load => InList(role, q, page, s)
<1> DEFINE route == call[c].route
           t == TabOf(route)
<1>1. t \in Tabs
  BY DEF TabOf, Tabs, PortalInv, Fields
<1>2. /\ Look(q, t) \in Picture /\ Look(q, t).status = q.status
      /\ Look(q, t).tab = t
      /\ Look(q, t).own = (q.kind = "service" /\ q.tie = "requester")
  BY <1>1, Looks
<1>3. CASE s = Nothing
  BY <1>3, NothingTrue DEF Snapshot
<1>4. CASE s = Look(q, t)
  <2>1. s \in Snapshot /\ Truth(q, s)
    BY <1>2, <1>4 DEF Truth, Snapshot
  <2>2. ASSUME call[c].live, call[c].load, call[c].about
        PROVE InList(role, q, page, s)
    <3>1. page = "piece-detail" /\ q.kind = "piece"
      BY <2>2, AboutLoad
    <3> QED  BY <3>1 DEF InList
  <2>3. ASSUME call[c].live, call[c].load, Shows(role, route, q)
        PROVE InList(role, q, page, s)
    <3>1. Bound(page, call[c])
      BY <2>3, CallOrigin DEF PortalInv
    <3>2. route \in Lists(q.kind) /\ q.kind \in Kinds
      BY <2>3, RowKinds DEF Shows
    <3>3. ASSUME q.kind = "transfer"
          PROVE /\ s.tab = "incoming" => q.tie = "to"
                /\ s.tab = "outgoing" => q.tie = "from"
      <4>1. TransfersShow(route, q)
        BY <2>3, <3>3 DEF Shows
      <4>2. s.tab = t
        BY <1>2, <1>4
      <4> QED  BY <4>1, <4>2 DEF TransfersShow, TabOf, transfersApi
    <3>4. ASSUME page = "pieces"
          PROVE Holds(role, {"pieces:list"}) \/ q.tie \in {"owner", "former"}
      <4>1. route = "GET /pieces"
        BY <2>3, <3>1, <3>4, LoadsOfPages DEF Bound
      <4>2. q.kind = "piece"
        BY <3>2, <4>1 DEF Lists, Kinds
      <4>3. PiecesShow(role, route, q)
        BY <2>3, <4>2 DEF Shows
      <4> QED  BY <4>1, <4>3 DEF PiecesShow
    <3>5. q.kind = "incident" => IncidentsShow(role, q)
      BY <2>3 DEF Shows
    <3>6. q.kind = "certificate" => CertificatesShow(role, q)
      BY <2>3 DEF Shows
    <3> QED  BY <3>3, <3>4, <3>5, <3>6 DEF InList
  <2>4. call[c].about \/ Shows(role, route, q) \/ s = Nothing
    OBVIOUS
  <2> QED  BY <2>1, <2>2, <2>3, <2>4, NothingTrue
<1> QED  BY <1>3, <1>4

\* The row changes under the page.
LEMMA AgedHonesty ==
  ASSUME PortalInv, Honesty, NEW q, q.kind = row.kind,
         row.kind = "transfer" => q.tie = row.tie
  PROVE /\ Truth(q, Aged(shown)) /\ Truth(q, Aged(choice))
        /\ InList(role, q, page, Aged(shown))
        /\ \A d \in Call : Honest(role, q, page, CallsAged[d])
<1>1. shown \in Snapshot /\ choice \in Snapshot
  BY DEF PortalInv, Fields
<1>2. Truth(q, Aged(shown)) /\ InList(role, q, page, Aged(shown))
  BY <1>1, AgedTrue DEF Honesty
<1>3. Truth(q, Aged(choice))
  BY <1>1, AgedTrue
<1>4. ASSUME NEW d \in Call PROVE Honest(role, q, page, CallsAged[d])
  <2>1. CallsAged[d] = AgedCall(call[d])
    BY DEF CallsAged, AgedCall
  <2>2. Honest(role, q, page, AgedCall(call[d]))
    BY Here, AgedHonest
  <2> QED  BY <2>1, <2>2
<1> QED  BY <1>2, <1>3, <1>4

LEMMA OthersActHonest ==
  ASSUME PortalInv, Honesty, OthersAct
  PROVE Honesty'
<1>1. PICK q : q = row'
  OBVIOUS
<1>2. q.kind = row.kind /\ (row.kind = "transfer" => q.tie = row.tie)
  BY <1>1, Here, MovedRow DEF OthersAct
<1>3. /\ shown' = Aged(shown) /\ choice' = Aged(choice)
      /\ role' = role /\ page' = page /\ tab' = tab /\ dialog' = dialog
      /\ call' = CallsAged
  BY DEF OthersAct
<1>4. /\ Truth(q, shown') /\ Truth(q, choice') /\ InList(role, q, page, shown')
      /\ \A d \in Call : Honest(role, q, page, call'[d])
  BY <1>2, <1>3, AgedHonesty, Zenon
<1>5. /\ page \in Page => Holds(role, Permitted[page])
      /\ tab \in TransfersTabs(role)
      /\ dialog => MayOpen(role, page)
  BY DEF Honesty
<1> QED  BY <1>1, <1>3, <1>4, <1>5, Zenon DEF Honesty

LEMMA ServeHonest ==
  ASSUME PortalInv, Honesty, NEW c \in Call, Serve(c)
  PROVE Honesty'
<1>1. PICK q : q = row'
  OBVIOUS
<1>2. /\ q \in Row /\ q.kind = row.kind
      /\ row.kind = "transfer" => q.tie = row.tie
  <2>1. CASE call[c].about
    <3>1. call[c].route \in AboutRoute(row.kind)
      BY <2>1, CallOrigin DEF PortalInv
    <3>2. Takes(role, call[c].route, row) /\ q \in After(call[c].route, row)
      BY <1>1, <2>1 DEF Serve, Accepted
    <3> QED  BY <3>1, <3>2, Here, AfterRow
  <2>2. CASE ~call[c].about
    BY <1>1, <2>2, Here DEF Serve
  <2> QED  BY <2>1, <2>2
<1>3. /\ role' = role /\ page' = page /\ tab' = tab /\ dialog' = dialog
  BY DEF Serve
<1>4. PICK f : f = IF row' = row THEN call ELSE CallsAged
  OBVIOUS
<1>5. /\ f \in [Call -> CallRecord]
      /\ \A d \in Call : Honest(role, q, page, f[d])
      /\ Truth(q, shown') /\ Truth(q, choice') /\ InList(role, q, page, shown')
  <2>1. CASE row' = row
    <3>1. f = call /\ q = row /\ shown' = shown /\ choice' = choice
      BY <1>1, <1>4, <2>1 DEF Serve, Changes
    <3> QED  BY <3>1, Zenon DEF PortalInv, Calls, Honesty
  <2>2. CASE row' # row
    <3>1. f = CallsAged /\ shown' = Aged(shown) /\ choice' = Aged(choice)
      BY <1>4, <2>2 DEF Serve, Changes
    <3>2. CallsAged \in [Call -> CallRecord]
      BY CallsAgedShape DEF PortalInv
    <3> QED  BY <1>2, <3>1, <3>2, AgedHonesty, Zenon
  <2> QED  BY <2>1, <2>2
<1>6. /\ f[c].live = call[c].live /\ f[c].load = call[c].load
      /\ f[c].of = call[c].of
  <2>1. CASE f = call
    BY <2>1
  <2>2. CASE f = CallsAged
    BY <2>2, CallsAgedShape DEF PortalInv
  <2> QED  BY <1>4, <2>1, <2>2
<1>7. PICK s : s = IF call[c].about \/ Shows(role, call[c].route, q)
                     THEN Look(q, TabOf(call[c].route)) ELSE Nothing
  OBVIOUS
<1>8. /\ s \in Snapshot /\ Truth(q, s)
      /\ f[c].live /\ f[c].load => InList(role, q, page, s)
  BY <1>2, <1>6, <1>7, AnswerTrue
<1>9. f[c] \in CallRecord
  BY <1>5
<1>10. f[c].live /\ f[c].of = "dialog" => MayOpen(role, page)
  BY <1>6, Here DEF Honest
<1>11. PICK k : k = Served(f[c], s)
  OBVIOUS
<1>12. Honest(role, q, page, k)
  BY <1>8, <1>9, <1>10, <1>11, ServedHonest
<1>13. call' = [f EXCEPT ![c] = k]
  <2>1. call' = [f EXCEPT ![c].pc = "served", ![c].fresh = FALSE, ![c].seen = s]
    BY <1>1, <1>4, <1>7 DEF Serve
  <2> QED  BY <1>5, <1>11, <2>1 DEF Served
<1>14. call'[c] = k /\ \A d \in Call \ {c} : call'[d] = f[d]
  BY <1>5, <1>13
<1>15. \A d \in Call : Honest(role, q, page, call'[d])
  <2> SUFFICES ASSUME NEW d \in Call PROVE Honest(role, q, page, call'[d])
    OBVIOUS
  <2>1. CASE d = c
    BY <1>12, <1>14, <2>1, Zenon
  <2>2. CASE d # c
    BY <1>5, <1>14, <2>2, Zenon
  <2> QED  BY <2>1, <2>2
<1>16. /\ page \in Page => Holds(role, Permitted[page])
       /\ tab \in TransfersTabs(role)
       /\ dialog => MayOpen(role, page)
  BY DEF Honesty
<1> QED  BY <1>1, <1>3, <1>5, <1>15, <1>16, Zenon DEF Honesty

LEMMA RefuseHonest ==
  ASSUME PortalInv, Honesty, NEW c \in Call, Refuse(c)
  PROVE Honesty'
<1>1. PICK k : k = Refused(call[c])
  OBVIOUS
<1>2. Honest(role, row, page, k)
  BY <1>1, Here, RefusedHonest
<1>3. call' = [call EXCEPT ![c] = k]
  BY <1>1 DEF Refuse, Refused, PortalInv, Calls
<1>4. /\ role' = role /\ row' = row /\ page' = page /\ tab' = tab
      /\ shown' = shown /\ choice' = choice /\ dialog' = dialog
  BY DEF Refuse
<1> QED  BY <1>2, <1>3, <1>4, HonestSame

\* The call is over and the page shows what it did.
LEMMA OverHonest ==
  ASSUME PortalInv, Honesty, NEW c \in Call,
         call' = [call EXCEPT ![c] = IdleCall],
         role' = role, row' = row, page' = page, tab' = tab,
         shown' = shown, choice' = choice, dialog' = dialog
  PROVE Honesty'
<1>1. PICK k : k = IdleCall
  OBVIOUS
<1>2. Honest(role, row, page, k)
  BY <1>1, IdleHonest
<1> QED  BY <1>1, <1>2, HonestSame

LEMMA ThenHonest ==
  ASSUME PortalInv, Honesty, NEW c \in Call, call[c].live,
         NEW of \in Handler \ {"dialog"}, Then(c, of),
         role' = role, row' = row, page' = page, tab' = tab,
         shown' = shown, choice' = choice, dialog' => dialog
  PROVE Honesty'
<1>1. page \in LoadPage
  BY CallOrigin DEF PortalInv, Bound
<1>2. PICK k : k = LoadOf(of, page, tab, FALSE)
  OBVIOUS
<1>3. Honest(role, row, page, k)
  BY <1>1, <1>2, Here, LoadHonestHere
<1>4. call' = [call EXCEPT ![c] = k]
  BY <1>2 DEF Then
<1> QED  BY <1>3, <1>4, HonestSame

LEMMA LandsLoadHonest ==
  ASSUME PortalInv, Honesty, NEW c \in Call, LandsLoad(c)
  PROVE Honesty'
<1>1. /\ role' = role /\ row' = row /\ page' = page /\ tab' = tab
      /\ shown' = call[c].seen /\ choice' = choice /\ dialog' = dialog
      /\ call' = [call EXCEPT ![c] = IdleCall]
  BY DEF LandsLoad, Over
<1>2. Truth(row, shown') /\ InList(role, row, page, shown')
  BY <1>1, Here DEF LandsLoad, Honest
<1>3. tab' \in TransfersTabs(role) /\ Truth(row, choice')
  BY <1>1 DEF Honesty
<1>4. PICK k : k = IdleCall
  OBVIOUS
<1>5. Honest(role, row, page, k)
  BY <1>4, IdleHonest
<1> QED  BY <1>1, <1>2, <1>3, <1>4, <1>5, HonestOne

LEMMA LandsDialogHonest ==
  ASSUME PortalInv, Honesty, NEW c \in Call, LandsDialog(c)
  PROVE Honesty'
<1>1. /\ role' = role /\ row' = row /\ page' = page /\ tab' = tab
      /\ shown' = shown
      /\ choice' = IF call[c].route = piecesApi.list THEN call[c].seen ELSE choice
  BY DEF LandsDialog
<1>2. Honest(role, row, page, call[c])
  BY Here
<1>3. MayOpen(role, page)
  BY <1>2 DEF LandsDialog, Honest
<1>4. /\ page \in LoadPage /\ Bound(page, call[c]) /\ tab \in Tabs
  BY CallOrigin DEF PortalInv, LandsDialog, Bound, Fields
<1>5. Truth(row, choice')
  BY <1>1, <1>2 DEF Honest, Honesty
<1>6. /\ tab' \in TransfersTabs(role) /\ Truth(row, shown')
      /\ InList(role, row, page, shown')
  BY <1>1 DEF Honesty
<1>7. PICK loads \in Seq(DialogRoute) : loads = Form_.loads
  BY <1>4, PageForms DEF Form_
<1>8. PICK i : i = CHOOSE j \in DOMAIN loads : loads[j] = call[c].route
  OBVIOUS
<1>9. i \in 1 .. Len(loads)
  <2>1. \E j \in DOMAIN loads : loads[j] = call[c].route
    BY <1>4, <1>7 DEF Bound, LandsDialog, Form_
  <2> QED  BY <1>7, <1>8, <2>1
<1>10. CASE i < Len(loads)
  <2>1. call' = [call EXCEPT ![c] = Sent("dialog", loads[i + 1], FALSE, FALSE)]
    BY <1>7, <1>8, <1>10 DEF LandsDialog
  <2>2. i + 1 \in 1 .. Len(Form_.loads)
    BY <1>7, <1>9, <1>10
  <2>3. PICK k : k = Sent("dialog", Form_.loads[i + 1], FALSE, FALSE)
    OBVIOUS
  <2>4. Honest(role, row, page, k)
    BY <1>3, <1>4, <2>2, <2>3, DialogHonest
  <2>5. call' = [call EXCEPT ![c] = k]
    BY <1>7, <2>1, <2>3
  <2> QED  BY <1>1, <1>3, <1>5, <1>6, <2>4, <2>5, HonestOne
<1>11. CASE ~(i < Len(loads))
  <2>1. call' = [call EXCEPT ![c] = IdleCall]
    BY <1>7, <1>8, <1>11 DEF LandsDialog, Over
  <2>2. PICK k : k = IdleCall
    OBVIOUS
  <2>3. Honest(role, row, page, k)
    BY <2>2, IdleHonest
  <2> QED  BY <1>1, <1>3, <1>5, <1>6, <2>1, <2>2, <2>3, HonestOne
<1> QED  BY <1>10, <1>11

\* act(): the row that the page shows is the one of the answer, on its tab.
LEMMA LandsReplacedHonest ==
  ASSUME PortalInv, Honesty, NEW c \in Call, LandsReplaced(c)
  PROVE Honesty'
<1>1. /\ role' = role /\ row' = row /\ page' = page /\ tab' = tab
      /\ choice' = choice /\ dialog' = dialog
      /\ call' = [call EXCEPT ![c] = IdleCall]
  BY DEF LandsReplaced, Over
<1>2. /\ call[c].pc = "served" /\ call[c].live
      /\ call[c].route \in Replacing
  BY DEF LandsReplaced
<1>3. /\ call[c].of = "row" /\ call[c].about
      /\ call[c].route \in RowRoute(row.kind)
  BY <1>2, CallOrigin, Answering DEF PortalInv, Origin
<1>4. row.kind \in {"transfer", "notice"}
  BY <1>2, <1>3, Here DEF Kinds, RowRoute, Replacing, transfersApi,
                         notificationsApi
<1>5. call[c].seen \in Picture
  BY <1>2, <1>3, CallOrigin, CallFacts DEF PortalInv, Bound, Snapshot
<1>6. Truth(row, shown') /\ InList(role, row, page, shown')
  <2>1. CASE shown' = Nothing
    BY <2>1, NothingTrue
  <2>2. CASE shown' # Nothing
    <3>1. PICK s \in Picture : s = call[c].seen
      BY <1>5
    <3>2. shown # Nothing
      BY <2>2 DEF LandsReplaced
    <3>3. PICK t : t = shown.tab
      OBVIOUS
    <3>4. shown' = [s EXCEPT !.tab = t]
      BY <2>2, <3>1, <3>2, <3>3 DEF LandsReplaced
    <3>5. PICK n : n = shown'
      OBVIOUS
    <3>6. /\ n.status = s.status /\ n.own = s.own /\ n.fresh = s.fresh
          /\ n.tab = t
      BY <3>4, <3>5 DEF Picture
    <3>7. s # Nothing /\ Truth(row, s)
      BY <3>1, Here, PortalAssumption DEF Honest
    <3>8. Truth(row, n)
      BY <3>6, <3>7 DEF Truth
    <3>9. InList(role, row, page, shown)
      BY DEF Honesty
    <3>10. page # "pieces"
      BY <1>4, <3>2 DEF PortalInv, Pages, PagesOf
    <3>11. InList(role, row, page, n)
      BY <1>4, <3>2, <3>3, <3>6, <3>9, <3>10 DEF InList
    <3> QED  BY <3>5, <3>8, <3>11
  <2> QED  BY <2>1, <2>2
<1>7. tab' \in TransfersTabs(role) /\ Truth(row, choice')
  BY <1>1 DEF Honesty
<1>8. PICK k : k = IdleCall
  OBVIOUS
<1>9. Honest(role, row, page, k)
  BY <1>8, IdleHonest
<1> QED  BY <1>1, <1>6, <1>7, <1>8, <1>9, HonestOne

LEMMA LandsReloadingHonest ==
  ASSUME PortalInv, Honesty, NEW c \in Call, LandsReloading(c)
  PROVE Honesty'
<1>1. /\ role' = role /\ row' = row /\ page' = page /\ tab' = tab
      /\ shown' = shown /\ dialog' = dialog /\ choice' = choice
      /\ Then(c, call[c].of)
  BY DEF LandsReloading
<1>2. /\ call[c].pc = "served" /\ call[c].live /\ ~call[c].load
      /\ call[c].route \in Reloading
  BY DEF LandsReloading
<1>3. PICK of : of = call[c].of
  OBVIOUS
<1>4. of \in {"row", "tool"}
  BY <1>2, <1>3, CallOrigin, Answering DEF PortalInv, Origin
<1>5. of \in Handler \ {"dialog"} /\ Then(c, of)
  BY <1>1, <1>3, <1>4 DEF Handler
<1> QED  BY <1>1, <1>2, <1>5, ThenHonest

LEMMA LandsQrHonest ==
  ASSUME PortalInv, Honesty, NEW c \in Call, LandsQr(c)
  PROVE Honesty'
<1>1. /\ role' = role /\ row' = row /\ page' = page /\ tab' = tab
      /\ shown' = shown /\ dialog' = dialog /\ choice' = choice
  BY DEF LandsQr
<1>2. CASE call[c].live
  <2>1. Then(c, "qr") /\ "qr" \in Handler \ {"dialog"}
    BY <1>2 DEF LandsQr, Handler
  <2> QED  BY <1>1, <1>2, <2>1, ThenHonest
<1>3. CASE ~call[c].live
  <2>1. PICK k : k = [LoadOf("qr", "piece-detail", tab, FALSE) EXCEPT
                        !.live = FALSE]
    OBVIOUS
  <2>2. Honest(role, row, page, k)
    BY <2>1, Here, StrayHonest
  <2>3. call' = [call EXCEPT ![c] = k]
    BY <1>3, <2>1 DEF LandsQr
  <2> QED  BY <1>1, <2>2, <2>3, HonestSame
<1> QED  BY <1>2, <1>3

LEMMA VerifyHonest ==
  ASSUME PortalInv, Honesty, NEW c \in Call, Verify(c)
  PROVE Honesty'
<1>1. /\ role' = role /\ row' = row /\ page' = "verify-public"
      /\ tab' = StartTab(role) /\ shown' = Nothing /\ dialog' = FALSE
      /\ choice' = Nothing /\ call' = [Left EXCEPT ![c] = IdleCall]
  BY DEF Verify
<1>2. page' \notin Page
  BY <1>1 DEF Page
<1>3. tab' \in TransfersTabs(role')
  BY <1>1 DEF StartTab, TransfersTabs, canManage, Holds
<1>4. \A d \in Call : Honest(role, row, page', call'[d])
  <2> SUFFICES ASSUME NEW d \in Call PROVE Honest(role, row, page', call'[d])
    OBVIOUS
  <2>1. call'[d] = IF d # c /\ Outlives(d) THEN Unmounted(call[d]) ELSE IdleCall
    BY <1>1 DEF Left, Unmounted
  <2>2. Honest(role, row, page', Unmounted(call[d]))
    BY Here, UnmountedHonest
  <2>3. Honest(role, row, page', IdleCall)
    BY IdleHonest
  <2> QED  BY <2>1, <2>2, <2>3
<1>5. /\ Truth(row', shown') /\ Truth(row', choice')
      /\ InList(role', row', page', shown')
  BY <1>1, NothingTrue
<1> QED  BY <1>1, <1>2, <1>3, <1>4, <1>5, Zenon DEF Honesty

LEMMA RestHonest ==
  ASSUME PortalInv, Honesty
  PROVE /\ CloseForm => Honesty'
        /\ OtherRowDone => Honesty'
        /\ UNCHANGED vars => Honesty'
        /\ \A c \in Call : Dropped(c) => Honesty'
        /\ \A c \in Call : LandsRefused(c) => Honesty'
        /\ \A c \in Call : LandsDone(c) => Honesty'
        /\ \A c \in Call : LandsForm(c) => Honesty'
<1>1. CASE CloseForm
  BY <1>1, Zenon DEF CloseForm, Honesty
<1>2. CASE OtherRowDone
  BY <1>2, Zenon DEF OtherRowDone, Honesty
<1>3. CASE UNCHANGED vars
  BY <1>3, Zenon DEF vars, Honesty
<1>4. ASSUME NEW c \in Call, Dropped(c) PROVE Honesty'
  BY <1>4, OverHonest DEF Dropped, Over
<1>5. ASSUME NEW c \in Call, LandsRefused(c) PROVE Honesty'
  BY <1>5, OverHonest DEF LandsRefused, Over
<1>6. ASSUME NEW c \in Call, LandsDone(c) PROVE Honesty'
  BY <1>6, OverHonest DEF LandsDone, Over
<1>7. ASSUME NEW c \in Call, LandsForm(c) PROVE Honesty'
  <2>1. "form" \in Handler \ {"dialog"}
    BY DEF Handler
  <2>2. /\ call[c].live /\ Then(c, "form") /\ dialog' = FALSE
        /\ role' = role /\ row' = row /\ page' = page /\ tab' = tab
        /\ shown' = shown /\ choice' = choice
    BY <1>7 DEF LandsForm
  <2> QED  BY <2>1, <2>2, ThenHonest
<1> QED  BY <1>1, <1>2, <1>3, <1>4, <1>5, <1>6, <1>7

LEMMA HonestStep ==
  ASSUME PortalInv, Honesty, [Next]_vars
  PROVE Honesty'
<1>1. ASSUME NEW c \in Call, Navigate(c) PROVE Honesty'
  <2>1. CASE \E p \in Destinations \ {page} : Open(c, p)
    BY <2>1, OpenHonest
  <2>2. CASE \E t \in {"incoming", "outgoing", "all"} : SwitchTab(c, t)
    BY <2>2, SwitchTabHonest
  <2> QED  BY <1>1, <2>1, <2>2, OpenPieceHonest, ReloadHonest DEF Navigate
<1>2. ASSUME NEW c \in Call, Act(c) PROVE Honesty'
  BY <1>2, PressHonest, UseHonest, OpenFormHonest, SubmitHonest DEF Act
<1>3. ASSUME NEW c \in Call, Lands(c) PROVE Honesty'
  BY <1>3, RestHonest, LandsLoadHonest, LandsDialogHonest,
     LandsReplacedHonest, LandsReloadingHonest, LandsQrHonest, VerifyHonest
     DEF Lands
<1> QED
  BY <1>1, <1>2, <1>3, ServeHonest, RefuseHonest, OthersActHonest, RestHonest
     DEF Next

\* What a page knows of the row is so as long as it counts as fresh, and every
\* call is one that its user may make.
THEOREM PagesAreHonest == Spec => []Honesty
<1>1. Init => Honesty
  BY HonestStart
<1>2. PortalInv /\ Honesty /\ [Next]_vars => Honesty'
  BY HonestStep
<1> QED  BY <1>1, <1>2, PortalInvariant, PTL DEF Spec

-----------------------------------------------------------------------------
(* Refusals                                                                 *)

\* A step that changes one call to one that is not refused refuses none.
LEMMA PutOne ==
  ASSUME PortalInv, NEW c \in Call, NEW k, k.pc # "refused",
         call' = [call EXCEPT ![c] = k],
         NEW d \in Call, call'[d].pc = "refused"
  PROVE call[d].pc = "refused"
<1>1. call'[c] = k /\ (d # c => call'[d] = call[d])
  BY DEF PortalInv, Calls
<1> QED  BY <1>1

\* Nor does leaving the page.
LEMMA LeftRefuses ==
  ASSUME PortalInv, NEW d \in Call, Left[d].pc = "refused"
  PROVE call[d].pc = "refused"
<1>1. Left[d] = IF Outlives(d) THEN Unmounted(call[d]) ELSE IdleCall
  BY DEF Left, Unmounted
<1>2. Unmounted(call[d]).pc = call[d].pc
  BY CallFacts DEF Unmounted, CallRecord, PortalInv
<1>3. IdleCall.pc = "idle"
  BY DEF IdleCall
<1> QED  BY <1>1, <1>2, <1>3

LEMMA LeftPut ==
  ASSUME PortalInv, NEW c \in Call, NEW k, k.pc # "refused",
         call' = [Left EXCEPT ![c] = k],
         NEW d \in Call, call'[d].pc = "refused"
  PROVE call[d].pc = "refused"
<1>1. Left \in [Call -> CallRecord]
  BY LeftShape DEF PortalInv
<1>2. call'[c] = k /\ (d # c => call'[d] = Left[d])
  BY <1>1
<1> QED  BY <1>2, LeftRefuses

LEMMA MountedRefuses ==
  ASSUME PortalInv, NEW c \in Call, NEW p, NEW fresh, Mounted(c, p, fresh),
         NEW d \in Call, call'[d].pc = "refused"
  PROVE call[d].pc = "refused"
<1>1. LoadOf("page", p, StartTab(role), fresh).pc = "sent"
  BY DEF LoadOf, Sent
<1>2. PICK k : k = LoadOf("page", p, StartTab(role), fresh)
  OBVIOUS
<1>3. CASE Loads(p)
  <2>1. call' = [Left EXCEPT ![c] = k]
    BY <1>2, <1>3 DEF Mounted
  <2> QED  BY <1>1, <1>2, <2>1, LeftPut
<1>4. CASE ~Loads(p)
  <2>1. call' = Left
    BY <1>4 DEF Mounted
  <2> QED  BY <2>1, LeftRefuses
<1> QED  BY <1>3, <1>4

\* What the calls of this page are when they are made.
LEMMA NewCalls ==
  ASSUME NEW of, NEW route, NEW about, NEW fresh, NEW p, NEW t
  PROVE /\ Sent(of, route, about, fresh).pc = "sent"
        /\ LoadOf(of, p, t, fresh).pc = "sent"
        /\ [LoadOf(of, p, t, fresh) EXCEPT !.live = FALSE].pc = "sent"
        /\ IdleCall.pc = "idle"
  BY DEF LoadOf, Sent, IdleCall

LEMMA UserRefuses ==
  ASSUME PortalInv, NEW c \in Call, Navigate(c) \/ Act(c),
         NEW d \in Call, call'[d].pc = "refused"
  PROVE call[d].pc = "refused"
<1>1. CASE \E p \in Destinations \ {page} : Open(c, p)
  BY <1>1, MountedRefuses DEF Open
<1>2. CASE OpenPiece(c)
  BY <1>2, MountedRefuses DEF OpenPiece
<1>3. CASE \E t \in {"incoming", "outgoing", "all"} : SwitchTab(c, t)
  <2>1. PICK t : call' = [call EXCEPT ![c] = LoadOf("page", page, t, FALSE)]
    BY <1>3 DEF SwitchTab
  <2>2. PICK k : k = LoadOf("page", page, t, FALSE)
    OBVIOUS
  <2> QED  BY <2>1, <2>2, NewCalls, PutOne
<1>4. CASE Reload(c)
  <2>1. PICK k : k = LoadOf("page", page, tab, FALSE)
    OBVIOUS
  <2>2. call' = [call EXCEPT ![c] = k]
    BY <1>4, <2>1 DEF Reload
  <2> QED  BY <2>1, <2>2, NewCalls, PutOne
<1>5. CASE Press(c)
  <2>1. PICK b : call' = [call EXCEPT ![c] =
                           Sent("row", b, TRUE, shown.fresh /\ shown.tab = tab)]
    BY <1>5 DEF Press
  <2>2. PICK k : k = Sent("row", b, TRUE, shown.fresh /\ shown.tab = tab)
    OBVIOUS
  <2> QED  BY <2>1, <2>2, NewCalls, PutOne
<1>6. CASE Use(c)
  <2>1. PICK b : call' = [call EXCEPT ![c] = Sent("tool", b, FALSE, FALSE)]
    BY <1>6 DEF Use
  <2>2. PICK k : k = Sent("tool", b, FALSE, FALSE)
    OBVIOUS
  <2> QED  BY <2>1, <2>2, NewCalls, PutOne
<1>7. CASE OpenForm(c)
  <2>1. PICK k : k = Sent("dialog", Head(Form_.loads), FALSE, FALSE)
    OBVIOUS
  <2>2. call' = call \/ call' = [call EXCEPT ![c] = k]
    BY <1>7, <2>1 DEF OpenForm
  <2> QED  BY <2>1, <2>2, NewCalls, PutOne
<1>8. CASE Submit(c)
  <2>1. PICK k : k = Sent("form", Form_.posts, Form_.pieces # {},
                          Form_.pieces # {} /\ choice.fresh)
    OBVIOUS
  <2>2. call' = [call EXCEPT ![c] = k]
    BY <1>8, <2>1 DEF Submit
  <2> QED  BY <2>1, <2>2, NewCalls, PutOne
<1> QED
  BY <1>1, <1>2, <1>3, <1>4, <1>5, <1>6, <1>7, <1>8 DEF Navigate, Act

LEMMA LandsRefuses ==
  ASSUME PortalInv, NEW c \in Call, Lands(c),
         NEW d \in Call, call'[d].pc = "refused"
  PROVE call[d].pc = "refused"
<1>1. PICK idle : idle = IdleCall
  OBVIOUS
<1>2. CASE Over(c)
  <2>1. call' = [call EXCEPT ![c] = idle]
    BY <1>1, <1>2 DEF Over
  <2> QED  BY <1>1, <2>1, NewCalls, PutOne
<1>3. ASSUME NEW of, Then(c, of) PROVE call[d].pc = "refused"
  <2>1. PICK k : k = LoadOf(of, page, tab, FALSE)
    OBVIOUS
  <2>2. call' = [call EXCEPT ![c] = k]
    BY <1>3, <2>1 DEF Then
  <2> QED  BY <2>1, <2>2, NewCalls, PutOne
<1>4. CASE LandsDialog(c)
  <2>1. PICK b : Over(c) \/ call' = [call EXCEPT ![c] = Sent("dialog", b, FALSE, FALSE)]
    BY <1>4 DEF LandsDialog
  <2>2. PICK k : k = Sent("dialog", b, FALSE, FALSE)
    OBVIOUS
  <2> QED  BY <1>2, <2>1, <2>2, NewCalls, PutOne
<1>5. CASE LandsQr(c)
  <2>1. PICK k : k = [LoadOf("qr", "piece-detail", tab, FALSE) EXCEPT !.live = FALSE]
    OBVIOUS
  <2>2. Then(c, "qr") \/ call' = [call EXCEPT ![c] = k]
    BY <1>5, <2>1 DEF LandsQr
  <2> QED  BY <1>3, <2>1, <2>2, NewCalls, PutOne
<1>6. CASE Verify(c)
  <2>1. call' = [Left EXCEPT ![c] = idle]
    BY <1>1, <1>6 DEF Verify
  <2> QED  BY <1>1, <2>1, NewCalls, LeftPut
<1>7. CASE LandsForm(c)
  BY <1>3, <1>7 DEF LandsForm
<1>8. CASE LandsReloading(c)
  BY <1>3, <1>8 DEF LandsReloading
<1>9. CASE Dropped(c) \/ LandsRefused(c) \/ LandsLoad(c) \/ LandsReplaced(c) \/ LandsDone(c)
  BY <1>2, <1>9 DEF Dropped, LandsRefused, LandsLoad, LandsReplaced, LandsDone
<1> QED
  BY <1>4, <1>5, <1>6, <1>7, <1>8, <1>9 DEF Lands

LEMMA ServeRefuses ==
  ASSUME PortalInv, NEW c \in Call, Serve(c),
         NEW d \in Call, call'[d].pc = "refused"
  PROVE call[d].pc = "refused"
<1>1. PICK before : before = IF row' = row THEN call ELSE CallsAged
  OBVIOUS
<1>2. PICK seen : call' = [before EXCEPT ![c].pc = "served", ![c].fresh = FALSE,
                                         ![c].seen = seen]
  BY <1>1 DEF Serve
<1>3. /\ before \in [Call -> CallRecord]
      /\ \A e \in Call : before[e].pc = call[e].pc
  BY <1>1, CallsAgedShape DEF PortalInv, Calls
<1>4. call'[c].pc = "served" /\ (d # c => call'[d] = before[d])
  BY <1>2, <1>3 DEF CallRecord
<1> QED  BY <1>3, <1>4

LEMMA RefuseRefuses ==
  ASSUME PortalInv, NEW c \in Call, Refuse(c),
         NEW d \in Call, call[d].pc = "sent", call'[d].pc = "refused"
  PROVE ~Accepted(d)
<1>1. d # c => call'[d] = call[d]
  BY DEF Refuse, PortalInv, Calls
<1> QED  BY <1>1 DEF Refuse

\* Only the API refuses, and only what it does not accept.
LEMMA OnlyRefused ==
  ASSUME PortalInv, [Next]_vars, NEW c \in Call,
         call[c].pc = "sent", call'[c].pc = "refused"
  PROVE ~Accepted(c)
<1>1. CASE CloseForm \/ OtherRowDone \/ UNCHANGED vars
  BY <1>1 DEF CloseForm, OtherRowDone, vars
<1>2. CASE OthersAct
  BY <1>2, CallsAgedShape DEF OthersAct, PortalInv
<1> QED
  BY <1>1, <1>2, UserRefuses, LandsRefuses, ServeRefuses, RefuseRefuses DEF Next

\* The routes and rows that a page knows to be at odds are those of AtOdds.
LEMMA Odds ==
  ASSUME NEW c \in Call,
         \/ OddRoute(role, page, call[c].route)
         \/ OddRow(row, call[c].route)
  PROVE AtOdds(c)
<1>1. /\ claimsApi.list = "GET /claims" /\ usersApi.listActive = "GET /users"
      /\ transfersApi.incoming = "GET /transfers/incoming"
      /\ transfersApi.outgoing = "GET /transfers/outgoing"
      /\ piecesApi.updateStatus = "POST /pieces/:id/status"
      /\ piecesApi.detail = "GET /pieces/:id"
      /\ piecesApi.retire = "POST /pieces/:id/retire"
      /\ salesApi.create = "POST /sales"
      /\ transfersApi.request = "POST /transfers"
      /\ incidentsApi.create = "POST /incidents"
      /\ servicesApi.create = "POST /services"
  BY DEF claimsApi, usersApi, transfersApi, piecesApi, salesApi, incidentsApi,
         servicesApi
<1> QED  BY <1>1 DEF OddRoute, OddRow, AtOdds

\* What a page may do and knows to be so is accepted, or at odds.
LEMMA KnownAccepted ==
  ASSUME PortalInv, Honesty, NEW c \in Call, call[c].pc = "sent",
         call[c].live, call[c].about => call[c].fresh, ~Accepted(c)
  PROVE AtOdds(c)
<1>1. Allowed(role, page, call[c].route)
  BY DEF Honesty, Honest
<1>2. call[c].about => Taken(role, row, call[c].route)
  BY DEF Honesty, Honest
<1> QED  BY <1>1, <1>2, Odds DEF Allowed, Taken, Accepted

\* Whatever the roles, the rows, the others' acts and the order of answers, the
\* API refuses a call of a page that is still there and whose row is still as
\* the page shows it only where the buttons of views/*.vue and the guards and
\* checks of the controllers are at odds, one of the cases that AtOdds lists.
THEOREM RefusalsAreExplained == Spec => RefusalsExplained
<1>1. ASSUME PortalInv, Honesty, [Next]_vars, NEW c \in Call,
             call[c].pc = "sent", call'[c].pc = "refused"
      PROVE ~call[c].live \/ (call[c].about /\ ~call[c].fresh) \/ AtOdds(c)
  BY <1>1, OnlyRefused, KnownAccepted
<1> DEFINE Explained(c) ==
      call[c].pc = "sent" /\ call'[c].pc = "refused" =>
        \/ ~call[c].live
        \/ call[c].about /\ ~call[c].fresh
        \/ AtOdds(c)
<1>2. PortalInv /\ Honesty /\ [Next]_vars => [\A c \in Call : Explained(c)]_vars
  BY <1>1
<1> QED
  BY <1>2, PortalInvariant, PagesAreHonest, PTL DEF Spec, RefusalsExplained
=============================================================================
