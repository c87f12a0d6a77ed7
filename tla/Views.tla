-------------------------------- MODULE Views --------------------------------
(***************************************************************************)
(* The pages of the web client (router/index.ts, AppLayout.vue, views/):    *)
(* who may open one, what it loads, and which buttons it draws.             *)
(*                                                                          *)
(* A page is described by the route that its load() calls; its tools, the   *)
(* routes that buttons call which are not about a row; and its form, the    *)
(* dialog that creates something: who sees its button, the routes that      *)
(* opening it calls in turn, the route that it posts to and the pieces that *)
(* it lets the user pick, by status.  Its Buttons are the routes that the   *)
(* buttons of a row call: they are drawn from what the page shows of it,    *)
(* the status, and for a service whether it is the viewer's own request.    *)
(***************************************************************************)
EXTENDS Client, Roles

Page == {"dashboard", "products", "pieces", "piece-detail", "sales", "claims",
  "transfers", "incidents", "certificates", "services", "notifications",
  "webhooks", "profile"}

\* meta.permission.
Permitted ==
  [page \in Page |->
     CASE page \in {"dashboard", "profile"} -> {}
       [] page = "products" -> {"products:read"}
       [] page = "pieces" -> {"pieces:list", "pieces:read_own"}
       [] page = "piece-detail" -> {"pieces:read", "pieces:read_own"}
       [] page = "sales" -> {"sales:read", "sales:create"}
       [] page = "claims" -> {"claims:read", "claims:redeem"}
       [] page = "transfers" ->
            {"transfers:request", "transfers:accept", "transfers:reject",
             "transfers:manage"}
       [] page = "incidents" ->
            {"incidents:create", "incidents:read", "incidents:read_own"}
       [] page = "certificates" -> {"certificates:read", "certificates:read_own"}
       [] page = "services" -> {"services:read", "services:request"}
       [] page = "notifications" -> {"notifications:read_own"}
       [] page = "webhooks" -> {"webhooks:manage_own", "webhooks:manage"}]

\* beforeEach: whom the page is not for lands on the dashboard.
Guarded(role, page) == IF Holds(role, Permitted[page]) THEN page ELSE "dashboard"

\* AVAILABLE stands for IN_STOCK too, and REPORTED_STOLEN for LOST.
AnyPiece ==
  {"AVAILABLE", "SOLD", "IN_SERVICE", "REPORTED_STOLEN", "RETIRED"}

Form(button, loads, posts, pieces) ==
  [button |-> button, loads |-> loads, posts |-> posts, pieces |-> pieces]

\* Nobody is shown a button for it.
NoForm == Form({"none"}, <<>>, "", {})

-----------------------------------------------------------------------------
(* Pages whose rows have no buttons, or none on a row that Portal follows.  *)

ProductsPage ==
  [load |-> productsApi.list, tools |-> {},
   form |-> Form({"products:create"}, <<>>, productsApi.create, {})]

PiecesPage ==
  [load |-> piecesApi.list, tools |-> {},
   form |-> Form({"pieces:create"}, <<productsApi.list>>, piecesApi.create, {})]

\* The dialog offers the pieces AVAILABLE, or if there is none those IN_STOCK.
\* Pieces and buyers are asked for together; either refusal keeps it shut.
SalesPage ==
  [load |-> salesApi.list, tools |-> {},
   form |-> Form({"sales:create"}, <<piecesApi.list, usersApi.listActive>>,
                 salesApi.create, {"AVAILABLE"})]

ClaimsPage ==
  [load |-> claimsApi.list, tools |-> {},
   form |-> Form({"claims:redeem"}, <<>>, claimsApi.redeem, {})]

WebhooksPage ==
  [load |-> webhooksApi.list,
   tools |-> {webhooksApi.update, webhooksApi.rotateSecret,
              webhooksApi.remove, webhooksApi.deliveries},
   form |-> Form({}, <<>>, webhooksApi.create, {})]

\* The change of password is Browser's.
ProfilePage ==
  [load |-> usersApi.sessions,
   tools |-> {usersApi.updateMe, usersApi.revokeSession}, form |-> NoForm]

-----------------------------------------------------------------------------
(* Pages with buttons on their rows.                                        *)

PieceDetailPage ==
  [load |-> piecesApi.detail, tools |-> {}, form |-> NoForm]

PieceDetailButtons(role, r) ==
  {button \in {piecesApi.updateStatus, piecesApi.regenerateQr, piecesApi.retire} :
     CASE button = piecesApi.updateStatus -> Holds(role, {"pieces:update_status"})
       [] button = piecesApi.regenerateQr -> Holds(role, {"qr:regenerate"})
       [] button = piecesApi.retire ->
            Holds(role, {"pieces:retire"}) /\ r.status # "RETIRED"}

canManage(role) == Holds(role, {"transfers:manage"})

StartTab(role) == IF canManage(role) THEN "incoming" ELSE "outgoing"

\* Tabs the viewer can switch to.
TransfersTabs(role) ==
  {tab \in {"incoming", "outgoing", "all"} :
     CASE tab = "incoming" ->
            Holds(role, {"transfers:accept", "transfers:reject", "transfers:manage"})
       [] tab = "outgoing" -> TRUE
       [] tab = "all" -> canManage(role)}

TransfersPage(tab) ==
  [load |-> CASE tab = "incoming" -> transfersApi.incoming
              [] tab = "outgoing" -> transfersApi.outgoing
              [] tab = "all" -> transfersApi.all,
   tools |-> {},
   form |-> Form({"transfers:request", "transfers:manage"},
                 <<piecesApi.list, usersApi.listActive>>,
                 transfersApi.request, AnyPiece)]

TransfersButtons(role, tab, r) ==
  {button \in {transfersApi.accept, transfersApi.reject, transfersApi.cancel} :
     /\ r.status = "PENDING"
     /\ CASE button = transfersApi.accept ->
               tab = "incoming" /\ Holds(role, {"transfers:accept", "transfers:manage"})
          [] button = transfersApi.reject ->
               tab = "incoming" /\ Holds(role, {"transfers:reject", "transfers:manage"})
          [] button = transfersApi.cancel ->
               IF tab = "outgoing"
                 THEN Holds(role, {"transfers:request", "transfers:manage"})
                 ELSE canManage(role)}

IncidentsPage ==
  [load |-> incidentsApi.list, tools |-> {},
   form |-> Form({"incidents:create"}, <<piecesApi.list>>, incidentsApi.create,
                 AnyPiece)]

\* A click on the row asks for the detail.  Its dialog reads reporter.firstName
\* (IncidentsView.vue:250), the answer has a reportedBy
\* (incidents.service.ts:398): it never renders, and its buttons are not drawn.
IncidentsButtons == {incidentsApi.detail}

CertificatesPage ==
  [load |-> certificatesApi.list, tools |-> {},
   form |-> Form({"certificates:create"}, <<piecesApi.list>>,
                 certificatesApi.create, AnyPiece)]

CertificatesButtons(role, r) ==
  {button \in {certificatesApi.download, certificatesApi.revoke} :
     /\ r.status = "ACTIVE"
     /\ CASE button = certificatesApi.download ->
               Holds(role, {"certificates:download_own", "certificates:read"})
          [] button = certificatesApi.revoke -> Holds(role, {"certificates:revoke"})}

ServicesPage ==
  [load |-> servicesApi.list, tools |-> {},
   form |-> Form({"services:request", "services:create", "services:complete"},
                 <<piecesApi.list>>, servicesApi.create, AnyPiece)]

canStart(role) == Holds(role, {"services:create", "services:complete"})

\* Mutant: whose request it is does not matter.
CancelIfRequested(role, r) ==
  r.status = "REQUESTED" /\ (canStart(role) \/ Holds(role, {"services:request"}))

canCancel(role, r) ==
  /\ r.status = "REQUESTED"
  /\ canStart(role) \/ (Holds(role, {"services:request"}) /\ r.own)

ServicesButtons(role, r) ==
  {button \in {servicesApi.start, servicesApi.complete, servicesApi.cancel} :
     CASE button = servicesApi.start -> canStart(role) /\ r.status = "REQUESTED"
       [] button = servicesApi.complete ->
            /\ Holds(role, {"services:complete"})
            /\ r.status \in {"REQUESTED", "IN_PROGRESS"}
       [] button = servicesApi.cancel -> canCancel(role, r)}

NotificationsPage ==
  [load |-> notificationsApi.list, tools |-> {}, form |-> NoForm]

\* Another notice may be unread whatever this one is.
NotificationsButtons(r) ==
  {notificationsApi.markAllRead}
    \cup (IF r.status = "UNREAD" THEN {notificationsApi.markRead} ELSE {})

-----------------------------------------------------------------------------
\* The dashboard and the public page have nothing that is followed.
View(page, tab) ==
  CASE page = "products" -> ProductsPage
    [] page = "pieces" -> PiecesPage
    [] page = "piece-detail" -> PieceDetailPage
    [] page = "sales" -> SalesPage
    [] page = "claims" -> ClaimsPage
    [] page = "transfers" -> TransfersPage(tab)
    [] page = "incidents" -> IncidentsPage
    [] page = "certificates" -> CertificatesPage
    [] page = "services" -> ServicesPage
    [] page = "notifications" -> NotificationsPage
    [] page = "webhooks" -> WebhooksPage
    [] page = "profile" -> ProfilePage

Buttons(role, page, tab, r) ==
  CASE page = "piece-detail" -> PieceDetailButtons(role, r)
    [] page = "transfers" -> TransfersButtons(role, tab, r)
    [] page = "incidents" -> IncidentsButtons
    [] page = "certificates" -> CertificatesButtons(role, r)
    [] page = "services" -> ServicesButtons(role, r)
    [] page = "notifications" -> NotificationsButtons(r)
    [] OTHER -> {}
=============================================================================
