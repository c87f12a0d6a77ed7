--------------------------------- MODULE Api ---------------------------------
(***************************************************************************)
(* What the API lets in and through, seen from a client: the permissions    *)
(* that each route asks for, which rows its lists show to whom, and which   *)
(* row a handler accepts and what it leaves.  How the handlers interleave   *)
(* is the subject of Platform and Registry; here each is one step.          *)
(***************************************************************************)
EXTENDS Roles

-----------------------------------------------------------------------------
(* The controllers.  permissions.guard.ts asks for one of the permissions   *)
(* named, and for nothing but a login where there are none.                 *)

On(route, any) == [route |-> route, any |-> any]

PiecesRoutes ==
  {On("POST /pieces", {"pieces:create"}),
   On("GET /pieces", {"pieces:list", "pieces:read_own"}),
   On("GET /pieces/:id", {"pieces:read", "pieces:read_own"}),
   On("PATCH /pieces/:id/status", {"pieces:update_status"}),
   On("POST /pieces/:id/retire", {"pieces:retire"}),
   On("POST /pieces/:id/qr/regenerate", {"qr:regenerate"})}

ProductsRoutes ==
  {On("POST /products", {"products:create"}),
   On("GET /products", {"products:read"}),
   On("GET /products/:id", {"products:read"}),
   On("PATCH /products/:id", {"products:update"})}

SalesRoutes ==
  {On("POST /sales", {"sales:create"}),
   On("GET /sales", {"sales:read"}),
   On("GET /sales/:id", {"sales:read"})}

ClaimsRoutes ==
  {On("POST /claims/redeem", {"claims:redeem"}),
   On("GET /claims", {"claims:read"})}

TransfersRoutes ==
  {On("POST /transfers", {"transfers:request", "transfers:manage"}),
   On("GET /transfers", {"transfers:manage"}),
   On("GET /transfers/incoming", {"transfers:accept", "transfers:reject"}),
   On("GET /transfers/outgoing", {"transfers:request"}),
   On("POST /transfers/:id/accept", {"transfers:accept", "transfers:manage"}),
   On("POST /transfers/:id/reject", {"transfers:reject", "transfers:manage"}),
   On("POST /transfers/:id/cancel", {"transfers:request", "transfers:manage"})}

IncidentsRoutes ==
  {On("POST /incidents", {"incidents:create"}),
   On("GET /incidents", {"incidents:read", "incidents:read_own"}),
   On("GET /incidents/:id", {"incidents:read", "incidents:read_own"}),
   On("POST /incidents/:id/reports", {"incidents:create", "incidents:read_own"}),
   On("POST /incidents/:id/review", {"incidents:review"}),
   On("POST /incidents/:id/recover", {"incidents:recover"}),
   On("POST /incidents/:id/resolve", {"incidents:resolve"})}

CertificatesRoutes ==
  {On("POST /certificates", {"certificates:create"}),
   On("GET /certificates", {"certificates:read", "certificates:read_own"}),
   On("GET /certificates/:id", {"certificates:read", "certificates:read_own"}),
   On("GET /certificates/:id/download",
      {"certificates:read", "certificates:download_own"}),
   On("POST /certificates/:id/revoke", {"certificates:revoke"})}

ServicesRoutes ==
  {On("POST /services", {"services:request", "services:create"}),
   On("GET /services", {"services:read", "services:request"}),
   On("GET /services/:id", {"services:read", "services:request"}),
   On("POST /services/:id/start", {"services:create", "services:complete"}),
   On("POST /services/:id/complete", {"services:complete"}),
   On("POST /services/:id/cancel",
      {"services:create", "services:complete", "services:request"})}

NotificationsRoutes ==
  {On("GET /notifications", {"notifications:read_own"}),
   On("PATCH /notifications/:id/read", {"notifications:update_own"}),
   On("PATCH /notifications/read-all", {"notifications:update_own"})}

WebhooksRoutes ==
  {On(route, {"webhooks:manage_own", "webhooks:manage"}) :
     route \in {"POST /webhooks", "GET /webhooks", "GET /webhooks/:id",
               "GET /webhooks/:id/deliveries", "PATCH /webhooks/:id",
               "POST /webhooks/:id/secret", "DELETE /webhooks/:id"}}

UsersRoutes ==
  {On("GET /users", {"sales:create"})}
    \cup {On(route, {}) :
            route \in {"GET /users/me", "PATCH /users/me",
                      "POST /users/me/change-password", "GET /users/me/sessions",
                      "DELETE /users/me/sessions/:id"}}

Registered ==
  PiecesRoutes \cup ProductsRoutes \cup SalesRoutes \cup ClaimsRoutes
    \cup TransfersRoutes \cup IncidentsRoutes \cup CertificatesRoutes
    \cup ServicesRoutes \cup NotificationsRoutes \cup WebhooksRoutes
    \cup UsersRoutes

\* A route nobody registered is answered 404.
LetIn(role, route) ==
  \E r \in Registered : r.route = route /\ Holds(role, r.any)

-----------------------------------------------------------------------------
(* The rows, as one user is tied to them.                                   *)

\* A transfer can be PENDING and overdue, or PENDING and offered by who is no
\* longer the owner; a piece can be barred by an open incident, a pending
\* transfer or an earlier sale.  No list shows these.  AVAILABLE stands for
\* IN_STOCK too, and REPORTED_STOLEN for LOST: the handlers here treat them
\* alike.
PieceRow ==
  {r \in [kind : {"piece"},
          status : {"AVAILABLE", "SOLD", "IN_SERVICE", "REPORTED_STOLEN",
                    "RETIRED"},
          tie : {"owner", "former", "held", "unheld"},
          bar : {"none", "incident", "transfer", "sale"}] :
     /\ r.bar = "transfer" => r.tie # "unheld"
     /\ r.bar = "sale" => r.tie = "unheld"}

TransferRow ==
  {r \in [kind : {"transfer"},
          status : {"PENDING", "ACCEPTED", "REJECTED", "CANCELLED", "EXPIRED"},
          tie : {"to", "from", "other"}, bar : {"none", "overdue", "orphan"}] :
     r.bar # "none" => r.status = "PENDING"}

IncidentRow ==
  [kind : {"incident"},
   status : {"ACTIVE", "UNDER_REVIEW", "RECOVERED", "RESOLVED"},
   tie : {"reporter", "other"}, bar : {"none"}]

CertificateRow ==
  [kind : {"certificate"}, status : {"ACTIVE", "REVOKED"},
   tie : {"owner", "other"}, bar : {"none"}]

ServiceRow ==
  [kind : {"service"},
   status : {"REQUESTED", "IN_PROGRESS", "COMPLETED", "CANCELLED"},
   tie : {"requester", "owner", "other"}, bar : {"none"}]

NoticeRow ==
  [kind : {"notice"}, status : {"UNREAD", "READ"}, tie : {"mine"},
   bar : {"none"}]

Row ==
  PieceRow \cup TransferRow \cup IncidentRow \cup CertificateRow
    \cup ServiceRow \cup NoticeRow

-----------------------------------------------------------------------------
(* Which rows an answer shows.                                              *)

\* list() asks for any ownership record of the viewer, findById() only looks
\* at the latest.
PiecesShow(role, route, row) ==
  \/ route = "GET /pieces" /\ Holds(role, {"pieces:list"})
  \/ route = "GET /pieces" /\ row.tie \in {"owner", "former"}
  \/ route = "GET /pieces/:id" /\ Holds(role, {"pieces:read"})
  \/ route = "GET /pieces/:id" /\ row.tie = "owner"

TransfersShow(route, row) ==
  \/ route = "GET /transfers"
  \/ route = "GET /transfers/incoming" /\ row.tie = "to"
  \/ route = "GET /transfers/outgoing" /\ row.tie = "from"

IncidentsShow(role, row) ==
  Holds(role, {"incidents:read"}) \/ row.tie = "reporter"

CertificatesShow(role, row) ==
  Holds(role, {"certificates:read"}) \/ row.tie = "owner"

\* findById(), which no view calls, leaves the owner out.
ServicesShow(role, row) ==
  Holds(role, {"services:read"}) \/ row.tie \in {"requester", "owner"}

\* The routes whose answer is about a kind of row.
Lists(kind) ==
  CASE kind = "piece" -> {"GET /pieces", "GET /pieces/:id"}
    [] kind = "transfer" ->
         {"GET /transfers", "GET /transfers/incoming", "GET /transfers/outgoing"}
    [] kind = "incident" -> {"GET /incidents", "GET /incidents/:id"}
    [] kind = "certificate" -> {"GET /certificates"}
    [] kind = "service" -> {"GET /services"}
    [] kind = "notice" -> {"GET /notifications"}

Shows(role, route, row) ==
  /\ route \in Lists(row.kind)
  /\ CASE row.kind = "piece" -> PiecesShow(role, route, row)
       [] row.kind = "transfer" -> TransfersShow(route, row)
       [] row.kind = "incident" -> IncidentsShow(role, row)
       [] row.kind = "certificate" -> CertificatesShow(role, row)
       [] row.kind = "service" -> ServicesShow(role, row)
       [] row.kind = "notice" -> row.tie = "mine"

-----------------------------------------------------------------------------
(* Which row a handler accepts, and what it makes of it.                    *)

PieceTakes(role, route, row) ==
  CASE route = "POST /pieces/:id/retire" ->
         row.status \notin {"SOLD", "REPORTED_STOLEN", "RETIRED"}
    [] route = "POST /sales" ->
         /\ row.status = "AVAILABLE"
         /\ row.tie = "unheld" /\ row.bar # "sale"
    [] route = "POST /transfers" ->
         /\ row.bar \notin {"incident", "transfer"}
         /\ row.status \notin {"RETIRED", "REPORTED_STOLEN"}
         /\ row.tie # "unheld"
         /\ row.tie = "owner" \/ Holds(role, {"transfers:manage"})
    [] route = "POST /incidents" ->
         /\ row.status # "RETIRED" /\ row.bar # "incident"
         /\ row.tie = "owner" \/ Holds(role, {"incidents:read"})
    [] route = "POST /services" -> row.status # "RETIRED"
    [] OTHER -> TRUE

TransferTakes(role, route, row) ==
  /\ row.status = "PENDING" /\ row.bar # "overdue"
  /\ \/ row.tie = (IF route = "POST /transfers/:id/cancel" THEN "from" ELSE "to")
     \/ Holds(role, {"transfers:manage"})
  /\ route = "POST /transfers/:id/accept" => row.bar # "orphan"

CertificateTakes(role, route, row) ==
  CASE route = "GET /certificates/:id/download" -> CertificatesShow(role, row)
    [] route = "POST /certificates/:id/revoke" -> row.status # "REVOKED"

ServiceTakes(role, route, row) ==
  CASE route = "POST /services/:id/start" -> row.status = "REQUESTED"
    [] route = "POST /services/:id/complete" ->
         row.status \in {"REQUESTED", "IN_PROGRESS"}
    [] route = "POST /services/:id/cancel" ->
         /\ row.status = "REQUESTED"
         /\ \/ row.tie = "requester"
            \/ Holds(role, {"services:create", "services:complete"})

\* Takes is asked of the routes that are about the row.
Takes(role, route, row) ==
  IF route \in {"GET /pieces/:id", "GET /incidents/:id"}
    THEN Shows(role, route, row)
    ELSE CASE row.kind = "piece" -> PieceTakes(role, route, row)
           [] row.kind = "transfer" -> TransferTakes(role, route, row)
           [] row.kind = "certificate" -> CertificateTakes(role, route, row)
           [] row.kind = "service" -> ServiceTakes(role, route, row)
           [] OTHER -> TRUE

\* The status that the handler leaves the row in, where it has only one.
Leaves(route) ==
  CASE route = "POST /pieces/:id/retire" -> {"RETIRED"}
    [] route = "POST /transfers/:id/accept" -> {"ACCEPTED"}
    [] route = "POST /transfers/:id/reject" -> {"REJECTED"}
    [] route = "POST /certificates/:id/revoke" -> {"REVOKED"}
    [] route = "POST /services/:id/start" -> {"IN_PROGRESS"}
    [] route = "POST /services/:id/complete" -> {"COMPLETED"}
    [] route \in {"POST /transfers/:id/cancel", "POST /services/:id/cancel"} ->
         {"CANCELLED"}
    [] route \in {"PATCH /notifications/:id/read",
                 "PATCH /notifications/read-all"} -> {"READ"}
    [] OTHER -> {}

\* Mutant: a transfer that is settled is left overdue.
AfterKeepsBar(route, row) ==
  CASE Leaves(route) # {} -> {[row EXCEPT !.status = s] : s \in Leaves(route)}
    [] route = "POST /sales" ->
         {[row EXCEPT !.status = "SOLD", !.bar = "sale"]}
    [] route = "POST /transfers" -> {[row EXCEPT !.bar = "transfer"]}
    [] route = "POST /incidents" ->
         {[row EXCEPT !.status = s, !.bar = "incident"] :
            s \in {row.status, "REPORTED_STOLEN"}}
    [] OTHER -> {row}

\* The rows that the handler may leave: a report marks the piece by its type.
After(route, row) ==
  CASE Leaves(route) # {} ->
         {[row EXCEPT !.status = s,
                      !.bar = IF row.kind = "transfer" THEN "none" ELSE @] :
            s \in Leaves(route)}
    [] route = "POST /sales" ->
         {[row EXCEPT !.status = "SOLD", !.bar = "sale"]}
    [] route = "POST /transfers" -> {[row EXCEPT !.bar = "transfer"]}
    [] route = "POST /incidents" ->
         {[row EXCEPT !.status = s, !.bar = "incident"] :
            s \in {row.status, "REPORTED_STOLEN"}}
    [] OTHER -> {row}
=============================================================================
