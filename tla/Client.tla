------------------------------- MODULE Client --------------------------------
(***************************************************************************)
(* web/src/api/index.ts: the route that each function of the client calls.  *)
(***************************************************************************)

usersApi ==
  [me |-> "GET /users/me", listActive |-> "GET /users",
   updateMe |-> "PATCH /users/me", sessions |-> "GET /users/me/sessions",
   revokeSession |-> "DELETE /users/me/sessions/:id",
   changePassword |-> "POST /users/me/change-password"]

productsApi == [list |-> "GET /products", create |-> "POST /products"]

\* updateStatus posts what the controller registers as a PATCH.
piecesApi ==
  [list |-> "GET /pieces", detail |-> "GET /pieces/:id",
   create |-> "POST /pieces", updateStatus |-> "POST /pieces/:id/status",
   retire |-> "POST /pieces/:id/retire",
   regenerateQr |-> "POST /pieces/:id/qr/regenerate"]

salesApi == [list |-> "GET /sales", create |-> "POST /sales"]

claimsApi == [list |-> "GET /claims", redeem |-> "POST /claims/redeem"]

transfersApi ==
  [incoming |-> "GET /transfers/incoming",
   outgoing |-> "GET /transfers/outgoing", all |-> "GET /transfers",
   request |-> "POST /transfers", accept |-> "POST /transfers/:id/accept",
   reject |-> "POST /transfers/:id/reject",
   cancel |-> "POST /transfers/:id/cancel"]

incidentsApi ==
  [list |-> "GET /incidents", detail |-> "GET /incidents/:id",
   create |-> "POST /incidents"]

notificationsApi ==
  [list |-> "GET /notifications", markRead |-> "PATCH /notifications/:id/read",
   markAllRead |-> "PATCH /notifications/read-all"]

webhooksApi ==
  [list |-> "GET /webhooks", deliveries |-> "GET /webhooks/:id/deliveries",
   create |-> "POST /webhooks", update |-> "PATCH /webhooks/:id",
   rotateSecret |-> "POST /webhooks/:id/secret",
   remove |-> "DELETE /webhooks/:id"]

certificatesApi ==
  [list |-> "GET /certificates", create |-> "POST /certificates",
   revoke |-> "POST /certificates/:id/revoke",
   download |-> "GET /certificates/:id/download"]

servicesApi ==
  [list |-> "GET /services", create |-> "POST /services",
   start |-> "POST /services/:id/start",
   complete |-> "POST /services/:id/complete",
   cancel |-> "POST /services/:id/cancel"]
=============================================================================
