-------------------------------- MODULE Roles --------------------------------
(***************************************************************************)
(* The roles and permissions that prisma/seed.ts writes, and the question   *)
(* that the guard of the API and the web client ask of them.                *)
(***************************************************************************)

Customer == {"pieces:read_own", "transfers:request", "transfers:accept",
  "transfers:reject", "claims:redeem", "incidents:create",
  "incidents:read_own", "certificates:read_own", "certificates:download_own",
  "services:request", "notifications:read_own", "notifications:update_own",
  "webhooks:manage_own"}

Staff == {"pieces:create", "pieces:read", "pieces:list",
  "pieces:update_status", "pieces:retire", "products:create",
  "products:read", "products:update", "identities:create",
  "identities:regenerate", "qr:create", "qr:revoke", "qr:regenerate",
  "transfers:manage", "claims:create", "claims:read", "sales:create",
  "sales:read", "incidents:create", "incidents:read", "incidents:recover",
  "incidents:review", "certificates:create", "certificates:revoke",
  "certificates:read", "services:create", "services:complete",
  "services:read", "notifications:read_own", "notifications:update_own",
  "webhooks:manage", "dashboard:staff"}

Admin == Staff \cup {"incidents:resolve", "users:read", "users:list",
  "users:update_status", "audit:read"}

\* No role but SUPER_ADMIN has the last two.
Permission == Customer \cup Admin \cup {"roles:manage", "permissions:manage"}

Role == {"CUSTOMER", "STAFF", "ADMIN", "SUPER_ADMIN"}

Permissions ==
  [role \in Role |->
     CASE role = "CUSTOMER" -> Customer
       [] role = "STAFF" -> Staff
       [] role = "ADMIN" -> Admin
       [] role = "SUPER_ADMIN" -> Permission]

\* One of the permissions asked for is enough, and asking for none asks for
\* nothing (permissions.guard.ts, hasPerm of stores/auth.ts).
Holds(role, any) == any = {} \/ \E p \in any : p \in Permissions[role]
=============================================================================
