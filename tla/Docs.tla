---------------------------------- MODULE Docs ----------------------------------
(***************************************************************************)
(* The operations the OpenAPI document of the server promises: whom each   *)
(* is for, and the answers it lists.  An operation without a security      *)
(* requirement is for anyone.                                              *)
(***************************************************************************)
AnyRole      == {"ADMIN", "MANAGER", "TECHNICIAN"}
ManagerRoles == {"ADMIN", "MANAGER"}
AdminRole    == {"ADMIN"}
Everyone     == AnyRole \cup {"NOBODY"}

Doc(method, path, audience, answers) ==
  [method |-> method, path |-> path, audience |-> audience, answers |-> answers]

-----------------------------------------------------------------------------
AuthDocs ==
  {Doc("post", <<"auth", "register">>, Everyone, {201, 400, 409, 429}),
   Doc("post", <<"auth", "login">>, Everyone, {200, 401, 429}),
   Doc("post", <<"auth", "refresh">>, Everyone, {200, 401}),
   Doc("post", <<"auth", "logout">>, Everyone, {204}),
   Doc("post", <<"auth", "forgot-password">>, Everyone, {204, 400, 429}),
   Doc("post", <<"auth", "reset-password">>, Everyone, {204, 400, 429}),
   Doc("post", <<"auth", "accept-invite">>, Everyone, {201, 400, 404, 409})}

AssetDocs ==
  {Doc("get", <<"assets", "categories">>, AnyRole, {200}),
   Doc("get", <<"assets", "stats">>, AnyRole, {200}),
   Doc("get", <<"assets">>, AnyRole, {200}),
   Doc("get", <<"assets", ":id", "tasks">>, AnyRole, {200, 404}),
   Doc("get", <<"assets", ":id">>, AnyRole, {200, 404})}

AssetChangeDocs ==
  {Doc("post", <<"assets">>, ManagerRoles, {201, 403, 409}),
   Doc("patch", <<"assets", ":id">>, ManagerRoles, {200, 403, 404}),
   Doc("delete", <<"assets", ":id">>, AdminRole, {204, 403, 404})}

ChecklistTemplateDocs ==
  {Doc("get", <<"checklist-templates">>, AnyRole, {200}),
   Doc("get", <<"checklist-templates", ":category">>, AnyRole, {200, 404}),
   Doc("patch", <<"checklist-templates", ":category">>, ManagerRoles, {200, 403})}

DashboardDocs ==
  {Doc("get", <<"dashboard", "stats">>, AnyRole, {200})}

InventoryDocs ==
  {Doc("get", <<"inventory", "categories">>, AnyRole, {200}),
   Doc("get", <<"inventory", "stats">>, AnyRole, {200}),
   Doc("get", <<"inventory">>, AnyRole, {200}),
   Doc("get", <<"inventory", ":id">>, AnyRole, {200, 404})}

InventoryChangeDocs ==
  {Doc("post", <<"inventory">>, ManagerRoles, {201, 403, 409}),
   Doc("patch", <<"inventory", ":id", "restock">>, ManagerRoles, {200, 403, 404}),
   Doc("patch", <<"inventory", ":id">>, ManagerRoles, {200, 403, 404}),
   Doc("delete", <<"inventory", ":id">>, AdminRole, {204, 403, 404})}

MeterDocs ==
  {Doc("get", <<"meters">>, AnyRole, {200}),
   Doc("post", <<"meters">>, ManagerRoles, {201, 403, 404, 409}),
   Doc("patch", <<"meters", ":id">>, ManagerRoles, {200, 403, 404, 409}),
   Doc("delete", <<"meters", ":id">>, ManagerRoles, {204, 403, 404, 409}),
   Doc("get", <<"meters", ":id", "readings">>, AnyRole, {200, 404}),
   Doc("post", <<"meters", ":id", "readings">>, AnyRole, {201, 404, 409})}

NotificationDocs ==
  {Doc("get", <<"notifications">>, AnyRole, {200}),
   Doc("get", <<"notifications", "unread-count">>, AnyRole, {200}),
   Doc("patch", <<"notifications", "read-all">>, AnyRole, {200}),
   Doc("patch", <<"notifications", ":id">>, AnyRole, {200, 403, 404}),
   Doc("delete", <<"notifications", ":id">>, AnyRole, {204, 403, 404})}

RecurringTaskDocs ==
  {Doc("get", <<"recurring-tasks">>, ManagerRoles, {200}),
   Doc("get", <<"recurring-tasks", ":id">>, ManagerRoles, {200, 404}),
   Doc("post", <<"recurring-tasks">>, ManagerRoles, {201, 404}),
   Doc("patch", <<"recurring-tasks", ":id">>, ManagerRoles, {200, 404}),
   Doc("post", <<"recurring-tasks", ":id", "pause">>, ManagerRoles, {200, 404, 409}),
   Doc("post", <<"recurring-tasks", ":id", "resume">>, ManagerRoles, {200, 404, 409}),
   Doc("delete", <<"recurring-tasks", ":id">>, AdminRole, {204, 403, 404})}

ReorderDocs ==
  {Doc("get", <<"reorders">>, ManagerRoles, {200, 403}),
   Doc("get", <<"reorders", "stats">>, ManagerRoles, {200, 403}),
   Doc("post", <<"reorders">>, ManagerRoles, {201, 403, 404, 409}),
   Doc("patch", <<"reorders", ":id", "order">>, ManagerRoles, {200, 403, 404, 409}),
   Doc("patch", <<"reorders", ":id", "receive">>, ManagerRoles, {200, 403, 404, 409}),
   Doc("patch", <<"reorders", ":id", "cancel">>, ManagerRoles, {200, 403, 404, 409})}

ReportDocs ==
  {Doc("get", <<"reports", "assets">>, ManagerRoles, {200, 403}),
   Doc("get", <<"reports", "technicians">>, ManagerRoles, {200, 403}),
   Doc("get", <<"reports", "throughput">>, ManagerRoles, {200, 400, 403}),
   Doc("get", <<"reports", "spend">>, ManagerRoles, {200, 400, 403})}

TaskCommentDocs ==
  {Doc("get", <<"tasks", ":id", "comments">>, AnyRole, {200, 404}),
   Doc("post", <<"tasks", ":id", "comments">>, AnyRole, {201, 404}),
   Doc("delete", <<"tasks", ":id", "comments", ":commentId">>, AnyRole, {204, 403, 404})}

TaskDocs ==
  {Doc("get", <<"tasks">>, AnyRole, {200}),
   Doc("get", <<"tasks", ":id">>, AnyRole, {200, 404}),
   Doc("post", <<"tasks">>, ManagerRoles, {201, 403}),
   Doc("patch", <<"tasks", ":id">>, AnyRole, {200, 403, 404}),
   Doc("post", <<"tasks", ":id", "before-photo">>, AnyRole, {200, 400, 403, 404})}

TaskClosingDocs ==
  {Doc("post", <<"tasks", ":id", "after-photo">>, AnyRole, {200, 400, 403, 404}),
   Doc("post", <<"tasks", ":id", "complete">>, AnyRole, {200, 400, 403, 404, 409}),
   Doc("post", <<"tasks", ":id", "cancel">>, ManagerRoles, {200, 400, 403, 404, 409}),
   Doc("delete", <<"tasks", ":id">>, AdminRole, {204, 403, 404})}

UserDocs ==
  {Doc("get", <<"users">>, ManagerRoles, {200, 403}),
   Doc("get", <<"users", "me">>, AnyRole, {200}),
   Doc("get", <<"users", ":id">>, ManagerRoles, {200, 403, 404}),
   Doc("patch", <<"users", ":id">>, AnyRole, {200, 403, 404, 409}),
   Doc("patch", <<"users", ":id", "roles">>, AdminRole, {200, 403, 404}),
   Doc("delete", <<"users", ":id">>, AdminRole, {204, 403, 404})}

InviteDocs ==
  {Doc("post", <<"users", "invite">>, AdminRole, {201, 403, 409}),
   Doc("get", <<"users", "pending-invites">>, AdminRole, {200, 403}),
   Doc("delete", <<"users", "invites", ":id">>, AdminRole, {204, 400, 403, 404}),
   Doc("patch", <<"users", ":id", "status">>, AdminRole, {200, 403, 404})}

OwnAccountDocs ==
  {Doc("delete", <<"users", "me", "sessions">>, AnyRole, {204}),
   Doc("delete", <<"users", "me">>, AnyRole, {204, 404}),
   Doc("patch", <<"users", "me", "password">>, AnyRole, {204, 400}),
   Doc("patch", <<"users", "me", "avatar">>, AnyRole, {200, 400}),
   Doc("get", <<"users", "me", "notification-preferences">>, AnyRole, {200}),
   Doc("patch", <<"users", "me", "notification-preferences">>, AnyRole, {200, 400})}

WorkOrderRequestDocs ==
  {Doc("post", <<"work-order-requests">>, AnyRole, {201, 404}),
   Doc("get", <<"work-order-requests">>, AnyRole, {200}),
   Doc("get", <<"work-order-requests", ":id">>, AnyRole, {200, 403, 404}),
   Doc("post", <<"work-order-requests", ":id", "approve">>, ManagerRoles, {200, 403, 404, 409}),
   Doc("post", <<"work-order-requests", ":id", "reject">>, ManagerRoles, {200, 403, 404, 409})}

(* The document served at /docs.json.                                      *)
Docs ==
  UNION {AuthDocs, AssetDocs, AssetChangeDocs, ChecklistTemplateDocs, DashboardDocs,
         InventoryDocs, InventoryChangeDocs, MeterDocs, NotificationDocs, RecurringTaskDocs,
         ReorderDocs, ReportDocs, TaskCommentDocs, TaskDocs, TaskClosingDocs, UserDocs,
         InviteDocs, OwnAccountDocs, WorkOrderRequestDocs}
=============================================================================
