--------------------------------- MODULE Routes ---------------------------------
(***************************************************************************)
(* The routers of the API as tables, in the order of their declaration:    *)
(* Express takes a request to the first route that matches it.  A route    *)
(* has the roles it admits, whether a validator or an upload stands before *)
(* its handler, whether the limiter of /auth does, and the status its      *)
(* controller answers with.                                                *)
(***************************************************************************)
EXTENDS Sequences

Roles    == {"ADMIN", "MANAGER", "TECHNICIAN"}
Managers == {"ADMIN", "MANAGER"}
Admins   == {"ADMIN"}
Anyone   == Roles \cup {"NOBODY"}    \* routes without authenticate

Route(method, path, audience, checked, status) ==
  [method |-> method, path |-> path, audience |-> audience,
   checked |-> checked, limited |-> FALSE, status |-> status]

Limited(route) == [route EXCEPT !.limited = TRUE]

-----------------------------------------------------------------------------
(* What controllers answer.                                                *)

AuthController ==
  [register |-> 201, login |-> 200, refresh |-> 200, logout |-> 204, acceptInvite |-> 201,
   forgotPassword |-> 204, resetPassword |-> 204]

AssetsController ==
  [getCategories |-> 200, getStats |-> 200, findAll |-> 200, findById |-> 200,
   findTasks |-> 200, create |-> 201, update |-> 200, delete |-> 204]

DashboardController == [getStats |-> 200]

UsersController ==
  [findAll |-> 200, getMe |-> 200, findById |-> 200, update |-> 200, updateRoles |-> 200,
   delete |-> 204, inviteUser |-> 201, getPendingInvites |-> 200, cancelInvite |-> 204,
   uploadAvatar |-> 200, changePassword |-> 204, signOutAllDevices |-> 204,
   deleteAccount |-> 204, updateStatus |-> 200, preferences |-> 200]

WorkOrderRequestsController ==
  [create |-> 201, findAll |-> 200, findById |-> 200, approve |-> 200, reject |-> 200]

InventoryController ==
  [getCategories |-> 200, getStats |-> 200, findAll |-> 200, findById |-> 200,
   create |-> 201, update |-> 200, restock |-> 200, delete |-> 204]

MetersController ==
  [findAll |-> 200, findReadings |-> 200, create |-> 201, update |-> 200, delete |-> 204,
   recordReading |-> 201]

RecurringTasksController ==
  [findAll |-> 200, findById |-> 200, create |-> 201, update |-> 200, pause |-> 200,
   resume |-> 200, delete |-> 204]

ReordersController ==
  [findAll |-> 200, getStats |-> 200, create |-> 201, markOrdered |-> 200, receive |-> 200,
   cancel |-> 200]

ReportsController ==
  [getAssetReliability |-> 200, getTechnicianWorkload |-> 200, getSpend |-> 200,
   getThroughput |-> 200]

TaskCommentsController == [findAll |-> 200, create |-> 201, delete |-> 204]

TasksController ==
  [uploadPhoto |-> 200, findAll |-> 200, findById |-> 200, create |-> 201, update |-> 200,
   complete |-> 200, cancel |-> 200, delete |-> 204]

ChecklistTemplatesController ==
  [findAll |-> 200, findByCategory |-> 200, updateByCategory |-> 200]

NotificationsController ==
  [findAll |-> 200, countUnread |-> 200, markAllAsRead |-> 200, update |-> 200, delete |-> 204]

-----------------------------------------------------------------------------
(* The routers.                                                            *)

AuthRoutes ==
  LET C == AuthController IN
    <<Limited(Route("post", <<"auth", "register">>, Anyone, TRUE, C.register)),
      Limited(Route("post", <<"auth", "login">>, Anyone, TRUE, C.login)),
      Route("post", <<"auth", "refresh">>, Anyone, FALSE, C.refresh),
      Route("post", <<"auth", "logout">>, Anyone, FALSE, C.logout),
      Route("post", <<"auth", "accept-invite">>, Anyone, TRUE, C.acceptInvite),
      Limited(Route("post", <<"auth", "forgot-password">>, Anyone, TRUE, C.forgotPassword)),
      Limited(Route("post", <<"auth", "reset-password">>, Anyone, TRUE, C.resetPassword))>>

AssetRoutes ==
  LET C == AssetsController IN
    <<Route("get", <<"assets", "categories">>, Roles, FALSE, C.getCategories),
      Route("get", <<"assets", "stats">>, Roles, FALSE, C.getStats),
      Route("get", <<"assets">>, Roles, TRUE, C.findAll),
      Route("get", <<"assets", ":id", "tasks">>, Roles, TRUE, C.findTasks),
      Route("get", <<"assets", ":id">>, Roles, TRUE, C.findById),
      Route("post", <<"assets">>, Managers, TRUE, C.create),
      Route("patch", <<"assets", ":id">>, Managers, TRUE, C.update),
      Route("delete", <<"assets", ":id">>, Admins, TRUE, C.delete)>>

DashboardRoutes ==
  <<Route("get", <<"dashboard", "stats">>, Roles, FALSE, DashboardController.getStats)>>

(* The routes of one's own account come before those with a parameter.     *)
OwnUserRoutes ==
  LET C == UsersController IN
    <<Route("get", <<"users">>, Managers, TRUE, C.findAll),
      Route("get", <<"users", "me">>, Roles, FALSE, C.getMe),
      Route("patch", <<"users", "me", "avatar">>, Roles, TRUE, C.uploadAvatar),
      Route("patch", <<"users", "me", "password">>, Roles, TRUE, C.changePassword),
      Route("delete", <<"users", "me", "sessions">>, Roles, FALSE, C.signOutAllDevices),
      Route("get", <<"users", "me", "notification-preferences">>, Roles, FALSE, C.preferences),
      Route("patch", <<"users", "me", "notification-preferences">>, Roles, TRUE, C.preferences),
      Route("delete", <<"users", "me">>, Roles, FALSE, C.deleteAccount),
      Route("get", <<"users", "pending-invites">>, Admins, FALSE, C.getPendingInvites)>>

UserRoutes ==
  LET C == UsersController IN
    <<Route("get", <<"users", ":id">>, Managers, TRUE, C.findById),
      Route("patch", <<"users", ":id">>, Roles, TRUE, C.update),
      Route("patch", <<"users", ":id", "roles">>, Admins, TRUE, C.updateRoles),
      Route("delete", <<"users", ":id">>, Admins, TRUE, C.delete),
      Route("post", <<"users", "invite">>, Admins, TRUE, C.inviteUser),
      Route("delete", <<"users", "invites", ":id">>, Admins, TRUE, C.cancelInvite),
      Route("patch", <<"users", ":id", "status">>, Admins, TRUE, C.updateStatus)>>

WorkOrderRequestRoutes ==
  LET C == WorkOrderRequestsController IN
    <<Route("post", <<"work-order-requests">>, Roles, TRUE, C.create),
      Route("get", <<"work-order-requests">>, Roles, TRUE, C.findAll),
      Route("get", <<"work-order-requests", ":id">>, Roles, TRUE, C.findById),
      Route("post", <<"work-order-requests", ":id", "approve">>, Managers, TRUE, C.approve),
      Route("post", <<"work-order-requests", ":id", "reject">>, Managers, TRUE, C.reject)>>

InventoryRoutes ==
  LET C == InventoryController IN
    <<Route("get", <<"inventory", "categories">>, Roles, FALSE, C.getCategories),
      Route("get", <<"inventory", "stats">>, Roles, FALSE, C.getStats),
      Route("get", <<"inventory">>, Roles, TRUE, C.findAll),
      Route("get", <<"inventory", ":id">>, Roles, TRUE, C.findById),
      Route("post", <<"inventory">>, Managers, TRUE, C.create),
      Route("patch", <<"inventory", ":id", "restock">>, Managers, TRUE, C.restock),
      Route("patch", <<"inventory", ":id">>, Managers, TRUE, C.update),
      Route("delete", <<"inventory", ":id">>, Admins, TRUE, C.delete)>>

MeterRoutes ==
  LET C == MetersController IN
    <<Route("get", <<"meters">>, Roles, TRUE, C.findAll),
      Route("post", <<"meters">>, Managers, TRUE, C.create),
      Route("patch", <<"meters", ":id">>, Managers, TRUE, C.update),
      Route("delete", <<"meters", ":id">>, Managers, TRUE, C.delete),
      Route("get", <<"meters", ":id", "readings">>, Roles, TRUE, C.findReadings),
      Route("post", <<"meters", ":id", "readings">>, Roles, TRUE, C.recordReading)>>

RecurringTaskRoutes ==
  LET C == RecurringTasksController IN
    <<Route("get", <<"recurring-tasks">>, Managers, TRUE, C.findAll),
      Route("get", <<"recurring-tasks", ":id">>, Managers, TRUE, C.findById),
      Route("post", <<"recurring-tasks">>, Managers, TRUE, C.create),
      Route("patch", <<"recurring-tasks", ":id">>, Managers, TRUE, C.update),
      Route("post", <<"recurring-tasks", ":id", "pause">>, Managers, TRUE, C.pause),
      Route("post", <<"recurring-tasks", ":id", "resume">>, Managers, TRUE, C.resume),
      Route("delete", <<"recurring-tasks", ":id">>, Admins, TRUE, C.delete)>>

(* The role is checked for the whole router.                               *)
ReorderRoutes ==
  LET C == ReordersController IN
    <<Route("get", <<"reorders">>, Managers, TRUE, C.findAll),
      Route("get", <<"reorders", "stats">>, Managers, FALSE, C.getStats),
      Route("post", <<"reorders">>, Managers, TRUE, C.create),
      Route("patch", <<"reorders", ":id", "order">>, Managers, TRUE, C.markOrdered),
      Route("patch", <<"reorders", ":id", "receive">>, Managers, TRUE, C.receive),
      Route("patch", <<"reorders", ":id", "cancel">>, Managers, TRUE, C.cancel)>>

ReportRoutes ==
  LET C == ReportsController IN
    <<Route("get", <<"reports", "assets">>, Managers, TRUE, C.getAssetReliability),
      Route("get", <<"reports", "technicians">>, Managers, TRUE, C.getTechnicianWorkload),
      Route("get", <<"reports", "throughput">>, Managers, TRUE, C.getThroughput),
      Route("get", <<"reports", "spend">>, Managers, TRUE, C.getSpend)>>

TaskCommentRoutes ==
  LET C == TaskCommentsController IN
    <<Route("get", <<"tasks", ":id", "comments">>, Roles, TRUE, C.findAll),
      Route("post", <<"tasks", ":id", "comments">>, Roles, TRUE, C.create),
      Route("delete", <<"tasks", ":id", "comments", ":commentId">>, Roles, TRUE, C.delete)>>

OwnTaskRoutes ==
  LET C == TasksController IN
    <<Route("get", <<"tasks">>, Roles, TRUE, C.findAll),
      Route("get", <<"tasks", ":id">>, Roles, TRUE, C.findById),
      Route("post", <<"tasks">>, Managers, TRUE, C.create),
      Route("patch", <<"tasks", ":id">>, Roles, TRUE, C.update),
      Route("post", <<"tasks", ":id", "before-photo">>, Roles, TRUE, C.uploadPhoto),
      Route("post", <<"tasks", ":id", "after-photo">>, Roles, TRUE, C.uploadPhoto),
      Route("post", <<"tasks", ":id", "cancel">>, Managers, TRUE, C.cancel),
      Route("post", <<"tasks", ":id", "complete">>, Roles, TRUE, C.complete),
      Route("delete", <<"tasks", ":id">>, Admins, TRUE, C.delete)>>

TaskRoutes == OwnTaskRoutes \o TaskCommentRoutes

ChecklistTemplateRoutes ==
  LET C == ChecklistTemplatesController IN
    <<Route("get", <<"checklist-templates">>, Roles, FALSE, C.findAll),
      Route("get", <<"checklist-templates", ":category">>, Roles, TRUE, C.findByCategory),
      Route("patch", <<"checklist-templates", ":category">>, Managers, TRUE, C.updateByCategory)>>

NotificationRoutes ==
  LET C == NotificationsController IN
    <<Route("get", <<"notifications">>, Roles, TRUE, C.findAll),
      Route("get", <<"notifications", "unread-count">>, Roles, FALSE, C.countUnread),
      Route("patch", <<"notifications", "read-all">>, Roles, FALSE, C.markAllAsRead),
      Route("patch", <<"notifications", ":id">>, Roles, TRUE, C.update),
      Route("delete", <<"notifications", ":id">>, Roles, TRUE, C.delete)>>

ParametersFirst ==    \* mutant: the routes with a parameter come first
  AuthRoutes \o AssetRoutes \o DashboardRoutes \o UserRoutes \o OwnUserRoutes
    \o WorkOrderRequestRoutes \o InventoryRoutes \o MeterRoutes \o RecurringTaskRoutes
    \o ReorderRoutes \o ReportRoutes \o TaskRoutes \o ChecklistTemplateRoutes
    \o NotificationRoutes

(* As app.ts mounts them, below the prefix of the API.                     *)
Routes ==
  AuthRoutes \o AssetRoutes \o DashboardRoutes \o OwnUserRoutes \o UserRoutes
    \o WorkOrderRequestRoutes \o InventoryRoutes \o MeterRoutes \o RecurringTaskRoutes
    \o ReorderRoutes \o ReportRoutes \o TaskRoutes \o ChecklistTemplateRoutes
    \o NotificationRoutes
=============================================================================
