---------------------------------- MODULE Http ----------------------------------
(***************************************************************************)
(* The HTTP server: its start, its shutdown, and the way of a request      *)
(* through the middleware to a handler and its answer.  What handlers do   *)
(* is in the modules of their components; here a handler succeeds with the *)
(* status of its controller or throws.                                     *)
(***************************************************************************)
EXTENDS Routes, Docs, Naturals

CONSTANTS
  Clients,       \* each with one connection and one request at a time
  Callers,       \* what a token may say: sets of roles, {"NOBODY"} without one
  Requests,      \* the requests sent: method, path, and the path documented
  Dependencies,  \* what the process connects to when it starts
  Jobs,          \* cron jobs
  MaxGeneral,    \* GENERAL_RATE_LIMIT_MAX_REQUESTS
  MaxAuth,       \* AUTH_RATE_LIMIT_MAX_REQUESTS
  Null

VARIABLES
  phase,         \* of the process
  exit,          \* exit code of the last process
  pending,       \* dependencies that have not answered yet
  scheduled,     \* jobs that are scheduled
  running,       \* jobs with a run in flight
  connected,     \* clients with an open connection
  slot,          \* the request of each client
  stray,         \* clients that hung up while a handler served them that still runs
  hits,          \* stores of the two limiters, in the memory of the process
  cut,           \* history: clients the last exit left waiting for an answer
  starved        \* history: jobs started while the process disconnected

process   == <<phase, exit, pending, scheduled, running>>
histories == <<cut, starved>>
vars      == <<process, connected, slot, stray, hits, histories>>

-----------------------------------------------------------------------------
Parameters == {":id", ":category", ":commentId"}

Idle      == [pc |-> "idle"]
Reading   == [pc : {"reading"}, request : Requests]
Handling  == [pc : {"handling"}, request : Requests, caller : Callers, route : 1 .. Len(Routes)]
Refusers  == {"generalLimiter", "body", "router", "authLimiter", "authenticate", "authorize",
              "validator"}
Answered  == [pc : {"answered"}, request : Requests, caller : Callers \cup {Null},
              by : Refusers \cup {"handler"}, route : 0 .. Len(Routes), status : 200 .. 500]
Slotted   == {Idle} \cup Reading \cup Handling \cup Answered

InFlight(c) == slot[c].pc \in {"reading", "handling"}
Serving     == phase \in {"up", "closing"}

Init ==
  /\ phase     = "down"
  /\ exit      = Null
  /\ pending   = {}
  /\ scheduled = {}
  /\ running   = {}
  /\ connected = {}
  /\ slot      = [c \in Clients |-> Idle]
  /\ stray     = {}
  /\ hits      = [c \in Clients |-> [general |-> 0, auth |-> 0]]
  /\ cut       = {}
  /\ starved   = {}

-----------------------------------------------------------------------------
(* The process.                                                            *)

(* It listens and registers the jobs without waiting for the dependencies. *)
Start ==
  /\ phase = "down"
  /\ phase' = "up"
  /\ exit' = Null
  /\ pending' = Dependencies
  /\ scheduled' = Jobs
  /\ cut' = {}
  /\ UNCHANGED <<running, connected, slot, stray, hits, starved>>

(* What runs ends with it, the handlers of clients that hung up included.  *)
Exit(code) ==
  /\ phase' = "down"
  /\ exit' = code
  /\ pending' = {} /\ scheduled' = {} /\ running' = {} /\ connected' = {}
  /\ cut' = {c \in Clients : InFlight(c)}
  /\ slot' = [c \in Clients |-> Idle] /\ stray' = {}
  /\ hits' = [c \in Clients |-> [general |-> 0, auth |-> 0]]
  /\ UNCHANGED starved

Connect(d) ==
  /\ d \in pending
  /\ pending' = pending \ {d}
  /\ UNCHANGED <<phase, exit, scheduled, running, connected, slot, stray, hits, histories>>

ConnectFails(d) == d \in pending /\ Exit(1)

(* An uncaught exception, an unhandled rejection, or a kill.               *)
Crash == phase # "down" /\ Exit(1)

(* A signal.  The server accepts no connection any more and closes those   *)
(* that are idle; a second signal adds nothing.                            *)
Shutdown ==
  /\ phase = "up"
  /\ phase' = "closing"
  /\ connected' = {c \in connected : InFlight(c)}
  /\ slot' = [c \in Clients |-> IF InFlight(c) THEN slot[c] ELSE Idle]
  /\ UNCHANGED <<exit, pending, scheduled, running, stray, hits, histories>>

(* The callback of server.close, once the last connection has ended.  It   *)
(* does not wait for the handlers of connections that were aborted.        *)
CloseAtOnce ==    \* mutant: the callback does not wait for the connections
  /\ phase = "closing"
  /\ phase' = "disconnecting"
  /\ scheduled' = {}
  /\ UNCHANGED <<exit, pending, running, connected, slot, stray, hits, histories>>

CloseServer ==
  /\ phase = "closing"
  /\ connected = {}
  /\ phase' = "disconnecting"
  /\ scheduled' = {}
  /\ UNCHANGED <<exit, pending, running, connected, slot, stray, hits, histories>>

(* A run in flight is not waited for.                                      *)
Disconnect ==
  /\ phase = "disconnecting"
  /\ \E code \in {0, 1} : Exit(code)

(* SERVER_SHUTDOWN_TIMEOUT_MS after the signal.                            *)
ForceExit == phase \in {"closing", "disconnecting"} /\ Exit(1)

StartRun(j) ==
  /\ j \in scheduled \ running
  /\ running' = running \cup {j}
  /\ starved' = IF phase = "disconnecting" THEN starved \cup {j} ELSE starved
  /\ UNCHANGED <<phase, exit, pending, scheduled, connected, slot, stray, hits, cut>>

EndRun(j) ==
  /\ j \in running
  /\ running' = running \ {j}
  /\ UNCHANGED <<phase, exit, pending, scheduled, connected, slot, stray, hits, histories>>

-----------------------------------------------------------------------------
(* Requests.                                                               *)

Answer(c, caller, by, route, status) ==
  slot' = [slot EXCEPT ![c] = [pc |-> "answered", request |-> slot[c].request, caller |-> caller,
                               by |-> by, route |-> route, status |-> status]]

(* errorHandler.                                                           *)
AppErrors   == {400, 401, 403, 404, 409}
HttpErrors  == {400, 413}
ErrorHandler(error) ==
  CASE error.name = "AppError"  -> error.status
    [] error.name = "ZodError"  -> 400
    [] error.name = "HttpError" -> error.status
    [] error.name = "P2002"     -> 409
    [] error.name = "Error"     -> 500

AppError(status) == [name |-> "AppError", status |-> status]
HandlerErrors    == {AppError(s) : s \in AppErrors} \cup {[name |-> "P2002"], [name |-> "Error"]}

(* The general limiter counts a request before its body is read, those it  *)
(* refuses included.                                                       *)
Arrive(c, request) ==
  /\ phase = "up" \/ (phase = "closing" /\ c \in connected)
  /\ ~InFlight(c)
  /\ connected' = connected \cup {c}
  /\ LET count == hits[c].general IN
       /\ hits' = [hits EXCEPT ![c].general = IF count > MaxGeneral THEN count ELSE count + 1]
       /\ slot' = [slot EXCEPT ![c] =
            IF count >= MaxGeneral
              THEN [pc |-> "answered", request |-> request, caller |-> Null,
                    by |-> "generalLimiter", route |-> 0, status |-> 429]
              ELSE [pc |-> "reading", request |-> request]]
  /\ UNCHANGED <<process, stray, histories>>

(* jsonSizeLimit: too large, or not JSON.                                  *)
RefuseBody(c) ==
  /\ slot[c].pc = "reading"
  /\ \E status \in HttpErrors :
       Answer(c, Null, "body", 0, ErrorHandler([name |-> "HttpError", status |-> status]))
  /\ UNCHANGED <<process, connected, stray, hits, histories>>

(* A route matches a path segment by segment.                              *)
Matches(route, request) ==
  /\ route.method = request.method
  /\ Len(route.path) = Len(request.path)
  /\ \A i \in 1 .. Len(route.path) : route.path[i] \in Parameters \cup {request.path[i]}

(* The first that matches, 0 without one.                                  *)
Dispatched(request) ==
  LET matching == {i \in 1 .. Len(Routes) : Matches(Routes[i], request)} IN
    IF matching = {} THEN 0 ELSE CHOOSE i \in matching : \A j \in matching : i <= j

(* From the router to the handler without a break: the limiter of /auth,   *)
(* authenticate, authorize, and the validators.                            *)
Dispatch(c, caller) ==
  /\ slot[c].pc = "reading"
  /\ LET r == Dispatched(slot[c].request) IN
       IF r = 0
         THEN Answer(c, caller, "router", r, ErrorHandler(AppError(404))) /\ UNCHANGED hits
         ELSE LET route   == Routes[r]
                  limited == route.limited /\ hits[c].auth >= MaxAuth
                  public  == "NOBODY" \in route.audience
                  known   == public \/ caller # {"NOBODY"}
                  allowed == public \/ caller \cap route.audience # {}
              IN /\ hits' = IF route.limited /\ hits[c].auth <= MaxAuth
                              THEN [hits EXCEPT ![c].auth = @ + 1] ELSE hits
                 /\ \/ limited /\ Answer(c, caller, "authLimiter", r, 429)
                    \/ ~limited /\ ~known
                         /\ Answer(c, caller, "authenticate", r, ErrorHandler(AppError(401)))
                    \/ ~limited /\ known /\ ~allowed
                         /\ Answer(c, caller, "authorize", r, ErrorHandler(AppError(403)))
                    \/ ~limited /\ known /\ allowed /\ route.checked
                         /\ Answer(c, caller, "validator", r, ErrorHandler([name |-> "ZodError"]))
                    \/ ~limited /\ known /\ allowed
                         /\ slot' = [slot EXCEPT ![c] = [pc |-> "handling", route |-> r,
                              caller |-> caller, request |-> slot[c].request]]
  /\ UNCHANGED <<process, connected, stray, histories>>

(* asyncHandler passes what the handler throws on to errorHandler.         *)
Handle(c) ==
  /\ slot[c].pc = "handling"
  /\ \E status \in {Routes[slot[c].route].status} \cup {ErrorHandler(e) : e \in HandlerErrors} :
       Answer(c, slot[c].caller, "handler", slot[c].route, status)
  /\ UNCHANGED <<process, connected, stray, hits, histories>>

(* A connection ends: idle for a while, or the client aborts or a proxy    *)
(* gives up at any time.  A body that is not read yet is given up; a       *)
(* handler runs on, and nobody gets its answer.                            *)
HangUp(c) ==
  /\ c \in connected
  /\ connected' = connected \ {c}
  /\ slot' = [slot EXCEPT ![c] = Idle]
  /\ stray' = IF slot[c].pc = "handling" THEN stray \cup {c} ELSE stray
  /\ UNCHANGED <<process, hits, histories>>

(* The last handler that still runs for a client that hung up ends.        *)
EndStray(c) ==
  /\ c \in stray
  /\ stray' = stray \ {c}
  /\ UNCHANGED <<process, connected, slot, hits, histories>>

ResetWindow(c, limiter) ==
  /\ hits[c][limiter] > 0
  /\ hits' = [hits EXCEPT ![c][limiter] = 0]
  /\ UNCHANGED <<process, connected, slot, stray, histories>>

-----------------------------------------------------------------------------
Process ==
  \/ Start \/ Crash \/ Shutdown \/ CloseServer \/ Disconnect \/ ForceExit
  \/ \E d \in Dependencies : Connect(d) \/ ConnectFails(d)
  \/ \E j \in Jobs : StartRun(j) \/ EndRun(j)

Exchange(c) ==
  \/ \E request \in Requests : Arrive(c, request)
  \/ RefuseBody(c)
  \/ \E caller \in Callers : Dispatch(c, caller)
  \/ Handle(c)
  \/ HangUp(c) \/ EndStray(c)
  \/ \E limiter \in {"general", "auth"} : ResetWindow(c, limiter)

Next == Process \/ \E c \in Clients : Exchange(c)

Spec == Init /\ [][Next]_vars

-----------------------------------------------------------------------------
(* Properties.                                                             *)

(* The process, its connections and requests keep their types, and a       *)
(* client that waits for an answer has a connection.                       *)
TypeOK ==
  /\ phase     \in {"down", "up", "closing", "disconnecting"}
  /\ exit      \in {0, 1, Null}
  /\ pending   \subseteq Dependencies
  /\ scheduled \subseteq Jobs /\ running \subseteq Jobs
  /\ connected \subseteq Clients
  /\ \A c \in Clients : slot[c] \in Slotted /\ (slot[c] # Idle => c \in connected)
  /\ stray     \subseteq Clients
  /\ hits      \in [Clients -> [general : 0 .. MaxGeneral + 1, auth : 0 .. MaxAuth + 1]]
  /\ cut \subseteq Clients /\ starved \subseteq Jobs

(* A request for a documented operation, whatever the order of the routes, *)
(* comes to the route declared for it, is refused for its role just when   *)
(* the document excludes the caller, is answered 429 by the limiter of     *)
(* /auth only where that is documented, and succeeds with a documented     *)
(* status.                                                                 *)
ServedAsDocumented ==
  \A c \in Clients : slot[c].pc \in {"handling", "answered"} =>
    \A d \in {e \in Docs : e.method = slot[c].request.method /\ e.path = slot[c].request.documented} :
      LET s       == slot[c]
          handled == s.pc = "handling" \/ s.by \in {"validator", "handler"}
      IN /\ handled => /\ Routes[s.route].path = d.path
                       /\ "NOBODY" \in d.audience \/ s.caller \cap d.audience # {}
         /\ s.pc = "answered" =>
              /\ s.by # "router"
              /\ s.by \in {"authenticate", "authorize"} => s.caller \cap d.audience = {}
              /\ s.by = "authLimiter" => 429 \in d.answers
              /\ s.by = "handler" /\ s.status < 400 => s.status \in d.answers

(* A process that exits with code 0 leaves no client waiting for an answer *)
(* to a request it began to serve, and no job starts once the database may *)
(* be gone.  The handler of a client that hung up may be cut off: the exit *)
(* waits for connections, not for handlers.                                *)
CleanShutdown == starved = {} /\ (exit = 0 => cut = {})
=============================================================================
