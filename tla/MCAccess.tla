-------------------------------- MODULE MCAccess --------------------------------
(***************************************************************************)
(* Instances of Sessions, of OneTimeLinks and of Http for TLC.  They share *)
(* no state, so a behaviour is one of a single instance, named by `part':  *)
(* the product would multiply their states and show nothing more.  What    *)
(* the other instances' variables would hold is left at Null; there are    *)
(* then no sessions.                                                       *)
(***************************************************************************)
EXTENDS Sessions, Sequences, TLC

CONSTANTS
  People, Emails, Invites, Resets, Desks,    \* of OneTimeLinks
  Visitors, Services, DailyJobs,             \* of Http: clients, dependencies and jobs,
  MaxGeneral, MaxAuth,                       \* the limits of its limiters,
  Ids                                        \* and what a request puts for a parameter

ASSUME LimitsAssumption == MaxGeneral \in Nat /\ MaxAuth \in Nat

VARIABLES
  part,
  person, invite, reset, linkReq, made, freed, updates, shared,
  phase, exit, pending, scheduled, running, connected, slot, stray, hits, cut, starved

Links == INSTANCE OneTimeLinks WITH req <- linkReq

H == INSTANCE Http WITH Clients <- {}, Callers <- {}, Requests <- {}, Dependencies <- {},
                        Jobs <- {}

(* Every documented operation is requested, and a path that is not there.  *)
Segment(name, id) == IF name \in H!Parameters THEN id[name] ELSE name
Request(d, id)    ==
  [method |-> d.method, documented |-> d.path,
   path |-> [i \in 1 .. Len(d.path) |-> Segment(d.path[i], id)]]
Unknown           == [method |-> "get", path |-> <<"none">>, documented |-> <<>>]
AllRequests       ==
  {Request(d, id) : d \in H!Docs, id \in [H!Parameters -> Ids]} \cup {Unknown}

AllCallers == {{"ADMIN"}, {"MANAGER"}, {"TECHNICIAN"}, {"NOBODY"}}

Web == INSTANCE Http WITH
         Clients <- Visitors, Callers <- AllCallers, Requests <- AllRequests,
         Dependencies <- Services, Jobs <- DailyJobs

(* A parameter is the id of a row or a category; no segment that a route   *)
(* spells out is one.                                                      *)
ASSUME IdsAssumption ==
  \A k \in 1 .. Len(Web!Routes) :
    \A i \in 1 .. Len(Web!Routes[k].path) : Web!Routes[k].path[i] \notin Ids

(* A slice of Sessions: one refresh token at most lives until it expires.  *)
OneExpires == Cardinality(lapsed) <= 1

(* Two slices of Http.  In one, one client at a time sends each request    *)
(* with each role, or without a token, while no job runs, and waits for    *)
(* what a handler answers.                                                 *)
OneClient ==
  /\ running = {} /\ stray = {}
  /\ \E c \in Visitors : \A d \in Visitors \ {c} :
       d \notin connected /\ hits[d] = [general |-> 0, auth |-> 0]

(* In the other, every client sends the few requests that tell the         *)
(* limiters and a miss apart, through starts and shutdowns.                *)
FewRequests ==
  \A c \in Visitors :
    /\ slot[c].pc # "idle" => slot[c].request.documented \in {<<"auth", "login">>, <<>>}
    /\ slot[c].pc = "handling" => slot[c].caller = {"ADMIN"}
    /\ slot[c].pc = "answered" => slot[c].caller \in {{"ADMIN"}, Null}

links == <<person, invite, reset, linkReq, made, freed, updates, shared>>
web   == <<phase, exit, pending, scheduled, running, connected, slot, stray, hits, cut, starved>>

NoSessions ==
  /\ account = Null /\ key = [t \in Tokens |-> Null] /\ index = Null /\ signed = Null /\ lapsed = Null
  /\ req = Null /\ adrift = Null /\ over = {} /\ origin = Null /\ doubled = Null
NoLinks ==
  /\ person = Null /\ invite = Null /\ reset = Null /\ linkReq = Null
  /\ made = Null /\ freed = Null /\ updates = Null /\ shared = Null
NoWeb ==
  /\ phase = Null /\ exit = Null /\ pending = Null /\ scheduled = Null /\ running = Null
  /\ connected = Null /\ slot = Null /\ stray = Null /\ hits = Null /\ cut = Null /\ starved = Null

MCInit ==
  \/ part = "sessions" /\ Init       /\ NoLinks    /\ NoWeb
  \/ part = "links"    /\ Links!Init /\ NoSessions /\ NoWeb
  \/ part \in {"api", "process"} /\ Web!Init /\ NoSessions /\ NoLinks

SessionsNext == part = "sessions" /\ Next       /\ OneExpires'  /\ UNCHANGED <<part, links, web>>
LinksNext    == part = "links"    /\ Links!Next /\ UNCHANGED <<part, vars, web>>
ApiNext      == part = "api"      /\ Web!Next   /\ OneClient'   /\ UNCHANGED <<part, vars, links>>
ProcessNext  == part = "process"  /\ Web!Next   /\ FewRequests' /\ UNCHANGED <<part, vars, links>>

MCNext == SessionsNext \/ LinksNext \/ ApiNext \/ ProcessNext

MCSpec == MCInit /\ [][MCNext]_<<part, vars, links, web>>

Symmetry == Permutations(Clients) \cup Permutations(Visitors)

(* Each instance keeps its types.                                          *)
AccessTypes ==
  /\ part = "sessions" => TypeOK
  /\ part = "links" => Links!TypeOK
  /\ part \in {"api", "process"} => Web!TypeOK

(* An invite makes one account, unless its first account has given the     *)
(* address up, and is marked used only once it has made one.               *)
InviteMakesOneAccount == part = "links" => Links!InviteMakesOneAccount

(* A reset link changes the password once, unless two requests held it.    *)
ResetWorksOnce == part = "links" => Links!ResetWorksOnce

(* Each documented operation is routed, limited, allowed by role, and      *)
(* answered on success, as the document says.                              *)
ServedAsDocumented == part \in {"api", "process"} => Web!ServedAsDocumented

(* A clean exit leaves no client waiting, and started no job too late.     *)
CleanShutdown == part \in {"api", "process"} => Web!CleanShutdown
=============================================================================
