------------------------------ MODULE Access_proofs ------------------------------
(***************************************************************************)
(* Theorems about Sessions, OneTimeLinks and Http, for any users, tokens,  *)
(* accounts, addresses, links, clients, dependencies, jobs and limits, and *)
(* any number of requests in flight.                                       *)
(*                                                                         *)
(* Sessions: a revocation deletes what the index lists; that it closes     *)
(* what was open rests on the index listing every open session but the     *)
(* ones adrift: SignedOutInv.  That a login has one open session rests on  *)
(* what else descends from it, the refreshes in flight: LoneInv.           *)
(*                                                                         *)
(* OneTimeLinks: that a reset link works once rests on the requests that   *)
(* hold it: ResetInv.  That an invite makes one account rests on the       *)
(* address everyone who knows the invite was given: InviteInv.             *)
(*                                                                         *)
(* Http: that a clean exit leaves no client waiting rests on those that    *)
(* wait having a connection, and on the last one being closed before the   *)
(* process disconnects: WebTypes and CleanInv.  That requests are served   *)
(* as the document says rests on what the middleware has let through,      *)
(* PassageInv, and on the two tables: no route takes what is meant for a   *)
(* later one, Ordered, and each operation is declared, Declares.           *)
(***************************************************************************)
EXTENDS MCAccess, Sums, SequenceTheorems, TLAPS

-----------------------------------------------------------------------------
(* Type correctness.                                                       *)

RedisTypes == /\ account \in [Users -> Accounts]
              /\ key     \in [Tokens -> Users \cup {Null}]
              /\ index   \in [Users -> SUBSET Tokens]
              /\ signed  \in [Tokens -> Users \cup {Null}]
              /\ lapsed  \in SUBSET Tokens
PastTypes  == /\ adrift  \in SUBSET Tokens
              /\ over    \in SUBSET Tokens
              /\ origin  \in [Tokens -> Tokens]
              /\ doubled \in SUBSET Tokens

LEMMA TypeParts == TypeOK <=> RedisTypes /\ PastTypes /\ req \in [Clients -> Requests]
BY DEF TypeOK, RedisTypes, PastTypes

(* What a request is, by where it has got to.                              *)
LEMMA RequestShapes ==
  ASSUME req \in [Clients -> Requests], NEW c \in Clients
  PROVE  /\ req[c].pc \in {"loading", "rotating"} => req[c] \in Refreshing
         /\ req[c].pc = "unlisting" => req[c] \in Unlisting
         /\ req[c].pc = "storing"  => req[c] \in Storing
         /\ req[c].pc = "indexing" => req[c] \in Indexing
         /\ req[c].pc = "listing"  => req[c] \in Listing
         /\ req[c].pc = "clearing" => req[c] \in Clearing
         /\ req[c].pc = "deleting" => req[c] \in Deleting
         /\ req[c].pc = "idle"     => req[c] = Idle
BY DEF Requests, Idle, Refreshing, Unlisting, Storing, Indexing, Listing, Clearing, Deleting

LEMMA HeldSigned ==
  ASSUME RedisTypes, NEW t \in Tokens, Held(t)
  PROVE  signed[t] \in Users
BY DEF RedisTypes, Held

LEMMA RevocationTypes ==
  /\ \A u \in Users : Revoke(u) \in Listing
  /\ \A c \in Clients : req[c].user \in Users => Revoked(c) \in {Idle} \cup Deleting
BY DEF Revoke, Listing, Revoked, Deleting

(* A refresh in flight presents a token that was signed for its user, and  *)
(* so do one that deletes a token and a login that has set its key.  The   *)
(* types need it: a deletion names the user the token was signed for.      *)
ForItsUser ==
  \A c \in Clients :
    req[c].pc \in {"loading", "rotating", "unlisting", "indexing"} =>
      signed[req[c].token] = req[c].user

(* The steps that delete a token.                                          *)
Deletes(c, t, from) ==
  /\ DeleteToken(c, t, from)
  /\ UNCHANGED <<account, index, signed, lapsed, histories>>

(* The key of a token is deleted, and its entry in the index next.         *)
LEMMA DeletionTypes ==
  ASSUME TypeOK, NEW c \in Clients, NEW t \in Tokens, NEW from \in Tokens \cup {Null},
         signed[t] \in Users, Deletes(c, t, from)
  PROVE  /\ key' \in [Tokens -> Users \cup {Null}]
         /\ req' \in [Clients -> Requests]
         /\ req'[c] = [pc |-> "unlisting", user |-> signed[t], token |-> t, from |-> from]
         /\ \A d \in Clients \ {c} : req'[d] = req[d]
<1>1. [pc |-> "unlisting", user |-> signed[t], token |-> t, from |-> from] \in Requests
  BY DEF Requests, Unlisting
<1>2. key' = [key EXCEPT ![t] = Null]
  BY DEF Deletes, DeleteToken
<1>3. req' = [req EXCEPT ![c] =
                [pc |-> "unlisting", user |-> signed[t], token |-> t, from |-> from]]
  BY DEF Deletes, DeleteToken, Go
<1>4. key \in [Tokens -> Users \cup {Null}] /\ req \in [Clients -> Requests]
  BY DEF TypeOK
<1>. QED
  BY <1>1, <1>2, <1>3, <1>4

LEMMA DeletingSteps ==
  ASSUME TypeOK, ForItsUser, NEW c \in Clients
  PROVE  /\ \A t \in Tokens :
              RefreshExpired(c, t) \/ Logout(c, t) => Deletes(c, t, Null) /\ signed[t] \in Users
         /\ Rotate(c) => /\ req[c].pc = "rotating" /\ req[c].token \in Tokens
                         /\ signed[req[c].token] \in Users
                         /\ signed[req[c].token] = req[c].user
                         /\ Deletes(c, req[c].token, req[c].token)
<1>1. ASSUME NEW t \in Tokens, RefreshExpired(c, t) \/ Logout(c, t)
      PROVE  Deletes(c, t, Null) /\ signed[t] \in Users
  BY <1>1, TypeParts, HeldSigned DEF RefreshExpired, Logout, Deletes
<1>2. ASSUME Rotate(c)
      PROVE  /\ req[c].pc = "rotating" /\ req[c].token \in Tokens
             /\ signed[req[c].token] \in Users /\ signed[req[c].token] = req[c].user
             /\ Deletes(c, req[c].token, req[c].token)
  <2>1. req[c].pc = "rotating" /\ req[c] \in Refreshing
    BY <1>2, RequestShapes DEF Rotate, TypeOK
  <2>. QED
    BY <1>2, <2>1 DEF Rotate, Deletes, Refreshing, ForItsUser
<1>. QED
  BY <1>1, <1>2

(* The requests in flight after a step.                                    *)
LEMMA RequestTypes ==
  ASSUME TypeOK, ForItsUser, [Next]_vars
  PROVE  req' \in [Clients -> Requests]
<1>0. RedisTypes /\ req \in [Clients -> Requests] /\ Idle \in Requests /\ Null \notin Users
  BY TypeParts, SessionsAssumption DEF Requests
<1>1. ASSUME NEW c \in Clients, NEW u \in Users,
             Login(c, u) \/ UpdatePassword(c, u) \/ SignOutAllDevices(c, u) \/ DeleteAccount(c, u)
      PROVE  req' \in [Clients -> Requests]
  <2>1. \E w \in Storing \cup Listing : req' = [req EXCEPT ![c] = w]
    <3>1. /\ [pc |-> "storing", user |-> u, from |-> Null] \in Storing
          /\ [pc |-> "listing", user |-> u, then |-> "delete"] \in Listing
          /\ Revoke(u) \in Listing
      BY RevocationTypes DEF Storing, Listing
    <3>. QED
      BY <1>1, <3>1 DEF Login, UpdatePassword, SignOutAllDevices, DeleteAccount, Begin
  <2>. QED
    BY <1>0, <2>1 DEF Requests
<1>2. ASSUME NEW c \in Clients, NEW t \in Tokens, Refresh(c, t) \/ RefreshSpent(c, t)
      PROVE  req' \in [Clients -> Requests]
  <2>1. signed[t] \in Users
    BY <1>0, <1>2, HeldSigned DEF Refresh, RefreshSpent
  <2>2. [pc |-> "loading", user |-> signed[t], token |-> t] \in Requests
        /\ Revoke(signed[t]) \in Requests
    BY <2>1, RevocationTypes DEF Requests, Refreshing
  <2>. QED
    BY <1>0, <1>2, <2>2 DEF Refresh, RefreshSpent, Begin
<1>3. ASSUME NEW c \in Clients, StoreKey(c)
      PROVE  req' \in [Clients -> Requests]
  <2>1. req[c].user \in Users
    BY <1>0, <1>3, RequestShapes DEF StoreKey, Storing
  <2>2. \A t \in Tokens : [pc |-> "indexing", user |-> req[c].user, token |-> t] \in Requests
    BY <2>1 DEF Requests, Indexing
  <2>. QED
    BY <1>0, <1>3, <2>2 DEF StoreKey, Go
<1>4. ASSUME NEW c \in Clients, ListSessions(c) \/ ClearSessions(c)
      PROVE  req' \in [Clients -> Requests]
  <2>1. req[c].user \in Users /\ req[c].then \in {"answer", "delete"}
    BY <1>0, <1>4, RequestShapes DEF ListSessions, ClearSessions, Listing, Clearing
  <2>2. Revoked(c) \in Requests
    BY <2>1, RevocationTypes DEF Requests
  <2>3. index[req[c].user] \subseteq Tokens /\ Open(req[c].user) \ index[req[c].user] \subseteq Tokens
    BY <1>0, <2>1 DEF RedisTypes, Open
  <2>4. [pc |-> "clearing", user |-> req[c].user, then |-> req[c].then,
         listed |-> index[req[c].user], missed |-> Open(req[c].user) \ index[req[c].user]] \in Requests
    BY <2>1, <2>3 DEF Requests, Clearing
  <2>. QED
    BY <1>0, <1>4, <2>2, <2>4 DEF ListSessions, ClearSessions, Go
<1>5. ASSUME NEW c \in Clients, LoadUser(c)
      PROVE  req' \in [Clients -> Requests]
  <2>1. req[c].user \in Users /\ req[c].token \in Tokens /\ req[c] \in Refreshing
    BY <1>0, <1>5, RequestShapes DEF LoadUser, Refreshing
  <2>2. /\ [req[c] EXCEPT !.pc = "rotating"] \in Requests
        /\ Revoke(req[c].user) \in Requests
    BY <2>1, RevocationTypes DEF Requests, Refreshing
  <2>. QED
    BY <1>0, <1>5, <2>2 DEF LoadUser, Go
<1>6. ASSUME NEW c \in Clients, StoreIndex(c) \/ DeleteUser(c) \/ Abandon(c)
      PROVE  req' \in [Clients -> Requests]
  BY <1>0, <1>6 DEF StoreIndex, DeleteUser, Abandon, Finish
<1>7. CASE AccountWrites \/ Expiry \/ UNCHANGED vars
  BY <1>0, <1>7 DEF AccountWrites, Expiry, UpdateStatus, DeleteOther, ExpireToken, ExpireKey,
                    ExpireIndex, vars
<1>8. ASSUME NEW c \in Clients,
             Rotate(c) \/ \E t \in Tokens : RefreshExpired(c, t) \/ Logout(c, t)
      PROVE  req' \in [Clients -> Requests]
  BY <1>8, DeletingSteps, DeletionTypes
<1>9. ASSUME NEW c \in Clients, DeleteIndex(c)
      PROVE  req' \in [Clients -> Requests]
  <2>1. req[c].user \in Users /\ req[c].from \in Tokens \cup {Null}
    BY <1>0, <1>9, RequestShapes DEF DeleteIndex, Unlisting
  <2>2. [pc |-> "storing", user |-> req[c].user, from |-> req[c].from] \in Requests
    BY <2>1 DEF Requests, Storing
  <2>. QED
    BY <1>0, <1>9, <2>2 DEF DeleteIndex, Go, Finish
<1>. QED
  BY <1>1, <1>2, <1>3, <1>4, <1>5, <1>6, <1>7, <1>8, <1>9 DEF Next, SessionRequest, SessionHandler

LEMMA RedisTypeOK ==
  ASSUME TypeOK, ForItsUser, [Next]_vars
  PROVE  RedisTypes' /\ PastTypes'
<1>0. RedisTypes /\ PastTypes /\ req \in [Clients -> Requests]
  BY TypeParts
<1>1. ASSUME NEW c \in Clients,
             \/ \E u \in Users :
                  \/ Login(c, u) \/ UpdatePassword(c, u) \/ SignOutAllDevices(c, u)
                  \/ DeleteAccount(c, u)
             \/ \E t \in Tokens : RefreshSpent(c, t)
             \/ LoadUser(c) \/ Abandon(c)
      PROVE  RedisTypes' /\ PastTypes'
  BY <1>0, <1>1 DEF Login, UpdatePassword, SignOutAllDevices, DeleteAccount, RefreshSpent, LoadUser,
                    Abandon, redis, histories, RedisTypes, PastTypes
<1>2. ASSUME NEW c \in Clients, NEW t \in Tokens, Refresh(c, t)
      PROVE  RedisTypes' /\ PastTypes'
  BY <1>0, <1>2 DEF Refresh, redis, RedisTypes, PastTypes
<1>3. ASSUME NEW c \in Clients, StoreKey(c)
      PROVE  RedisTypes' /\ PastTypes'
  <2>1. req[c].user \in Users /\ req[c].from \in Tokens \cup {Null}
    BY <1>0, <1>3, RequestShapes DEF StoreKey, Storing
  <2>2. \A t \in Tokens : (IF req[c].from = Null THEN t ELSE origin[req[c].from]) \in Tokens
    BY <1>0, <2>1 DEF PastTypes
  <2>. QED
    BY <1>0, <1>3, <2>1, <2>2 DEF StoreKey, RedisTypes, PastTypes
<1>4. ASSUME NEW c \in Clients, StoreIndex(c)
      PROVE  RedisTypes' /\ PastTypes'
  <2>1. req[c].user \in Users /\ req[c].token \in Tokens
    BY <1>0, <1>4, RequestShapes DEF StoreIndex, Indexing
  <2>. QED
    BY <1>0, <1>4, <2>1 DEF StoreIndex, histories, RedisTypes, PastTypes
<1>5. ASSUME NEW c \in Clients, ListSessions(c)
      PROVE  RedisTypes' /\ PastTypes'
  <2>1. \A u : Open(u) \subseteq Tokens
    BY DEF Open
  <2>. QED
    BY <1>0, <1>5, <2>1 DEF ListSessions, redis, RedisTypes, PastTypes
<1>6. ASSUME NEW c \in Clients, ClearSessions(c)
      PROVE  RedisTypes' /\ PastTypes'
  <2>1. req[c].user \in Users /\ req[c].missed \subseteq Tokens
    BY <1>0, <1>6, RequestShapes DEF ClearSessions, Clearing
  <2>2. {t \in index[req[c].user] \ req[c].listed : key[t] # Null} \subseteq Tokens
    BY <1>0, <2>1 DEF RedisTypes
  <2>. QED
    BY <1>0, <1>6, <2>1, <2>2 DEF ClearSessions, RedisTypes, PastTypes
<1>7. ASSUME NEW c \in Clients, NEW t \in Tokens, NEW from \in Tokens \cup {Null},
             signed[t] \in Users, Deletes(c, t, from)
      PROVE  RedisTypes' /\ PastTypes'
  BY <1>0, <1>7, DeletionTypes DEF Deletes, histories, RedisTypes, PastTypes
<1>8. ASSUME NEW c \in Clients, DeleteIndex(c)
      PROVE  RedisTypes' /\ PastTypes'
  <2>1. req[c].user \in Users
    BY <1>0, <1>8, RequestShapes DEF DeleteIndex, Unlisting
  <2>. QED
    BY <1>0, <1>8, <2>1 DEF DeleteIndex, histories, RedisTypes, PastTypes
<1>9. ASSUME NEW u \in Users,
             (\E status \in {"ACTIVE", "INACTIVE"} : UpdateStatus(u, status)) \/ DeleteOther(u)
      PROVE  RedisTypes' /\ PastTypes'
  BY <1>0, <1>9 DEF UpdateStatus, DeleteOther, redis, histories, RedisTypes, PastTypes, Accounts, Closed
<1>10. ASSUME NEW c \in Clients, DeleteUser(c)
       PROVE  RedisTypes' /\ PastTypes'
  BY <1>0, <1>10 DEF DeleteUser, redis, histories, RedisTypes, PastTypes, Accounts, Closed
<1>11. CASE UNCHANGED vars
  BY <1>0, <1>11 DEF vars, redis, histories, RedisTypes, PastTypes
<1>12. ASSUME NEW c \in Clients,
              Rotate(c) \/ \E t \in Tokens : RefreshExpired(c, t) \/ Logout(c, t)
       PROVE  RedisTypes' /\ PastTypes'
  BY <1>7, <1>12, DeletingSteps
<1>13. CASE Expiry
  BY <1>0, <1>13 DEF Expiry, ExpireToken, ExpireKey, ExpireIndex, redis, histories, RedisTypes,
                     PastTypes
<1>. QED
  BY <1>1, <1>2, <1>3, <1>4, <1>5, <1>6, <1>8, <1>9, <1>10, <1>11, <1>12, <1>13
     DEF Next, SessionRequest, SessionHandler, AccountWrites

-----------------------------------------------------------------------------
(* Steps of requests.                                                      *)

Acts(c) == SessionRequest(c) \/ SessionHandler(c) \/ Abandon(c)

LEMMA OthersStay ==
  ASSUME TypeOK, NEW c \in Clients, Acts(c)
  PROVE  \A d \in Clients \ {c} : req'[d] = req[d]
<1>0. req \in [Clients -> Requests]
  BY DEF TypeOK
<1>1. ASSUME SessionRequest(c)
      PROVE  \E w : req' = [req EXCEPT ![c] = w]
  BY <1>1 DEF SessionRequest, Login, UpdatePassword, SignOutAllDevices, DeleteAccount, Refresh,
              RefreshExpired, RefreshSpent, Logout, DeleteToken, Go, Begin
<1>2. ASSUME SessionHandler(c) \/ Abandon(c)
      PROVE  \A d \in Clients \ {c} : req'[d] = req[d]
  BY <1>0, <1>2 DEF SessionHandler, Abandon, StoreKey, StoreIndex, ListSessions, ClearSessions,
                    LoadUser, Rotate, DeleteToken, DeleteIndex, DeleteUser, Go, Finish
<1>. QED
  BY <1>0, <1>1, <1>2 DEF Acts

LEMMA RevokedShape == \A c \in Clients : Revoked(c).pc \in {"idle", "deleting"}
BY DEF Revoked, Idle

(* How a request has got to where it is.                                   *)
LEMMA OwnSteps ==
  ASSUME TypeOK, ForItsUser, NEW c \in Clients, Acts(c)
  PROVE  \/ req'[c].pc \in {"idle", "listing", "deleting"}
         \/ \E u \in Users : req'[c].pc = "storing" /\ req'[c].user = u /\ req'[c].from = Null
         \/ \E t \in Tokens : /\ Refresh(c, t) /\ req'[c].pc = "loading"
                              /\ req'[c].user = signed[t] /\ req'[c].token = t
         \/ /\ LoadUser(c) /\ req[c].pc = "loading" /\ req'[c].pc = "rotating"
            /\ req'[c].user = req[c].user /\ req'[c].token = req[c].token
         \/ /\ Rotate(c) /\ req'[c].pc = "unlisting"
            /\ req'[c].user = req[c].user
            /\ req'[c].token = req[c].token /\ req'[c].from = req[c].token
         \/ \E t \in Tokens : /\ Deletes(c, t, Null) /\ req'[c].pc = "unlisting"
                              /\ req'[c].user = signed[t]
                              /\ req'[c].token = t /\ req'[c].from = Null
         \/ /\ DeleteIndex(c) /\ req'[c].pc = "storing"
            /\ req'[c].user = req[c].user /\ req'[c].from = req[c].from
         \/ /\ StoreKey(c) /\ req'[c].pc = "indexing"
         \/ /\ ListSessions(c) /\ req'[c].pc = "clearing"
            /\ req'[c].missed = Open(req[c].user) \ index[req[c].user]
<1>0. req \in [Clients -> Requests]
  BY DEF TypeOK
<1>1. ASSUME NEW u \in Users, Login(c, u)
      PROVE  req'[c].pc = "storing" /\ req'[c].user = u /\ req'[c].from = Null
  BY <1>0, <1>1 DEF Login, Begin
<1>2. ASSUME \/ \E u \in Users :
                  UpdatePassword(c, u) \/ SignOutAllDevices(c, u) \/ DeleteAccount(c, u)
             \/ \E t \in Tokens : RefreshSpent(c, t)
      PROVE  req'[c].pc = "listing"
  BY <1>0, <1>2 DEF UpdatePassword, SignOutAllDevices, DeleteAccount, RefreshSpent, Begin, Revoke
<1>3. ASSUME NEW t \in Tokens, Refresh(c, t)
      PROVE  req'[c].pc = "loading" /\ req'[c].user = signed[t] /\ req'[c].token = t
  BY <1>0, <1>3 DEF Refresh, Begin
<1>4. ASSUME LoadUser(c)
      PROVE  \/ req'[c].pc = "listing"
             \/ /\ req[c].pc = "loading" /\ req'[c].pc = "rotating"
                /\ req'[c].user = req[c].user /\ req'[c].token = req[c].token
  <2>1. CASE Go(c, Revoke(req[c].user))
    BY <1>0, <2>1 DEF Go, Revoke
  <2>2. CASE req' = [req EXCEPT ![c].pc = "rotating"]
    <3>1. req[c] \in Refreshing
      BY <1>0, <1>4, RequestShapes DEF LoadUser
    <3>2. req'[c] = [req[c] EXCEPT !.pc = "rotating"]
      BY <1>0, <2>2
    <3>. QED
      BY <1>4, <3>1, <3>2 DEF LoadUser, Refreshing
  <2>. QED
    BY <1>4, <2>1, <2>2 DEF LoadUser
<1>5. ASSUME Rotate(c)
      PROVE  /\ req'[c].pc = "unlisting" /\ req'[c].user = req[c].user
             /\ req'[c].token = req[c].token /\ req'[c].from = req[c].token
  <2>1. /\ req[c].token \in Tokens /\ signed[req[c].token] \in Users
        /\ signed[req[c].token] = req[c].user /\ Deletes(c, req[c].token, req[c].token)
    BY <1>5, DeletingSteps
  <2>2. req'[c] = [pc |-> "unlisting", user |-> signed[req[c].token], token |-> req[c].token,
                   from |-> req[c].token]
    BY <2>1, DeletionTypes
  <2>. QED
    BY <2>1, <2>2
<1>9. ASSUME NEW t \in Tokens, RefreshExpired(c, t) \/ Logout(c, t)
      PROVE  /\ Deletes(c, t, Null) /\ req'[c].pc = "unlisting" /\ req'[c].user = signed[t]
             /\ req'[c].token = t /\ req'[c].from = Null
  <2>1. signed[t] \in Users /\ Deletes(c, t, Null)
    BY <1>9, DeletingSteps
  <2>2. req'[c] = [pc |-> "unlisting", user |-> signed[t], token |-> t, from |-> Null]
    BY <2>1, DeletionTypes
  <2>. QED
    BY <2>1, <2>2
<1>10. ASSUME DeleteIndex(c)
       PROVE  \/ req'[c].pc = "idle"
              \/ /\ req'[c].pc = "storing"
                 /\ req'[c].user = req[c].user /\ req'[c].from = req[c].from
  BY <1>0, <1>10 DEF DeleteIndex, Go, Finish, Idle
<1>6. ASSUME StoreKey(c)
      PROVE  req'[c].pc = "indexing"
  BY <1>0, <1>6 DEF StoreKey, Go
<1>7. ASSUME ListSessions(c)
      PROVE  \/ req'[c].pc \in {"idle", "deleting"}
             \/ /\ req'[c].pc = "clearing"
                /\ req'[c].missed = Open(req[c].user) \ index[req[c].user]
  BY <1>0, <1>7, RevokedShape DEF ListSessions, Go
<1>8. ASSUME ClearSessions(c) \/ StoreIndex(c) \/ DeleteUser(c) \/ Abandon(c)
      PROVE  req'[c].pc \in {"idle", "deleting"}
  BY <1>0, <1>8, RevokedShape DEF ClearSessions, StoreIndex, DeleteUser, Abandon, Go, Finish, Idle
<1>. QED
  BY <1>1, <1>2, <1>3, <1>4, <1>5, <1>6, <1>7, <1>8, <1>9, <1>10
     DEF Acts, SessionRequest, SessionHandler

(* Steps that are no request's leave the requests as they are.             *)
LEMMA ApartStay ==
  ASSUME AccountWrites \/ Expiry \/ UNCHANGED vars
  PROVE  /\ UNCHANGED <<req, signed, origin, doubled, adrift, over>>
         /\ \/ UNCHANGED redis
            \/ \E t \in Tokens : key' = [key EXCEPT ![t] = Null] /\ index' = index
            \/ \E u \in Users : /\ index' = [index EXCEPT ![u] = {}] /\ key' = key
                               /\ \A t \in index[u] : key[t] = Null
BY DEF AccountWrites, Expiry, UpdateStatus, DeleteOther, ExpireToken, ExpireKey, ExpireIndex, redis,
       vars, histories

LEMMA ApartKeys ==
  ASSUME TypeOK, AccountWrites \/ Expiry \/ UNCHANGED vars, NEW t \in Tokens
  PROVE  key'[t] \in {key[t], Null}
<1>1. key \in [Tokens -> Users \cup {Null}]
  BY DEF TypeOK
<1>. QED
  BY <1>1, ApartStay DEF redis

(* A token is signed once, and the key of one signed is deleted, never set.*)
LEMMA KeySteps ==
  ASSUME TypeOK, [Next]_vars, NEW t \in Tokens, signed[t] # Null
  PROVE  /\ signed'[t] = signed[t]
         /\ key'[t] \in {key[t], Null}
         /\ adrift \subseteq adrift'
<1>0. RedisTypes
  BY TypeParts
<1>1. ASSUME NEW c \in Clients, StoreKey(c)
      PROVE  signed'[t] = signed[t] /\ key'[t] = key[t] /\ adrift' = adrift
  BY <1>0, <1>1 DEF StoreKey, RedisTypes
<1>2. ASSUME NEW c \in Clients,
             \/ Rotate(c) \/ ClearSessions(c)
             \/ \E n \in Tokens : RefreshExpired(c, n) \/ Logout(c, n)
      PROVE  signed' = signed /\ key'[t] \in {key[t], Null} /\ adrift \subseteq adrift'
  BY <1>0, <1>2 DEF Rotate, RefreshExpired, Logout, ClearSessions, DeleteToken, histories, RedisTypes
<1>3. ASSUME NEW c \in Clients,
             \/ \E u \in Users :
                  \/ Login(c, u) \/ UpdatePassword(c, u) \/ SignOutAllDevices(c, u)
                  \/ DeleteAccount(c, u)
             \/ \E n \in Tokens : Refresh(c, n) \/ RefreshSpent(c, n)
             \/ StoreIndex(c) \/ ListSessions(c) \/ LoadUser(c) \/ DeleteIndex(c)
             \/ DeleteUser(c) \/ Abandon(c)
      PROVE  signed' = signed /\ key' = key /\ adrift' = adrift
  BY <1>3 DEF Login, UpdatePassword, SignOutAllDevices, DeleteAccount, Refresh, RefreshSpent,
       StoreIndex, ListSessions, LoadUser, DeleteIndex, DeleteUser, Abandon, redis, histories
<1>4. CASE AccountWrites \/ Expiry \/ UNCHANGED vars
  BY <1>4, ApartStay, ApartKeys
<1>. QED
  BY <1>1, <1>2, <1>3, <1>4 DEF Next, SessionRequest, SessionHandler

LEMMA ForItsUserStep ==
  ASSUME TypeOK, ForItsUser, [Next]_vars
  PROVE  ForItsUser'
<1>0. RedisTypes /\ req \in [Clients -> Requests] /\ Null \notin Users
  BY TypeParts, SessionsAssumption
<1>1. ASSUME NEW d \in Clients, req'[d] = req[d],
             req[d].pc \in {"loading", "rotating", "unlisting", "indexing"}
      PROVE  signed'[req'[d].token] = req'[d].user
  <2>1. req[d].token \in Tokens /\ req[d].user \in Users /\ signed[req[d].token] = req[d].user
    BY <1>0, <1>1, RequestShapes DEF ForItsUser, Refreshing, Unlisting, Indexing
  <2>. QED
    BY <1>0, <1>1, <2>1, KeySteps
<1>2. ASSUME NEW c \in Clients, Acts(c),
             req'[c].pc \in {"loading", "rotating", "unlisting", "indexing"}
      PROVE  signed'[req'[c].token] = req'[c].user
  <2>1. ASSUME NEW t \in Tokens, Refresh(c, t),
               req'[c].user = signed[t], req'[c].token = t
        PROVE  signed'[req'[c].token] = req'[c].user
    BY <2>1 DEF Refresh
  <2>2. ASSUME LoadUser(c), req[c].pc = "loading",
               req'[c].user = req[c].user, req'[c].token = req[c].token
        PROVE  signed'[req'[c].token] = req'[c].user
    BY <2>2 DEF LoadUser, ForItsUser
  <2>3. ASSUME StoreKey(c)
        PROVE  signed'[req'[c].token] = req'[c].user
    BY <1>0, <2>3 DEF StoreKey, Go, RedisTypes
  <2>4. ASSUME Rotate(c), req'[c].user = req[c].user, req'[c].token = req[c].token
        PROVE  signed'[req'[c].token] = req'[c].user
    BY <2>4, DeletingSteps DEF Deletes
  <2>5. ASSUME NEW t \in Tokens, Deletes(c, t, Null),
               req'[c].user = signed[t], req'[c].token = t
        PROVE  signed'[req'[c].token] = req'[c].user
    BY <2>5 DEF Deletes
  <2>. QED
    BY <1>2, <2>1, <2>2, <2>3, <2>4, <2>5, OwnSteps
<1>3. ASSUME NEW c \in Clients, Acts(c)
      PROVE  ForItsUser'
  BY <1>1, <1>2, <1>3, OthersStay DEF ForItsUser
<1>4. CASE AccountWrites \/ Expiry \/ UNCHANGED vars
  BY <1>4, ApartStay DEF ForItsUser
<1>. QED
  BY <1>3, <1>4 DEF Next, Acts

LEMMA InitSessions == Init => TypeOK /\ ForItsUser
BY SessionsAssumption DEF Init, TypeOK, ForItsUser, Accounts, Requests, Idle

LEMMA SessionsStep ==
  ASSUME TypeOK, ForItsUser, [Next]_vars
  PROVE  TypeOK' /\ ForItsUser'
<1>1. req' \in [Clients -> Requests] /\ RedisTypes' /\ PastTypes' /\ ForItsUser'
  BY RequestTypes, RedisTypeOK, ForItsUserStep
<1>. QED
  BY <1>1 DEF TypeOK, RedisTypes, PastTypes

(* Rows, keys, requests and histories keep their types.                    *)
THEOREM SessionsTypeCorrect == Spec => [](TypeOK /\ ForItsUser)
<1>1. TypeOK /\ ForItsUser /\ [Next]_vars => TypeOK' /\ ForItsUser'
  BY SessionsStep
<1>. QED
  BY InitSessions, <1>1, PTL DEF Spec

-----------------------------------------------------------------------------
(* Revocations.  A session a device holds is in the index of its user, or  *)
(* adrift; so what a revocation did not find listed when it began, and     *)
(* what was open when it ended, is closed or adrift.                       *)

Shut(t) == signed[t] # Null /\ (key[t] = Null \/ t \in adrift)

KeyOfUser == \A t \in Tokens : key[t] \in {Null, signed[t]}
AllListed == \A t \in Tokens : key[t] # Null /\ Held(t) => t \in index[key[t]] \/ t \in adrift
MissedShut == \A c \in Clients : req[c].pc = "clearing" => \A t \in req[c].missed : Shut(t)
OverShut   == \A t \in over : Shut(t)

(* What is removed from the index has lost its key.                        *)
Unlisted  == \A c \in Clients : req[c].pc = "unlisting" => key[req[c].token] = Null

SignedOutInv == KeyOfUser /\ Unlisted /\ AllListed /\ MissedShut /\ OverShut

LEMMA ShutStays ==
  ASSUME TypeOK, [Next]_vars, NEW t \in Tokens, Shut(t)
  PROVE  Shut(t)'
BY KeySteps DEF Shut

(* What is open without being listed is adrift.                            *)
LEMMA OpenUnlisted ==
  ASSUME TypeOK, AllListed, NEW u \in Users, NEW t \in Open(u) \ index[u]
  PROVE  t \in Tokens /\ Shut(t)
<1>1. t \in Tokens /\ key[t] = u /\ Held(t) /\ u # Null
  BY SessionsAssumption DEF Open
<1>. QED
  BY <1>1 DEF AllListed, Shut, Held

LEMMA KeyOfUserStep ==
  ASSUME TypeOK, KeyOfUser, [Next]_vars
  PROVE  KeyOfUser'
<1>0. RedisTypes /\ req \in [Clients -> Requests] /\ Null \notin Users
  BY TypeParts, SessionsAssumption
<1>1. ASSUME NEW t \in Tokens, signed[t] = Null
      PROVE  key'[t] \in {Null, signed'[t]}
  <2>1. key[t] = Null
    BY <1>1 DEF KeyOfUser
  <2>2. ASSUME NEW c \in Clients, StoreKey(c)
        PROVE  key'[t] \in {Null, signed'[t]}
    BY <1>0, <2>1, <2>2 DEF StoreKey, RedisTypes
  <2>3. ASSUME NEW c \in Clients, Acts(c), ~StoreKey(c)
        PROVE  key'[t] = Null
    BY <1>0, <2>1, <2>3 DEF Acts, SessionRequest, SessionHandler, Login, UpdatePassword,
       SignOutAllDevices, DeleteAccount, Refresh, RefreshSpent, StoreIndex, ListSessions,
       ClearSessions, LoadUser, Rotate, RefreshExpired, Logout, DeleteToken, DeleteIndex,
       DeleteUser, Abandon, redis, RedisTypes
  <2>4. CASE AccountWrites \/ Expiry \/ UNCHANGED vars
    BY <2>1, <2>4, ApartKeys
  <2>. QED
    BY <2>2, <2>3, <2>4 DEF Next, Acts
<1>2. ASSUME NEW t \in Tokens, signed[t] # Null
      PROVE  key'[t] \in {Null, signed'[t]}
  BY <1>2, KeySteps DEF KeyOfUser
<1>. QED
  BY <1>1, <1>2 DEF KeyOfUser

LEMMA UnlistedStep ==
  ASSUME TypeOK, ForItsUser, Unlisted, [Next]_vars
  PROVE  Unlisted'
<1>0. RedisTypes /\ req \in [Clients -> Requests] /\ Null \notin Users
  BY TypeParts, SessionsAssumption
<1>1. ASSUME NEW d \in Clients, req'[d] = req[d], req[d].pc = "unlisting"
      PROVE  key'[req[d].token] = Null
  <2>1. req[d].token \in Tokens /\ req[d].user \in Users
    BY <1>0, <1>1, RequestShapes DEF Unlisting
  <2>2. signed[req[d].token] # Null /\ key[req[d].token] = Null
    BY <1>0, <1>1, <2>1 DEF ForItsUser, Unlisted
  <2>. QED
    BY <2>1, <2>2, KeySteps
<1>2. ASSUME NEW c \in Clients, Acts(c), req'[c].pc = "unlisting"
      PROVE  key'[req'[c].token] = Null
  <2>1. PICK t \in Tokens, from \in Tokens \cup {Null} : DeleteToken(c, t, from) /\ req'[c].token = t
    BY <1>2, OwnSteps, DeletingSteps DEF Deletes
  <2>. QED
    BY <1>0, <2>1 DEF DeleteToken, RedisTypes
<1>3. ASSUME NEW c \in Clients, Acts(c)
      PROVE  Unlisted'
  BY <1>1, <1>2, <1>3, OthersStay DEF Unlisted
<1>4. CASE AccountWrites \/ Expiry \/ UNCHANGED vars
  BY <1>1, <1>4, ApartStay DEF Unlisted
<1>. QED
  BY <1>3, <1>4 DEF Next, Acts

(* A token comes to be held when its login or refresh is answered.         *)
LEMMA HeldSteps ==
  ASSUME TypeOK, [Next]_vars, NEW t \in Tokens, Held(t)'
  PROVE  Held(t) \/ \E c \in Clients : StoreIndex(c) /\ req[c].token = t
<1>0. RedisTypes /\ req \in [Clients -> Requests]
  BY TypeParts
<1>1. ASSUME NEW c \in Clients, Acts(c), req[c].pc = "indexing"
      PROVE  StoreIndex(c)
  BY <1>1 DEF Acts, SessionRequest, SessionHandler, Login, UpdatePassword, SignOutAllDevices,
     DeleteAccount, Refresh, RefreshExpired, RefreshSpent, Logout, ListSessions, ClearSessions,
     LoadUser, Rotate, StoreKey, DeleteIndex, DeleteUser, Abandon, Begin, Idle
<1>2. ASSUME NEW c \in Clients, Acts(c), ~(StoreIndex(c) /\ req[c].token = t)
      PROVE  Held(t)
  <2>1. ASSUME NEW d \in Clients, req[d].pc = "indexing", req[d].token = t
        PROVE  FALSE
    <3>1. d # c
      BY <1>1, <1>2, <2>1
    <3>2. req'[d] = req[d]
      BY <1>2, <3>1, OthersStay
    <3>. QED
      BY <2>1, <3>2 DEF Held
  <2>2. signed[t] # Null
    <3>1. CASE StoreKey(c)
      <4>1. PICK n \in Tokens : /\ signed' = [signed EXCEPT ![n] = req[c].user]
                               /\ req' = [req EXCEPT ![c] = [pc |-> "indexing", user |-> req[c].user,
                                                             token |-> n]]
        BY <3>1 DEF StoreKey, Go
      <4>2. n # t
        BY <1>0, <4>1 DEF Held
      <4>. QED
        BY <1>0, <4>1, <4>2 DEF Held, RedisTypes
    <3>2. CASE ~StoreKey(c)
      <4>1. signed' = signed
        BY <1>2, <3>2 DEF Acts, SessionRequest, SessionHandler, Login, UpdatePassword,
           SignOutAllDevices, DeleteAccount, Refresh, RefreshExpired, RefreshSpent, Logout,
           StoreIndex, ListSessions, ClearSessions, LoadUser, Rotate, DeleteIndex, DeleteUser, Abandon
      <4>. QED
        BY <4>1 DEF Held
    <3>. QED
      BY <3>1, <3>2
  <2>. QED
    BY <2>1, <2>2 DEF Held
<1>3. CASE AccountWrites \/ Expiry \/ UNCHANGED vars
  BY <1>3, ApartStay DEF Held
<1>. QED
  BY <1>2, <1>3 DEF Next, Acts

LEMMA ListedStep ==
  ASSUME TypeOK, ForItsUser, KeyOfUser, Unlisted, AllListed, [Next]_vars
  PROVE  AllListed'
<1>0. RedisTypes /\ RedisTypes' /\ req \in [Clients -> Requests] /\ Null \notin Users
  BY TypeParts, SessionsAssumption, RedisTypeOK
<1>1. ASSUME NEW t \in Tokens, key'[t] # Null, Held(t)', Held(t)
      PROVE  t \in index'[key'[t]] \/ t \in adrift'
  <2>1. signed[t] # Null
    BY <1>1 DEF Held
  <2>2. key'[t] = key[t] /\ adrift \subseteq adrift' /\ key[t] \in Users
    BY <1>0, <1>1, <2>1, KeySteps DEF RedisTypes
  <2>3. t \in index[key[t]] \/ t \in adrift
    BY <1>1, <2>2 DEF AllListed
  <2>4. ASSUME NEW c \in Clients, ClearSessions(c), t \in index[key[t]]
        PROVE  t \in index'[key[t]] \/ t \in adrift'
    <3>1. CASE key[t] = req[c].user
      <4>1. t \notin req[c].listed
        BY <1>1, <2>4 DEF ClearSessions
      <4>. QED
        BY <1>1, <2>2, <2>4, <3>1, <4>1 DEF ClearSessions
    <3>2. CASE key[t] # req[c].user
      BY <1>0, <2>2, <2>4, <3>2 DEF ClearSessions, RedisTypes
    <3>. QED
      BY <3>1, <3>2
  <2>5. ASSUME NEW c \in Clients, DeleteIndex(c), t \in index[key[t]]
        PROVE  t \in index'[key[t]]
    <3>1. req[c].token # t
      BY <1>1, <2>2, <2>5 DEF DeleteIndex, Unlisted
    <3>. QED
      BY <1>0, <2>2, <2>5, <3>1 DEF DeleteIndex, RedisTypes
  <2>6. ASSUME NEW c \in Clients, StoreIndex(c), t \in index[key[t]]
        PROVE  t \in index'[key[t]]
    BY <1>0, <2>2, <2>6 DEF StoreIndex, RedisTypes
  <2>7. ASSUME NEW c \in Clients, Acts(c), ~ClearSessions(c), ~StoreIndex(c), ~DeleteIndex(c)
        PROVE  index' = index
    BY <2>7 DEF Acts, SessionRequest, SessionHandler, Login, UpdatePassword, SignOutAllDevices,
       DeleteAccount, Refresh, RefreshExpired, RefreshSpent, Logout, StoreKey, ListSessions, LoadUser,
       Rotate, DeleteUser, Abandon, redis
  <2>8. ASSUME NEW c \in Clients, Acts(c), t \in index[key[t]]
        PROVE  t \in index'[key[t]] \/ t \in adrift'
    BY <2>4, <2>5, <2>6, <2>7, <2>8
  <2>9. ASSUME NEW u \in Users, index' = [index EXCEPT ![u] = {}],
               \A n \in index[u] : key[n] = Null, t \in index[key[t]]
        PROVE  t \in index'[key[t]]
    <3>1. u # key[t]
      BY <1>1, <2>2, <2>9
    <3>. QED
      BY <1>0, <2>2, <2>9, <3>1 DEF RedisTypes
  <2>10. CASE (AccountWrites \/ Expiry \/ UNCHANGED vars) /\ t \in index[key[t]]
    BY <2>2, <2>9, <2>10, ApartStay DEF redis
  <2>. QED
    BY <2>2, <2>3, <2>8, <2>10 DEF Next, Acts
<1>2. ASSUME NEW t \in Tokens, key'[t] # Null, NEW c \in Clients, StoreIndex(c), req[c].token = t
      PROVE  t \in index'[key'[t]]
  <2>1. signed[t] = req[c].user /\ req[c].user \in Users
    BY <1>0, <1>2, RequestShapes DEF StoreIndex, ForItsUser, Indexing
  <2>2. key'[t] = req[c].user
    BY <1>0, <1>2, <2>1 DEF StoreIndex, KeyOfUser
  <2>. QED
    BY <1>0, <1>2, <2>1, <2>2 DEF StoreIndex, RedisTypes
<1>. QED
  BY <1>1, <1>2, HeldSteps DEF AllListed

LEMMA SignedOutStep ==
  ASSUME TypeOK, ForItsUser, SignedOutInv, [Next]_vars
  PROVE  SignedOutInv'
<1>0. /\ RedisTypes /\ req \in [Clients -> Requests] /\ over \subseteq Tokens
      /\ KeyOfUser /\ Unlisted /\ AllListed /\ MissedShut /\ OverShut
  BY TypeParts DEF SignedOutInv, TypeOK
<1>1. KeyOfUser' /\ Unlisted' /\ AllListed'
  BY <1>0, KeyOfUserStep, UnlistedStep, ListedStep
<1>2. ASSUME NEW d \in Clients, req'[d].pc = "clearing", NEW t \in req'[d].missed
      PROVE  Shut(t)'
  <2>1. CASE req'[d] = req[d]
    <3>1. t \in Tokens /\ Shut(t)
      BY <1>0, <1>2, <2>1, RequestShapes DEF MissedShut, Clearing
    <3>. QED
      BY <3>1, ShutStays
  <2>2. ASSUME ListSessions(d), req'[d].missed = Open(req[d].user) \ index[req[d].user]
        PROVE  Shut(t)'
    <3>1. req[d].user \in Users
      BY <1>0, <2>2, RequestShapes DEF ListSessions, Listing
    <3>2. t \in Tokens /\ Shut(t)
      BY <1>0, <1>2, <2>2, <3>1, OpenUnlisted
    <3>. QED
      BY <3>2, ShutStays
  <2>3. ASSUME NEW c \in Clients, Acts(c)
        PROVE  req'[d] = req[d] \/ (/\ ListSessions(d)
                                   /\ req'[d].missed = Open(req[d].user) \ index[req[d].user])
    BY <1>2, <2>3, OthersStay, OwnSteps
  <2>4. CASE AccountWrites \/ Expiry \/ UNCHANGED vars
    BY <2>1, <2>4, ApartStay
  <2>. QED
    BY <2>1, <2>2, <2>3, <2>4 DEF Next, Acts
<1>3. ASSUME NEW t \in over'
      PROVE  Shut(t)'
  <2>1. ASSUME t \in over
        PROVE  Shut(t)'
    BY <1>0, <2>1, ShutStays DEF OverShut
  <2>2. ASSUME NEW c \in Clients, ListSessions(c), t \notin over
        PROVE  Shut(t)'
    <3>1. index[req[c].user] = {} /\ t \in Open(req[c].user)
      BY <1>3, <2>2 DEF ListSessions
    <3>2. req[c].user \in Users
      BY <1>0, <2>2, RequestShapes DEF ListSessions, Listing
    <3>3. t \in Tokens /\ Shut(t)
      BY <1>0, <3>1, <3>2, OpenUnlisted
    <3>. QED
      BY <3>3, ShutStays
  <2>3. ASSUME NEW c \in Clients, ClearSessions(c), t \notin over
        PROVE  Shut(t)'
    <3>1. t \in req[c].missed
      BY <1>3, <2>3 DEF ClearSessions
    <3>2. t \in Tokens /\ Shut(t)
      BY <1>0, <2>3, <3>1, RequestShapes DEF ClearSessions, MissedShut, Clearing
    <3>. QED
      BY <3>2, ShutStays
  <2>4. ASSUME NEW c \in Clients, Acts(c), ~ListSessions(c), ~ClearSessions(c)
        PROVE  over' = over
    BY <2>4 DEF Acts, SessionRequest, SessionHandler, Login, UpdatePassword, SignOutAllDevices,
       DeleteAccount, Refresh, RefreshExpired, RefreshSpent, Logout, StoreKey, StoreIndex, LoadUser,
       Rotate, DeleteIndex, DeleteUser, Abandon, histories
  <2>5. CASE AccountWrites \/ Expiry \/ UNCHANGED vars
    BY <1>3, <2>1, <2>5, ApartStay
  <2>. QED
    BY <1>3, <2>1, <2>2, <2>3, <2>4, <2>5 DEF Next, Acts
<1>. QED
  BY <1>1, <1>2, <1>3 DEF SignedOutInv, MissedShut, OverShut

(* A session that was open when a sign-out of all devices, a password      *)
(* change, a reset or a reuse alarm began is closed once that has ended,   *)
(* unless an earlier revocation, overlapping its login, dropped it from    *)
(* the index.                                                              *)
THEOREM RevokedIsClosed == Spec => []SignedOutIsClosed
<1>1. Init => SignedOutInv
  BY DEF Init, SignedOutInv, KeyOfUser, Unlisted, AllListed, MissedShut, OverShut, Idle
<1>2. TypeOK /\ ForItsUser /\ SignedOutInv /\ [Next]_vars => SignedOutInv'
  BY SignedOutStep
<1>3. SignedOutInv => SignedOutIsClosed
  BY DEF SignedOutInv, OverShut, Shut, SignedOutIsClosed
<1>. QED
  BY SessionsTypeCorrect, <1>1, <1>2, <1>3, PTL DEF Spec

-----------------------------------------------------------------------------
(* Rotations.  What may make a session grow from a login is a key of a     *)
(* token that descends from it, or a refresh with such a token that is     *)
(* not answered; where no two refreshes held one token there is one such   *)
(* session, or one such refresh, with the key of the token it presents.    *)

Presents(c)   == req[c].pc \in {"loading", "rotating"}
Replaces(c)   == req[c].pc \in {"unlisting", "storing"} /\ req[c].from # Null
Descends(c, o) == \/ Presents(c) /\ origin[req[c].token] = o
                  \/ Replaces(c) /\ origin[req[c].from] = o
Opened(t, o)  == key[t] # Null /\ origin[t] = o

(* Tokens not signed yet descend from none, and none descends from them.   *)
Unsigned == \A t \in Tokens : signed[t] = Null => key[t] = Null
FromSigned ==
  /\ \A t \in Tokens : signed[t] # Null => signed[origin[t]] # Null
  /\ \A c \in Clients : Presents(c) => signed[req[c].token] # Null
  /\ \A c \in Clients : Replaces(c) => signed[req[c].from] # Null

Lone(o) ==
  /\ \A s, t \in Tokens : Opened(s, o) /\ Opened(t, o) => s = t
  /\ \A c, d \in Clients : Descends(c, o) /\ Descends(d, o) => c = d
  /\ \A c \in Clients, t \in Tokens :
       Descends(c, o) /\ Opened(t, o) => Presents(c) /\ req[c].token = t

LoneInv == Unsigned /\ FromSigned /\ \A o \in Tokens \ doubled : Lone(o)

(* Steps that open no session and begin no refresh.                        *)
LEMMA LoneApart ==
  ASSUME LoneInv, UNCHANGED <<signed, origin, doubled>>,
         \A t \in Tokens : key'[t] # Null => key[t] # Null,
         \A c \in Clients : Presents(c)' => Presents(c) /\ req'[c].token = req[c].token,
         \A c \in Clients : Replaces(c)' => Replaces(c) /\ req'[c].from = req[c].from
  PROVE  LoneInv'
<1>1. \A t, o \in Tokens : Opened(t, o)' => Opened(t, o)
  BY DEF Opened
<1>2. \A c \in Clients, o \in Tokens : Descends(c, o)' => Descends(c, o)
  BY DEF Descends
<1>3. ASSUME NEW c \in Clients, NEW t \in Tokens, NEW o \in Tokens, Lone(o),
             Descends(c, o)', Opened(t, o)'
      PROVE  Presents(c)' /\ req'[c].token = t
  <2>1. Presents(c) /\ req[c].token = t
    BY <1>1, <1>2, <1>3 DEF Lone
  <2>2. ~Replaces(c)
    BY <2>1 DEF Presents, Replaces
  <2>. QED
    BY <1>3, <2>1, <2>2 DEF Descends
<1>4. \A o \in Tokens \ doubled' : Lone(o)'
  BY <1>1, <1>2, <1>3 DEF LoneInv, Lone
<1>5. Unsigned' /\ FromSigned'
  BY DEF LoneInv, Unsigned, FromSigned
<1>. QED
  BY <1>4, <1>5 DEF LoneInv

(* A refresh begins: the token it presents is the open one.                *)
LEMMA LoneRefresh ==
  ASSUME TypeOK, LoneInv, NEW c \in Clients, NEW n \in Tokens, Refresh(c, n)
  PROVE  LoneInv'
<1>0. req \in [Clients -> Requests] /\ origin \in [Tokens -> Tokens]
  BY DEF TypeOK
<1>1. /\ key[n] # Null /\ signed[n] # Null
      /\ UNCHANGED <<key, signed, origin>>
      /\ \A d \in Clients \ {c} : req'[d] = req[d]
      /\ req'[c].pc = "loading" /\ req'[c].token = n
      /\ doubled \subseteq doubled'
  BY <1>0 DEF Refresh, Begin, redis, Held
<1>2. Unsigned' /\ FromSigned'
  BY <1>1 DEF LoneInv, Unsigned, FromSigned, Presents, Replaces
<1>3. \A t, o \in Tokens : Opened(t, o)' <=> Opened(t, o)
  BY <1>1 DEF Opened
<1>4. \A d \in Clients \ {c}, o \in Tokens : Descends(d, o)' <=> Descends(d, o)
  BY <1>1 DEF Descends, Presents, Replaces
<1>5. \A o \in Tokens : Descends(c, o)' => o = origin[n]
  BY <1>1 DEF Descends, Presents, Replaces
<1>6. ASSUME NEW o \in Tokens \ doubled'
      PROVE  Lone(o)'
  <2>1. Lone(o)
    BY <1>1 DEF LoneInv
  <2>2. ASSUME o = origin[n], NEW d \in Clients \ {c}
        PROVE  ~Descends(d, o)
    <3>1. Opened(n, o)
      BY <1>1, <2>2 DEF Opened
    <3>2. Descends(d, o) => Presents(d) /\ req[d].token = n
      BY <2>1, <3>1 DEF Lone
    <3>3. ~(Presents(d) /\ req[d].token = n)
      BY <1>6, <2>2 DEF Refresh, Presents
    <3>. QED
      BY <3>2, <3>3
  <2>3. \A a, b \in Clients : Descends(a, o)' /\ Descends(b, o)' => a = b
    BY <1>4, <1>5, <2>1, <2>2 DEF Lone
  <2>4. \A s, t \in Tokens : Opened(s, o)' /\ Opened(t, o)' => s = t
    BY <1>3, <2>1 DEF Lone
  <2>5. ASSUME NEW d \in Clients, NEW t \in Tokens, Descends(d, o)', Opened(t, o)'
        PROVE  Presents(d)' /\ req'[d].token = t
    <3>1. CASE d # c
      BY <1>1, <1>3, <1>4, <2>1, <2>5, <3>1 DEF Lone, Presents
    <3>2. CASE d = c
      <4>1. Opened(n, o) /\ Opened(t, o)
        BY <1>1, <1>3, <1>5, <2>5, <3>2 DEF Opened
      <4>2. t = n
        BY <2>1, <4>1 DEF Lone
      <4>. QED
        BY <1>1, <3>2, <4>2 DEF Presents
    <3>. QED
      BY <3>1, <3>2
  <2>. QED
    BY <2>3, <2>4, <2>5 DEF Lone
<1>. QED
  BY <1>2, <1>6 DEF LoneInv

(* A rotation deletes the key it presented before it stores the new one.   *)
LEMMA LoneRotate ==
  ASSUME TypeOK, ForItsUser, LoneInv, NEW c \in Clients, Rotate(c)
  PROVE  LoneInv'
<1>. DEFINE n == req[c].token
<1>0. /\ req \in [Clients -> Requests] /\ key \in [Tokens -> Users \cup {Null}]
      /\ n \in Tokens /\ req[c].pc = "rotating" /\ Deletes(c, n, n) /\ signed[n] \in Users
  BY DeletingSteps DEF TypeOK
<1>1. /\ UNCHANGED <<signed, origin, doubled>>
      /\ key' = [key EXCEPT ![n] = Null]
      /\ \A d \in Clients \ {c} : req'[d] = req[d]
      /\ req'[c].pc = "unlisting" /\ req'[c].from = n
      /\ Presents(c)
  <2>1. /\ req'[c] = [pc |-> "unlisting", user |-> signed[n], token |-> n, from |-> n]
        /\ \A d \in Clients \ {c} : req'[d] = req[d]
    BY <1>0, DeletionTypes
  <2>. QED
    BY <1>0, <2>1 DEF Deletes, DeleteToken, Presents, histories
<1>2. Unsigned' /\ FromSigned'
  BY <1>0, <1>1 DEF LoneInv, Unsigned, FromSigned, Presents, Replaces
<1>3. /\ \A t, o \in Tokens : Opened(t, o)' => Opened(t, o)
      /\ key'[n] = Null
  BY <1>0, <1>1 DEF Opened
<1>4. \A d \in Clients, o \in Tokens : Descends(d, o)' => Descends(d, o)
  BY <1>1 DEF Descends, Presents, Replaces
<1>5. ASSUME NEW o \in Tokens \ doubled'
      PROVE  Lone(o)'
  <2>1. Lone(o)
    BY <1>1 DEF LoneInv
  <2>2. ASSUME NEW d \in Clients, NEW t \in Tokens, Descends(d, o)', Opened(t, o)'
        PROVE  Presents(d)' /\ req'[d].token = t
    <3>1. Presents(d) /\ req[d].token = t
      BY <1>3, <1>4, <2>1, <2>2 DEF Lone
    <3>2. d # c
      BY <1>3, <2>2, <3>1 DEF Opened
    <3>. QED
      BY <1>1, <3>1, <3>2 DEF Presents
  <2>. QED
    BY <1>3, <1>4, <2>1, <2>2 DEF Lone
<1>. QED
  BY <1>2, <1>5 DEF LoneInv

(* A new session: of a new login, or in the place of the one replaced.     *)
LEMMA LoneStore ==
  ASSUME TypeOK, LoneInv, NEW c \in Clients, StoreKey(c)
  PROVE  LoneInv'
<1>0. /\ req \in [Clients -> Requests] /\ key \in [Tokens -> Users \cup {Null}]
      /\ signed \in [Tokens -> Users \cup {Null}] /\ origin \in [Tokens -> Tokens]
      /\ req[c].user \in Users /\ req[c].user # Null /\ req[c].from \in Tokens \cup {Null}
  BY RequestShapes, SessionsAssumption DEF TypeOK, StoreKey, Storing
<1>1. PICK n \in Tokens :
        /\ signed[n] = Null
        /\ signed' = [signed EXCEPT ![n] = req[c].user]
        /\ key' = [key EXCEPT ![n] = req[c].user]
        /\ origin' = [origin EXCEPT ![n] = IF req[c].from = Null THEN n ELSE origin[req[c].from]]
        /\ req' = [req EXCEPT ![c] = [pc |-> "indexing", user |-> req[c].user, token |-> n]]
        /\ doubled' = doubled
  BY DEF StoreKey, Go
<1>2. /\ \A d \in Clients \ {c} : req'[d] = req[d]
      /\ \A t \in Tokens \ {n} : signed'[t] = signed[t] /\ key'[t] = key[t] /\ origin'[t] = origin[t]
      /\ signed'[n] # Null
      /\ ~Presents(c)' /\ ~Replaces(c)'
      /\ req[c].pc = "storing"
  BY <1>0, <1>1 DEF StoreKey, Presents, Replaces
<1>3. \A d \in Clients \ {c} : /\ Presents(d)' => Presents(d) /\ req[d].token \in Tokens \ {n}
                               /\ Replaces(d)' => Replaces(d) /\ req[d].from \in Tokens \ {n}
  BY <1>0, <1>1, <1>2, RequestShapes DEF Presents, Replaces, LoneInv, FromSigned, Refreshing,
     Unlisting, Storing
<1>4. \A t \in Tokens \ {n} : key[t] # Null => origin[t] # n
  BY <1>0, <1>1 DEF LoneInv, Unsigned, FromSigned
<1>5. \A d \in Clients, o \in Tokens : Descends(d, o)' => Descends(d, o) /\ d # c /\ o # n
  <2>1. ASSUME NEW d \in Clients, NEW o \in Tokens, Descends(d, o)'
        PROVE  Descends(d, o) /\ d # c /\ o # n
    <3>1. d # c
      BY <1>2, <2>1 DEF Descends
    <3>2. CASE Presents(d)' /\ origin'[req'[d].token] = o
      <4>1. Presents(d) /\ req'[d] = req[d] /\ origin[req[d].token] = o
        BY <1>2, <1>3, <3>1, <3>2
      <4>2. signed[o] # Null
        BY <1>3, <3>1, <3>2, <4>1 DEF LoneInv, FromSigned
      <4>. QED
        BY <1>1, <3>1, <4>1, <4>2 DEF Descends
    <3>3. CASE Replaces(d)' /\ origin'[req'[d].from] = o
      <4>1. Replaces(d) /\ req'[d] = req[d] /\ origin[req[d].from] = o
        BY <1>2, <1>3, <3>1, <3>3
      <4>2. signed[o] # Null
        BY <1>3, <3>1, <3>3, <4>1 DEF LoneInv, FromSigned
      <4>. QED
        BY <1>1, <3>1, <4>1, <4>2 DEF Descends
    <3>. QED
      BY <2>1, <3>2, <3>3 DEF Descends
  <2>. QED
    BY <2>1
<1>6. Unsigned' /\ FromSigned'
  <2>1. \A t \in Tokens : signed'[t] = Null => key'[t] = Null
    BY <1>2 DEF LoneInv, Unsigned
  <2>2. \A t \in Tokens : signed[t] # Null => signed'[t] # Null
    BY <1>2
  <2>3. signed'[origin'[n]] # Null
    BY <1>0, <1>1, <1>2, <2>2 DEF LoneInv, FromSigned, Replaces
  <2>4. \A t \in Tokens \ {n} : signed'[t] # Null => signed'[origin'[t]] # Null
    BY <1>0, <1>2, <2>2 DEF LoneInv, FromSigned
  <2>5. \A d \in Clients : /\ Presents(d)' => signed'[req'[d].token] # Null
                           /\ Replaces(d)' => signed'[req'[d].from] # Null
    BY <1>2, <1>3, <2>2 DEF LoneInv, FromSigned
  <2>. QED
    BY <2>1, <2>3, <2>4, <2>5 DEF Unsigned, FromSigned
<1>7. ASSUME NEW o \in Tokens \ doubled'
      PROVE  Lone(o)'
  <2>1. Lone(o)
    BY <1>1, <1>7 DEF LoneInv
  <2>2. \A t \in Tokens \ {n} : Opened(t, o)' => Opened(t, o)
    BY <1>2 DEF Opened
  <2>3. CASE origin'[n] # o
    <3>1. \A t \in Tokens : Opened(t, o)' => Opened(t, o) /\ t # n
      BY <2>2, <2>3 DEF Opened
    <3>2. ASSUME NEW d \in Clients, NEW t \in Tokens, Descends(d, o)', Opened(t, o)'
          PROVE  Presents(d)' /\ req'[d].token = t
      BY <1>2, <1>5, <2>1, <3>1, <3>2 DEF Lone, Presents
    <3>. QED
      BY <1>5, <2>1, <3>1, <3>2 DEF Lone
  <2>4. CASE origin'[n] = o /\ req[c].from = Null
    <3>1. o = n
      BY <1>0, <1>1, <2>4
    <3>2. \A t \in Tokens \ {n} : ~Opened(t, o)'
      BY <1>2, <1>4, <3>1 DEF Opened
    <3>3. \A d \in Clients : ~Descends(d, o)'
      BY <1>5, <3>1
    <3>. QED
      BY <3>2, <3>3 DEF Lone
  <2>5. CASE origin'[n] = o /\ req[c].from # Null
    <3>1. origin[req[c].from] = o
      BY <1>0, <1>1, <2>5
    <3>2. Descends(c, o) /\ ~Presents(c)
      BY <1>2, <2>5, <3>1 DEF Descends, Replaces, Presents
    <3>3. \A t \in Tokens \ {n} : ~Opened(t, o)'
      BY <2>1, <2>2, <3>2 DEF Lone
    <3>4. \A d \in Clients : ~Descends(d, o)'
      BY <1>5, <2>1, <3>2 DEF Lone
    <3>. QED
      BY <3>3, <3>4 DEF Lone
  <2>. QED
    BY <2>3, <2>4, <2>5
<1>. QED
  BY <1>6, <1>7 DEF LoneInv

LEMMA LoneStep ==
  ASSUME TypeOK, ForItsUser, LoneInv, [Next]_vars
  PROVE  LoneInv'
<1>0. RedisTypes /\ req \in [Clients -> Requests] /\ Null \notin Users
  BY TypeParts, SessionsAssumption
<1>1. ASSUME NEW c \in Clients, Acts(c), ~StoreKey(c), ~Rotate(c),
             \A t \in Tokens : ~Refresh(c, t)
      PROVE  LoneInv'
  <2>1. UNCHANGED <<signed, origin, doubled>>
    BY <1>1 DEF Acts, SessionRequest, SessionHandler, Login, UpdatePassword, SignOutAllDevices,
       DeleteAccount, RefreshExpired, RefreshSpent, Logout, StoreIndex, ListSessions, ClearSessions,
       LoadUser, DeleteIndex, DeleteUser, Abandon, histories
  <2>2. \A t \in Tokens : key'[t] # Null => key[t] # Null
    <3>1. CASE ClearSessions(c)
      BY <3>1 DEF ClearSessions
    <3>2. ASSUME NEW n \in Tokens, RefreshExpired(c, n) \/ Logout(c, n)
          PROVE  \A t \in Tokens : key'[t] # Null => key[t] # Null
      BY <1>0, <3>2 DEF RefreshExpired, Logout, DeleteToken, RedisTypes
    <3>3. CASE ~ClearSessions(c) /\ \A n \in Tokens : ~RefreshExpired(c, n) /\ ~Logout(c, n)
      BY <1>1, <3>3 DEF Acts, SessionRequest, SessionHandler, Login, UpdatePassword,
         SignOutAllDevices, DeleteAccount, RefreshSpent, StoreIndex, ListSessions, LoadUser,
         DeleteIndex, DeleteUser, Abandon, redis
    <3>. QED
      BY <3>1, <3>2, <3>3
  <2>3. \A d \in Clients : /\ Presents(d)' => Presents(d) /\ req'[d].token = req[d].token
                           /\ Replaces(d)' => Replaces(d) /\ req'[d].from = req[d].from
    <3>1. \A d \in Clients \ {c} : req'[d] = req[d]
      BY <1>1, OthersStay
    <3>2. /\ Presents(c)' => Presents(c) /\ req'[c].token = req[c].token
          /\ Replaces(c)' => Replaces(c) /\ req'[c].from = req[c].from
      BY <1>1, OwnSteps DEF Presents, Replaces, DeleteIndex
    <3>. QED
      BY <3>1, <3>2 DEF Presents, Replaces
  <2>. QED
    BY <2>1, <2>2, <2>3, LoneApart
<1>2. CASE AccountWrites \/ Expiry \/ UNCHANGED vars
  <2>1. UNCHANGED <<req, signed, origin, doubled>>
    BY <1>2, ApartStay
  <2>2. \A t \in Tokens : key'[t] # Null => key[t] # Null
    BY <1>2, ApartKeys
  <2>. QED
    BY <2>1, <2>2, LoneApart DEF Presents, Replaces
<1>. QED
  BY <1>1, <1>2, LoneRefresh, LoneRotate, LoneStore DEF Next, Acts

(* However refreshes, retries and crashes interleave, one login never has  *)
(* two open sessions, unless two refreshes held the same token at once.    *)
THEOREM LoginsHaveOneSession == Spec => []OneSessionPerLogin
<1>1. Init => LoneInv
  BY DEF Init, LoneInv, Unsigned, FromSigned, Lone, Opened, Descends, Presents, Replaces, Idle
<1>2. TypeOK /\ ForItsUser /\ LoneInv /\ [Next]_vars => LoneInv'
  BY LoneStep
<1>3. TypeOK /\ LoneInv => OneSessionPerLogin
  BY DEF TypeOK, LoneInv, Lone, Opened, OneSessionPerLogin
<1>. QED
  BY SessionsTypeCorrect, <1>1, <1>2, <1>3, PTL DEF Spec

-----------------------------------------------------------------------------
(* Type correctness.                                                       *)

RowTypes  == /\ person \in [People -> Links!PersonRows \cup {Links!Absent, Links!Gone}]
             /\ invite \in [Invites -> Links!InviteRows \cup {Links!Absent, Links!Gone}]
             /\ reset  \in [Resets -> Links!ResetKeys \cup {Links!Absent, Links!Gone}]
LinkPastTypes == /\ made    \in [Invites -> SUBSET People]
             /\ freed   \in SUBSET People
             /\ updates \in [Resets -> Nat]
             /\ shared  \in SUBSET Resets

LEMMA LinkTypeParts ==
  Links!TypeOK <=> RowTypes /\ LinkPastTypes /\ linkReq \in [Desks -> Links!Requests]
BY DEF Links!TypeOK, RowTypes, LinkPastTypes

(* What a request is, by where it has got to.                              *)
LEMMA LinkRequestShapes ==
  ASSUME linkReq \in [Desks -> Links!Requests], NEW d \in Desks
  PROVE  /\ linkReq[d].pc \in {"searching", "creating"} => linkReq[d] \in Links!Inviting
         /\ linkReq[d].pc \in {"replacing", "cancelling", "accepting", "marking"}
             => linkReq[d] \in Links!OnInvite
         /\ linkReq[d].pc \in {"hashing", "updating"} => linkReq[d] \in Links!Resetting
         /\ linkReq[d] # Links!Idle => linkReq[d].pc # "idle"
BY DEF Links!Requests, Links!Idle, Links!Inviting, Links!OnInvite, Links!Resetting

LEMMA PresentShapes ==
  ASSUME RowTypes
  PROVE  /\ \A p \in People  : Links!Present(person[p]) => person[p] \in Links!PersonRows
         /\ \A i \in Invites : Links!Present(invite[i]) => invite[i] \in Links!InviteRows
         /\ \A r \in Resets  : Links!Present(reset[r])  => reset[r] \in Links!ResetKeys
BY DEF RowTypes, Links!Present, Links!Absent, Links!Gone

(* The steps of requests keep the requests' types.                         *)
LEMMA LinkRequestTypes ==
  ASSUME Links!TypeOK, [Links!Next]_(Links!vars)
  PROVE  linkReq' \in [Desks -> Links!Requests]
<1>0. RowTypes /\ linkReq \in [Desks -> Links!Requests]
  BY LinkTypeParts
<1>1. ASSUME NEW d \in Desks, Links!Requested(d)
      PROVE  linkReq' \in [Desks -> Links!Requests]
  <2>1. \E w \in Links!Inviting \cup Links!OnInvite \cup Links!Resetting :
            linkReq' = [linkReq EXCEPT ![d] = w]
    <3>1. ASSUME NEW e \in Emails, Links!CheckEmail(d, e)
          PROVE  \E w \in Links!Inviting : linkReq' = [linkReq EXCEPT ![d] = w]
      <4>1. [pc |-> "searching", email |-> e] \in Links!Inviting
        BY DEF Links!Inviting
      <4>. QED
        BY <3>1, <4>1 DEF Links!CheckEmail, Links!Begin
    <3>2. ASSUME NEW i \in Invites, Links!CheckCancel(d, i)
          PROVE  \E w \in Links!OnInvite : linkReq' = [linkReq EXCEPT ![d] = w]
      <4>1. [pc |-> "cancelling", email |-> invite[i].email, invite |-> i] \in Links!OnInvite
        BY <1>0, <3>2, PresentShapes DEF Links!CheckCancel, Links!Pending, Links!OnInvite,
                                         Links!InviteRows
      <4>. QED
        BY <3>2, <4>1 DEF Links!CheckCancel, Links!Begin
    <3>3. ASSUME NEW i \in Invites, Links!CheckInvite(d, i)
          PROVE  \E w \in Links!OnInvite : linkReq' = [linkReq EXCEPT ![d] = w]
      <4>1. [pc |-> "accepting", email |-> invite[i].email, invite |-> i] \in Links!OnInvite
        BY <1>0, <3>3, PresentShapes DEF Links!CheckInvite, Links!Pending, Links!OnInvite,
                                         Links!InviteRows
      <4>. QED
        BY <3>3, <4>1 DEF Links!CheckInvite, Links!Begin
    <3>4. ASSUME NEW r \in Resets, Links!ResetPassword(d, r)
          PROVE  \E w \in Links!Resetting : linkReq' = [linkReq EXCEPT ![d] = w]
      <4>1. [pc |-> "hashing", person |-> reset[r].person, reset |-> r] \in Links!Resetting
        BY <1>0, <3>4, PresentShapes DEF Links!ResetPassword, Links!Resetting, Links!ResetKeys
      <4>. QED
        BY <3>4, <4>1 DEF Links!ResetPassword, Links!Begin
    <3>. QED
      BY <1>1, <3>1, <3>2, <3>3, <3>4 DEF Links!Requested
  <2>. QED
    BY <1>0, <2>1 DEF Links!Requests
<1>2. ASSUME NEW d \in Desks, Links!Handler(d) \/ Links!Abandon(d)
      PROVE  linkReq' \in [Desks -> Links!Requests]
  <2>1. ASSUME Links!SearchPending(d) \/ Links!DeleteExpired(d)
        PROVE  linkReq' \in [Desks -> Links!Requests]
    <3>1. linkReq[d].email \in Emails
      BY <1>0, <2>1, LinkRequestShapes DEF Links!SearchPending, Links!DeleteExpired,
                                           Links!Inviting, Links!OnInvite
    <3>2. [pc |-> "creating", email |-> linkReq[d].email] \in Links!Requests
      BY <3>1 DEF Links!Requests, Links!Inviting
    <3>3. \A i \in Invites :
              [pc |-> "replacing", email |-> linkReq[d].email, invite |-> i] \in Links!Requests
      BY <3>1 DEF Links!Requests, Links!OnInvite
    <3>4. Links!Idle \in Links!Requests
      BY DEF Links!Requests
    <3>. QED
      BY <1>0, <2>1, <3>2, <3>3, <3>4 DEF Links!SearchPending, Links!DeleteExpired, Links!Go,
                                          Links!Finish
  <2>2. ASSUME Links!CreateInvited(d)
        PROVE  linkReq' \in [Desks -> Links!Requests]
    <3>1. [linkReq[d] EXCEPT !.pc = "marking"] \in Links!Requests
      BY <1>0, <2>2, LinkRequestShapes DEF Links!CreateInvited, Links!OnInvite, Links!Requests
    <3>. QED
      BY <1>0, <2>2, <3>1 DEF Links!CreateInvited, Links!Finish, Links!Requests
  <2>3. ASSUME Links!DeleteReset(d)
        PROVE  linkReq' \in [Desks -> Links!Requests]
    <3>1. [linkReq[d] EXCEPT !.pc = "updating"] \in Links!Requests
      BY <1>0, <2>3, LinkRequestShapes DEF Links!DeleteReset, Links!Resetting, Links!Requests
    <3>. QED
      BY <1>0, <2>3, <3>1 DEF Links!DeleteReset
  <2>4. ASSUME Links!CreateInvite(d) \/ Links!CancelInvite(d) \/ Links!MarkUsed(d)
            \/ Links!UpdatePassword(d) \/ Links!Abandon(d)
        PROVE  linkReq' \in [Desks -> Links!Requests]
    BY <1>0, <2>4 DEF Links!CreateInvite, Links!CancelInvite, Links!MarkUsed,
                      Links!UpdatePassword, Links!Abandon, Links!Finish, Links!Requests
  <2>. QED
    BY <1>2, <2>1, <2>2, <2>3, <2>4 DEF Links!Handler
<1>3. CASE Links!AtOnce \/ UNCHANGED Links!vars
  BY <1>0, <1>3 DEF Links!AtOnce, Links!Register, Links!ExpireInvite, Links!ExpireReset,
                    Links!UpdateEmail, Links!DeletePerson,
                    Links!ForgotPassword, Links!vars
<1>. QED
  BY <1>1, <1>2, <1>3 DEF Links!Next

(* The rows and the histories keep theirs.                                 *)
LEMMA LinkRowsTypeOK ==
  ASSUME Links!TypeOK, [Links!Next]_(Links!vars)
  PROVE  RowTypes' /\ LinkPastTypes'
<1>0. RowTypes /\ LinkPastTypes /\ linkReq \in [Desks -> Links!Requests]
  BY LinkTypeParts
<1>1. ASSUME NEW d \in Desks, Links!Requested(d) \/ Links!Abandon(d) \/ Links!SearchPending(d)
      PROVE  RowTypes' /\ LinkPastTypes'
  BY <1>0, <1>1 DEF Links!Requested, Links!CheckEmail, Links!CheckCancel, Links!CheckInvite,
                    Links!ResetPassword, Links!Abandon,
                    Links!SearchPending, Links!rows, Links!histories, RowTypes, LinkPastTypes
<1>2. ASSUME NEW d \in Desks, Links!DeleteExpired(d) \/ Links!CancelInvite(d)
      PROVE  RowTypes' /\ LinkPastTypes'
  BY <1>0, <1>2 DEF Links!DeleteExpired, Links!CancelInvite, Links!histories, RowTypes,
                    LinkPastTypes
<1>3. ASSUME NEW d \in Desks, Links!CreateInvite(d)
      PROVE  RowTypes' /\ LinkPastTypes'
  <2>1. [phase |-> "present", email |-> linkReq[d].email, used |-> FALSE, expired |-> FALSE] \in Links!InviteRows
    BY <1>0, <1>3, LinkRequestShapes DEF Links!CreateInvite, Links!Inviting, Links!InviteRows
  <2>. QED
    BY <1>0, <1>3, <2>1 DEF Links!CreateInvite, Links!histories, RowTypes, LinkPastTypes
<1>4. ASSUME NEW d \in Desks, Links!CreateInvited(d)
      PROVE  RowTypes' /\ LinkPastTypes'
  <2>1. linkReq[d].invite \in Invites
            /\ [phase |-> "present", email |-> linkReq[d].email] \in Links!PersonRows
    BY <1>0, <1>4, LinkRequestShapes DEF Links!CreateInvited, Links!OnInvite, Links!PersonRows
  <2>. QED
    BY <1>0, <1>4, <2>1 DEF Links!CreateInvited, RowTypes, LinkPastTypes
<1>5. ASSUME NEW d \in Desks, Links!MarkUsed(d)
      PROVE  RowTypes' /\ LinkPastTypes'
  <2>1. \A i \in Invites : Links!Present(invite[i])
            => [invite[i] EXCEPT !.used = TRUE] \in Links!InviteRows
    BY <1>0, PresentShapes DEF Links!InviteRows
  <2>. QED
    BY <1>0, <1>5, <2>1 DEF Links!MarkUsed, Links!histories, RowTypes, LinkPastTypes
<1>6. ASSUME NEW d \in Desks, Links!DeleteReset(d) \/ Links!UpdatePassword(d)
      PROVE  RowTypes' /\ LinkPastTypes'
  <2>1. linkReq[d].reset \in Resets
    BY <1>0, <1>6, LinkRequestShapes DEF Links!DeleteReset, Links!UpdatePassword, Links!Resetting
  <2>2. \A r \in Resets : updates[r] + 1 \in Nat
    BY <1>0 DEF LinkPastTypes
  <2>. QED
    BY <1>0, <1>6, <2>1, <2>2 DEF Links!DeleteReset, Links!UpdatePassword, Links!rows,
                                  Links!histories, RowTypes, LinkPastTypes
<1>7. ASSUME NEW i \in Invites, Links!ExpireInvite(i)
      PROVE  RowTypes' /\ LinkPastTypes'
  <2>1. [invite[i] EXCEPT !.expired = TRUE] \in Links!InviteRows
    BY <1>0, <1>7, PresentShapes DEF Links!ExpireInvite, Links!InviteRows
  <2>. QED
    BY <1>0, <1>7, <2>1 DEF Links!ExpireInvite, Links!histories, RowTypes, LinkPastTypes
<1>8. ASSUME NEW p \in People, NEW e \in Emails, Links!UpdateEmail(p, e)
      PROVE  RowTypes' /\ LinkPastTypes'
  <2>1. [person[p] EXCEPT !.email = e] \in Links!PersonRows
    BY <1>0, <1>8, PresentShapes DEF Links!UpdateEmail, Links!PersonRows
  <2>. QED
    BY <1>0, <1>8, <2>1 DEF Links!UpdateEmail, RowTypes, LinkPastTypes
<1>9. ASSUME NEW e \in Emails, Links!Register(e)
      PROVE  RowTypes' /\ LinkPastTypes'
  <2>1. [phase |-> "present", email |-> e] \in Links!PersonRows
    BY DEF Links!PersonRows
  <2>. QED
    BY <1>0, <1>9, <2>1 DEF Links!Register, Links!histories, RowTypes, LinkPastTypes
<1>10. ASSUME NEW p \in People, NEW r \in Resets, Links!ForgotPassword(p, r)
       PROVE  RowTypes' /\ LinkPastTypes'
  <2>1. [phase |-> "present", person |-> p] \in Links!ResetKeys
    BY DEF Links!ResetKeys
  <2>. QED
    BY <1>0, <1>10, <2>1 DEF Links!ForgotPassword, Links!histories, RowTypes, LinkPastTypes
<1>11. ASSUME NEW p \in People, Links!DeletePerson(p)
       PROVE  RowTypes' /\ LinkPastTypes'
  BY <1>0, <1>11 DEF Links!DeletePerson, RowTypes, LinkPastTypes
<1>12. ASSUME NEW r \in Resets, Links!ExpireReset(r)
       PROVE  RowTypes' /\ LinkPastTypes'
  BY <1>0, <1>12 DEF Links!ExpireReset, Links!histories, RowTypes, LinkPastTypes
<1>13. CASE UNCHANGED Links!vars
  BY <1>0, <1>13 DEF Links!vars, Links!rows, Links!histories, RowTypes, LinkPastTypes
<1>. QED
  BY <1>1, <1>2, <1>3, <1>4, <1>5, <1>6, <1>7, <1>8, <1>9, <1>10, <1>11, <1>12, <1>13
     DEF Links!Next, Links!Handler, Links!AtOnce

LEMMA LinksInitTypeOK == Links!Init => Links!TypeOK
BY DEF Links!Init, Links!TypeOK, Links!Requests

LEMMA LinksStep ==
  ASSUME Links!TypeOK, [Links!Next]_(Links!vars)
  PROVE  Links!TypeOK'
<1>1. linkReq' \in [Desks -> Links!Requests] /\ RowTypes' /\ LinkPastTypes'
  BY LinkRequestTypes, LinkRowsTypeOK
<1>. QED
  BY <1>1 DEF Links!TypeOK, RowTypes, LinkPastTypes

(* Rows, keys, requests and histories keep their types.                    *)
THEOREM LinksTypeCorrect == Links!Spec => []Links!TypeOK
<1>1. Links!TypeOK /\ [Links!Next]_(Links!vars) => Links!TypeOK'
  BY LinksStep
<1>. QED
  BY LinksInitTypeOK, <1>1, PTL DEF Links!Spec

-----------------------------------------------------------------------------
(* Reset links.  A link that has been spent is gone, so that no request    *)
(* takes it up again; and a link two requests never held at once is in the *)
(* hands of one at most, and of none once the password has been changed.   *)

Holds(d, r) == linkReq[d].pc \in {"hashing", "updating"} /\ linkReq[d].reset = r

SpentIsGone ==
  \A r \in Resets :
    /\ updates[r] > 0 => reset[r] = Links!Gone
    /\ \A d \in Desks : linkReq[d].pc = "updating" /\ linkReq[d].reset = r => reset[r] = Links!Gone

OneHolder ==
  \A r \in Resets \ shared :
    /\ \A d, o \in Desks : Holds(d, r) /\ Holds(o, r) => d = o
    /\ updates[r] <= 1
    /\ updates[r] = 1 => \A d \in Desks : ~Holds(d, r)

ResetInv == SpentIsGone /\ OneHolder

LEMMA InitReset == Links!Init => ResetInv
BY DEF Links!Init, ResetInv, SpentIsGone, OneHolder, Holds, Links!Idle

(* A link is taken up while its key is there.                              *)
LEMMA TakenUp ==
  ASSUME Links!TypeOK, ResetInv, NEW d \in Desks, NEW r \in Resets, Links!ResetPassword(d, r)
  PROVE  ResetInv'
<1>1. reset[r] # Links!Gone /\ reset' = reset /\ updates' = updates
  BY DEF Links!ResetPassword, Links!Present, Links!Gone, Links!rows
<1>2. /\ linkReq[d] = Links!Idle
      /\ linkReq' = [linkReq EXCEPT ![d] = [pc |-> "hashing", person |-> reset[r].person, reset |-> r]]
      /\ linkReq \in [Desks -> Links!Requests]
  BY DEF Links!ResetPassword, Links!Begin, Links!TypeOK
<1>3. /\ \A o \in Desks \ {d} : linkReq'[o] = linkReq[o]
      /\ linkReq'[d].pc = "hashing" /\ linkReq'[d].reset = r
  BY <1>2
<1>4. SpentIsGone'
  BY <1>1, <1>3 DEF ResetInv, SpentIsGone
<1>5. ASSUME NEW q \in Resets \ shared'
      PROVE  /\ \A a, b \in Desks : Holds(a, q)' /\ Holds(b, q)' => a = b
             /\ updates'[q] <= 1
             /\ updates'[q] = 1 => \A a \in Desks : ~Holds(a, q)'
  <2>1. q \notin shared
    BY <1>5 DEF Links!ResetPassword
  <2>2. CASE q # r
    BY <1>1, <1>3, <2>1, <2>2 DEF ResetInv, OneHolder, Holds
  <2>3. CASE q = r
    <3>1. \A o \in Desks \ {d} : ~Holds(o, r)
      <4>1. \A o \in Desks : ~(linkReq[o].pc = "hashing" /\ linkReq[o].reset = r)
        BY <1>5, <2>3 DEF Links!ResetPassword
      <4>. QED
        BY <1>1, <4>1 DEF ResetInv, SpentIsGone, Holds
    <3>2. updates[r] # 1 /\ updates[r] <= 1
      BY <1>1, <2>1, <2>3 DEF ResetInv, SpentIsGone, OneHolder
    <3>. QED
      BY <1>1, <1>3, <2>3, <3>1, <3>2 DEF Holds
  <2>. QED
    BY <2>2, <2>3
<1>. QED
  BY <1>4, <1>5 DEF ResetInv, OneHolder

(* The link is deleted before the password is changed.                     *)
LEMMA Spent ==
  ASSUME Links!TypeOK, ResetInv, NEW d \in Desks, Links!DeleteReset(d)
  PROVE  ResetInv'
<1>. DEFINE r == linkReq[d].reset
<1>1. /\ r \in Resets
      /\ linkReq[d].pc = "hashing"
      /\ linkReq' = [linkReq EXCEPT ![d] = [linkReq[d] EXCEPT !.pc = "updating"]]
      /\ reset' = [reset EXCEPT ![r] = Links!Gone]
      /\ updates' = updates /\ shared' = shared
  BY LinkRequestShapes DEF Links!TypeOK, Links!DeleteReset, Links!histories, Links!Resetting
<1>2. /\ \A o \in Desks \ {d} : linkReq'[o] = linkReq[o]
      /\ linkReq'[d].pc = "updating" /\ linkReq'[d].reset = r
  BY <1>1, LinkRequestShapes DEF Links!TypeOK, Links!Resetting
<1>3. \A q \in Resets : reset[q] = Links!Gone \/ q = r => reset'[q] = Links!Gone
  BY <1>1 DEF Links!TypeOK
<1>4. SpentIsGone'
  BY <1>1, <1>2, <1>3 DEF ResetInv, SpentIsGone
<1>5. \A o \in Desks, q \in Resets : Holds(o, q)' <=> Holds(o, q)
  BY <1>1, <1>2 DEF Holds
<1>. QED
  BY <1>1, <1>4, <1>5 DEF ResetInv, OneHolder

(* The only holder of a link is done with it once it has used it.          *)
LEMMA Used ==
  ASSUME Links!TypeOK, ResetInv, NEW d \in Desks, Links!UpdatePassword(d)
  PROVE  ResetInv'
<1>. DEFINE r == linkReq[d].reset
<1>1. /\ r \in Resets
      /\ linkReq[d].pc = "updating"
      /\ linkReq' = [linkReq EXCEPT ![d] = Links!Idle]
      /\ reset' = reset /\ shared' = shared
      /\ updates' = updates \/ updates' = [updates EXCEPT ![r] = @ + 1]
  BY LinkRequestShapes DEF Links!TypeOK, Links!UpdatePassword, Links!rows, Links!Finish,
                           Links!Resetting
<1>2. /\ updates \in [Resets -> Nat]
      /\ \A q \in Resets \ {r} : updates'[q] = updates[q]
      /\ updates'[r] = updates[r] \/ updates'[r] = updates[r] + 1
  BY <1>1 DEF Links!TypeOK
<1>3. \A o \in Desks, q \in Resets : Holds(o, q)' => Holds(o, q) /\ o # d
  BY <1>1 DEF Holds, Links!Idle, Links!TypeOK
<1>4. Holds(d, r) /\ reset[r] = Links!Gone
  BY <1>1 DEF ResetInv, SpentIsGone, Holds
<1>5. SpentIsGone'
  BY <1>1, <1>2, <1>4 DEF ResetInv, SpentIsGone, Links!TypeOK, Links!Idle
<1>6. ASSUME NEW q \in Resets \ shared
      PROVE  /\ \A a, b \in Desks : Holds(a, q)' /\ Holds(b, q)' => a = b
             /\ updates'[q] <= 1
             /\ updates'[q] = 1 => \A a \in Desks : ~Holds(a, q)'
  <2>1. CASE q # r
    BY <1>2, <1>3, <2>1 DEF ResetInv, OneHolder
  <2>2. CASE q = r
    <3>1. updates[r] <= 1 /\ updates[r] # 1
      BY <1>4, <1>6, <2>2 DEF ResetInv, OneHolder
    <3>2. \A a \in Desks : ~Holds(a, q)'
      BY <1>3, <1>4, <1>6, <2>2 DEF ResetInv, OneHolder
    <3>. QED
      BY <1>1, <1>2, <2>2, <3>1, <3>2
  <2>. QED
    BY <2>1, <2>2
<1>. QED
  BY <1>1, <1>5, <1>6 DEF ResetInv, OneHolder

(* Any other step takes up no link and leaves those spent as they are.     *)
LEMMA ResetsApart ==
  ASSUME Links!TypeOK, ResetInv, updates' = updates, shared' = shared,
         \A r \in Resets : reset[r] = Links!Gone => reset'[r] = Links!Gone,
         \A d \in Desks : linkReq'[d].pc \in {"hashing", "updating"} => linkReq'[d] = linkReq[d]
  PROVE  ResetInv'
<1>1. SpentIsGone'
  BY DEF ResetInv, SpentIsGone
<1>2. \A d \in Desks, r \in Resets : Holds(d, r)' => Holds(d, r)
  BY DEF Holds
<1>. QED
  BY <1>1, <1>2 DEF ResetInv, OneHolder

LEMMA ResetStep ==
  ASSUME Links!TypeOK, ResetInv, [Links!Next]_(Links!vars)
  PROVE  ResetInv'
<1>0. linkReq \in [Desks -> Links!Requests]
          /\ reset \in [Resets -> Links!ResetKeys \cup {Links!Absent, Links!Gone}]
  BY DEF Links!TypeOK
<1>1. ASSUME NEW d \in Desks, Links!Requested(d)
      PROVE  ResetInv'
  <2>1. ASSUME NEW r \in Resets, Links!ResetPassword(d, r)
        PROVE  ResetInv'
    BY <2>1, TakenUp
  <2>2. ASSUME \/ \E e \in Emails : Links!CheckEmail(d, e)
               \/ \E i \in Invites : Links!CheckCancel(d, i) \/ Links!CheckInvite(d, i)
        PROVE  ResetInv'
    <3>1. reset' = reset /\ updates' = updates /\ shared' = shared
      BY <2>2 DEF Links!CheckEmail, Links!CheckCancel, Links!CheckInvite, Links!rows,
                  Links!histories
    <3>2. \A o \in Desks : linkReq'[o].pc \in {"hashing", "updating"} => linkReq'[o] = linkReq[o]
      BY <1>0, <2>2 DEF Links!CheckEmail, Links!CheckCancel, Links!CheckInvite, Links!Begin
    <3>. QED
      BY <3>1, <3>2, ResetsApart
  <2>. QED
    BY <1>1, <2>1, <2>2 DEF Links!Requested
<1>2. ASSUME NEW d \in Desks,
             \/ Links!SearchPending(d) \/ Links!DeleteExpired(d) \/ Links!CreateInvite(d)
                 \/ Links!CancelInvite(d)
             \/ Links!CreateInvited(d) \/ Links!MarkUsed(d) \/ Links!Abandon(d)
      PROVE  ResetInv'
  <2>1. reset' = reset /\ updates' = updates /\ shared' = shared
    BY <1>2 DEF Links!SearchPending, Links!DeleteExpired, Links!CreateInvite, Links!CancelInvite,
                Links!CreateInvited, Links!MarkUsed,
                Links!Abandon, Links!rows, Links!histories
  <2>2. \A o \in Desks : linkReq'[o].pc \in {"hashing", "updating"} => linkReq'[o] = linkReq[o]
    <3>1. CASE Links!SearchPending(d) \/ Links!DeleteExpired(d)
      BY <1>0, <3>1 DEF Links!SearchPending, Links!DeleteExpired, Links!Go, Links!Finish, Links!Idle
    <3>2. CASE Links!CreateInvite(d) \/ Links!CancelInvite(d) \/ Links!MarkUsed(d) \/ Links!Abandon(d)
      BY <1>0, <3>2 DEF Links!CreateInvite, Links!CancelInvite, Links!MarkUsed, Links!Abandon,
                        Links!Finish, Links!Idle
    <3>3. CASE Links!CreateInvited(d)
      <4>1. [linkReq[d] EXCEPT !.pc = "marking"].pc = "marking"
        BY <1>0, <3>3, LinkRequestShapes DEF Links!CreateInvited, Links!OnInvite
      <4>2. CASE linkReq' = [linkReq EXCEPT ![d].pc = "marking"]
        BY <1>0, <4>1, <4>2
      <4>3. CASE Links!Finish(d)
        BY <1>0, <4>3 DEF Links!Finish, Links!Idle
      <4>. QED
        BY <3>3, <4>2, <4>3 DEF Links!CreateInvited
    <3>. QED
      BY <1>2, <3>1, <3>2, <3>3
  <2>. QED
    BY <2>1, <2>2, ResetsApart
<1>3. ASSUME NEW d \in Desks, Links!DeleteReset(d) \/ Links!UpdatePassword(d)
      PROVE  ResetInv'
  BY <1>3, Spent, Used
<1>4. CASE Links!AtOnce
  <2>1. linkReq' = linkReq /\ updates' = updates /\ shared' = shared
    BY <1>4 DEF Links!AtOnce, Links!Register, Links!ExpireInvite, Links!ExpireReset,
                Links!UpdateEmail, Links!DeletePerson,
                Links!ForgotPassword, Links!histories
  <2>2. \A r \in Resets : reset[r] = Links!Gone => reset'[r] = Links!Gone
    BY <1>0, <1>4 DEF Links!AtOnce, Links!Register, Links!ExpireInvite, Links!ExpireReset,
                      Links!UpdateEmail, Links!DeletePerson,
                      Links!ForgotPassword, Links!Absent, Links!Gone
  <2>. QED
    BY <2>1, <2>2, ResetsApart
<1>5. CASE UNCHANGED Links!vars
  BY <1>5, ResetsApart DEF Links!vars, Links!rows, Links!histories
<1>. QED
  BY <1>1, <1>2, <1>3, <1>4, <1>5 DEF Links!Next, Links!Handler

LEMMA ResetSuffices == Links!TypeOK /\ ResetInv => Links!ResetWorksOnce
BY DEF Links!TypeOK, ResetInv, OneHolder, Links!ResetWorksOnce

(* A reset link changes the password once, unless two requests held it at  *)
(* the same time; a failed update does not bring it back.                  *)
THEOREM ResetsWorkOnce == Links!Spec => []Links!ResetWorksOnce
<1>1. Links!TypeOK /\ ResetInv /\ [Links!Next]_(Links!vars) => ResetInv'
  BY ResetStep
<1>. QED
  BY LinksTypeCorrect, InitReset, <1>1, ResetSuffices, PTL DEF Links!Spec

-----------------------------------------------------------------------------
(* Invites.  Who knows an invite knows one address: the row itself, the    *)
(* requests that accept it, and the accounts made from it that have kept   *)
(* theirs.  A second account would need that address, which the first one  *)
(* has, and the index on the addresses refuses it.                         *)

Says(i, e) ==
  \/ Links!Present(invite[i]) /\ invite[i].email = e
  \/ \E d \in Desks : linkReq[d].pc = "accepting" /\ linkReq[d].invite = i /\ linkReq[d].email = e
  \/ \E p \in made[i] \ freed : person[p].email = e

OneAddress ==
  \A i \in Invites :
    /\ \A e, f \in Emails : Says(i, e) /\ Says(i, f) => e = f
    /\ invite[i] = Links!Absent => \A e \in Emails : ~Says(i, e)

MadeAreThere ==
  \A i \in Invites : \A p \in made[i] :
    /\ person[p] # Links!Absent
    /\ p \notin freed => Links!Present(person[p])

MarkedAfterMade ==
  /\ \A d \in Desks : linkReq[d].pc = "marking" => made[linkReq[d].invite] # {}
  /\ \A i \in Invites : Links!Present(invite[i]) /\ invite[i].used => made[i] # {}

OneKeepsIt ==
  \A i \in Invites : \A p, q \in made[i] : p # q => p \in freed \/ q \in freed

InviteInv == OneAddress /\ MadeAreThere /\ MarkedAfterMade /\ OneKeepsIt

LEMMA InitInvite == Links!Init => InviteInv
<1>. SUFFICES ASSUME Links!Init
              PROVE  InviteInv
  OBVIOUS
<1>1. /\ \A i \in Invites : made[i] = {} /\ ~Links!Present(invite[i])
      /\ \A d \in Desks : linkReq[d].pc = "idle"
  BY DEF Links!Init, Links!Absent, Links!Present, Links!Idle
<1>. QED
  BY <1>1 DEF InviteInv, OneAddress, Says, MadeAreThere, MarkedAfterMade, OneKeepsIt

(* A step after which nobody says of an invite what was not said before.   *)
LEMMA NothingNewSaid ==
  ASSUME OneAddress,
         \A i \in Invites : invite'[i] = Links!Absent => invite[i] = Links!Absent,
         \A i \in Invites, e \in Emails : Says(i, e)' => Says(i, e)
  PROVE  OneAddress'
BY DEF OneAddress

(* An account present or made keeps its address unless it gives it up.     *)
LEMMA KeepersSay ==
  ASSUME NEW i \in Invites, NEW p \in made[i] \ freed
  PROVE  Says(i, person[p].email)
BY DEF Says

(* Steps that create no account from an invite, and no invite.             *)
LEMMA InvitesApart ==
  ASSUME Links!TypeOK, InviteInv,
         made' = made,
         freed \subseteq freed',
         \A i \in Invites : invite'[i] = Links!Absent => invite[i] = Links!Absent,
         \A i \in Invites : Links!Present(invite'[i]) =>
            Links!Present(invite[i]) /\ invite'[i].email = invite[i].email
                              /\ (invite'[i].used => made[i] # {}),
         \A p \in People \ freed' : Links!Present(person[p]) => person'[p] = person[p],
         \A p \in People : person[p] # Links!Absent => person'[p] # Links!Absent,
         \A d \in Desks : linkReq'[d].pc = "marking" => linkReq'[d] = linkReq[d],
         \A d \in Desks : linkReq'[d].pc = "accepting" =>
            linkReq'[d] = linkReq[d] \/ Says(linkReq'[d].invite, linkReq'[d].email)
  PROVE  InviteInv'
<1>0. made \in [Invites -> SUBSET People]
  BY DEF Links!TypeOK
<1>1. ASSUME NEW i \in Invites, NEW e \in Emails, Says(i, e)'
      PROVE  Says(i, e)
  <2>1. CASE Links!Present(invite[i])' /\ invite'[i].email = e
    BY <2>1 DEF Says, Links!Present
  <2>2. CASE \E d \in Desks : linkReq'[d].pc = "accepting" /\ linkReq'[d].invite = i
            /\ linkReq'[d].email = e
    <3>1. PICK d \in Desks : linkReq'[d].pc = "accepting" /\ linkReq'[d].invite = i
              /\ linkReq'[d].email = e
      BY <2>2
    <3>2. linkReq'[d] = linkReq[d] \/ Says(i, e)
      BY <3>1
    <3>. QED
      BY <3>1, <3>2 DEF Says
  <2>3. CASE \E p \in made'[i] \ freed' : person'[p].email = e
    <3>1. PICK p \in made[i] \ freed' : person'[p].email = e
      BY <2>3
    <3>2. p \in People /\ p \notin freed /\ person'[p] = person[p]
      BY <1>0, <3>1 DEF InviteInv, MadeAreThere
    <3>. QED
      BY <3>1, <3>2, KeepersSay
  <2>. QED
    BY <1>1, <2>1, <2>2, <2>3 DEF Says
<1>2. OneAddress'
  BY <1>1, NothingNewSaid DEF InviteInv
<1>3. MadeAreThere'
  BY <1>0 DEF InviteInv, MadeAreThere
<1>4. MarkedAfterMade'
  BY DEF InviteInv, MarkedAfterMade, Links!Present
<1>5. OneKeepsIt'
  BY DEF InviteInv, OneKeepsIt
<1>. QED
  BY <1>2, <1>3, <1>4, <1>5 DEF InviteInv

(* The unique address refuses a second account.                            *)
LEMMA AccountMade ==
  ASSUME Links!TypeOK, InviteInv, NEW d \in Desks, Links!CreateInvited(d)
  PROVE  InviteInv'
<1>. DEFINE j == linkReq[d].invite
            e == linkReq[d].email
<1>0. /\ linkReq \in [Desks -> Links!Requests] /\ j \in Invites /\ e \in Emails
      /\ made \in [Invites -> SUBSET People]
      /\ person \in [People -> Links!PersonRows \cup {Links!Absent, Links!Gone}]
      /\ linkReq[d].pc = "accepting"
      /\ invite' = invite /\ freed' = freed
  BY LinkRequestShapes DEF Links!CreateInvited, Links!TypeOK, Links!OnInvite
<1>1. CASE Links!Registered(e) /\ Links!Finish(d) /\ UNCHANGED <<person, made>>
  <2>1. /\ \A o \in Desks : linkReq'[o].pc \in {"marking", "accepting"} => linkReq'[o] = linkReq[o]
    BY <1>0, <1>1 DEF Links!Finish, Links!Idle
  <2>. QED
    BY <1>0, <1>1, <2>1, InvitesApart DEF InviteInv, MarkedAfterMade
<1>2. ASSUME NEW p \in People,
             ~Links!Registered(e),
             person[p] = Links!Absent,
             person' = [person EXCEPT ![p] = [phase |-> "present", email |-> e]],
             made' = [made EXCEPT ![j] = @ \cup {p}],
             linkReq' = [linkReq EXCEPT ![d].pc = "marking"]
      PROVE  InviteInv'
  <2>1. /\ \A i \in Invites \ {j} : made'[i] = made[i]
        /\ made'[j] = made[j] \cup {p}
        /\ \A q \in People \ {p} : person'[q] = person[q]
        /\ person'[p] = [phase |-> "present", email |-> e]
    BY <1>0, <1>2
  <2>2. /\ \A o \in Desks \ {d} : linkReq'[o] = linkReq[o]
        /\ linkReq'[d].pc = "marking" /\ linkReq'[d].invite = j
    BY <1>0, <1>2, LinkRequestShapes DEF Links!OnInvite
  <2>3. \A i \in Invites : p \notin made[i]
    BY <1>2 DEF InviteInv, MadeAreThere
  <2>4. Says(j, e)
    BY <1>0 DEF Says
  <2>5. ASSUME NEW i \in Invites, NEW f \in Emails, Says(i, f)'
        PROVE  Says(i, f)
    <3>1. CASE Links!Present(invite[i])' /\ invite'[i].email = f
      BY <1>0, <3>1 DEF Says, Links!Present
    <3>2. CASE \E o \in Desks : linkReq'[o].pc = "accepting" /\ linkReq'[o].invite = i
              /\ linkReq'[o].email = f
      BY <2>2, <3>2 DEF Says
    <3>3. CASE \E q \in made'[i] \ freed' : person'[q].email = f
      <4>1. PICK q \in made'[i] \ freed' : person'[q].email = f
        BY <3>3
      <4>2. CASE q = p /\ i = j
        BY <2>1, <2>4, <4>1, <4>2
      <4>3. CASE ~(q = p /\ i = j)
        BY <1>0, <2>1, <2>3, <4>1, <4>3 DEF Says
      <4>. QED
        BY <4>2, <4>3
    <3>. QED
      BY <2>5, <3>1, <3>2, <3>3 DEF Says
  <2>6. OneAddress'
    BY <1>0, <2>5, NothingNewSaid DEF InviteInv
  <2>7. MadeAreThere'
    <3>1. person'[p] # Links!Absent /\ Links!Present(person'[p])
      BY <2>1 DEF Links!Present, Links!Absent
    <3>2. ASSUME NEW i \in Invites, NEW q \in made'[i]
          PROVE  person'[q] # Links!Absent /\ (q \notin freed' => Links!Present(person'[q]))
      BY <1>0, <2>1, <3>1, <3>2 DEF InviteInv, MadeAreThere
    <3>. QED
      BY <3>2 DEF MadeAreThere, Links!Present
  <2>8. MarkedAfterMade'
    <3>1. \A i \in Invites : made[i] \subseteq made'[i]
      BY <2>1
    <3>2. ASSUME NEW o \in Desks, linkReq'[o].pc = "marking"
          PROVE  made'[linkReq'[o].invite] # {}
      <4>1. CASE o = d
        BY <2>1, <2>2, <4>1
      <4>2. CASE o # d
        <5>1. linkReq'[o] = linkReq[o] /\ linkReq[o].pc = "marking" /\ linkReq[o].invite \in Invites
          BY <1>0, <2>2, <3>2, <4>2, LinkRequestShapes DEF Links!OnInvite
        <5>. QED
          BY <3>1, <5>1 DEF InviteInv, MarkedAfterMade
      <4>. QED
        BY <4>1, <4>2
    <3>. QED
      BY <1>0, <3>1, <3>2 DEF InviteInv, MarkedAfterMade, Links!Present
  <2>9. OneKeepsIt'
    <3>1. \A q \in made[j] : q \in freed
      <4>1. ASSUME NEW q \in made[j], q \notin freed
            PROVE  FALSE
        <5>1. Links!Present(person[q]) /\ Says(j, person[q].email) /\ q \in People
          BY <1>0, <4>1, KeepersSay DEF InviteInv, MadeAreThere
        <5>2. person[q].email \in Emails
          BY <1>0, <5>1 DEF Links!Present, Links!Absent, Links!Gone, Links!PersonRows
        <5>3. person[q].email = e
          BY <1>0, <2>4, <5>1, <5>2 DEF InviteInv, OneAddress
        <5>. QED
          BY <1>2, <5>1, <5>3 DEF Links!Registered
      <4>. QED
        BY <4>1
    <3>. QED
      BY <1>0, <2>1, <3>1 DEF InviteInv, OneKeepsIt
  <2>. QED
    BY <2>6, <2>7, <2>8, <2>9 DEF InviteInv
<1>. QED
  BY <1>1, <1>2 DEF Links!CreateInvited

(* A new invite is one nobody knows yet.                                   *)
LEMMA InviteMade ==
  ASSUME Links!TypeOK, InviteInv, NEW d \in Desks, Links!CreateInvite(d)
  PROVE  InviteInv'
<1>. DEFINE Fresh == [phase |-> "present", email |-> linkReq[d].email, used |-> FALSE, expired |-> FALSE]
<1>1. PICK j \in Invites : invite[j] = Links!Absent /\ invite' = [invite EXCEPT ![j] = Fresh]
  BY DEF Links!CreateInvite
<1>2. /\ \A o \in Desks : linkReq'[o].pc \in {"marking", "accepting"} => linkReq'[o] = linkReq[o]
      /\ person' = person /\ made' = made /\ freed' = freed
      /\ \A i \in Invites \ {j} : invite'[i] = invite[i]
      /\ invite'[j] = Fresh
  BY <1>1 DEF Links!CreateInvite, Links!Finish, Links!Idle, Links!TypeOK, Links!histories
<1>3. invite'[j] # Links!Absent /\ ~invite'[j].used
  BY <1>2 DEF Links!Absent
<1>4. \A f \in Emails : ~Says(j, f)
  BY <1>1 DEF InviteInv, OneAddress
<1>5. \A f \in Emails : Says(j, f)' => invite'[j].email = f
  BY <1>2, <1>4 DEF Says
<1>6. \A i \in Invites \ {j}, f \in Emails : Says(i, f)' => Says(i, f)
  BY <1>2 DEF Says, Links!Present
<1>7. OneAddress'
  BY <1>2, <1>3, <1>5, <1>6 DEF InviteInv, OneAddress
<1>8. MadeAreThere' /\ OneKeepsIt'
  BY <1>2 DEF InviteInv, MadeAreThere, OneKeepsIt, Links!Present
<1>9. MarkedAfterMade'
  BY <1>2, <1>3 DEF InviteInv, MarkedAfterMade, Links!Present
<1>. QED
  BY <1>7, <1>8, <1>9 DEF InviteInv

(* A request that has made the account marks the invite used.              *)
LEMMA InviteMarked ==
  ASSUME Links!TypeOK, InviteInv, NEW d \in Desks, Links!MarkUsed(d)
  PROVE  InviteInv'
<1>. DEFINE j == linkReq[d].invite
<1>1. j \in Invites /\ made[j] # {} /\ linkReq[d].pc = "marking"
  BY LinkRequestShapes DEF Links!MarkUsed, Links!TypeOK, Links!OnInvite, InviteInv, MarkedAfterMade
<1>2. invite' = invite \/ (Links!Present(invite[j]) /\ invite' = [invite EXCEPT ![j].used = TRUE])
  BY DEF Links!MarkUsed
<1>3. /\ \A i \in Invites \ {j} : invite'[i] = invite[i]
      /\ invite'[j] = invite[j]
           \/ (/\ Links!Present(invite[j]) /\ Links!Present(invite'[j])
              /\ invite'[j].email = invite[j].email)
  BY <1>1, <1>2, PresentShapes, LinkTypeParts DEF Links!TypeOK, Links!InviteRows, Links!Present
<1>4. \A i \in Invites : invite'[i] = Links!Absent => invite[i] = Links!Absent
  BY <1>1, <1>3 DEF Links!Present, Links!Absent
<1>5. \A i \in Invites : Links!Present(invite'[i]) =>
        Links!Present(invite[i]) /\ invite'[i].email = invite[i].email
          /\ (invite'[i].used => made[i] # {})
  BY <1>1, <1>3 DEF InviteInv, MarkedAfterMade
<1>6. /\ \A o \in Desks : linkReq'[o].pc \in {"marking", "accepting"} => linkReq'[o] = linkReq[o]
      /\ person' = person /\ made' = made /\ freed' = freed
  BY DEF Links!MarkUsed, Links!Finish, Links!Idle, Links!TypeOK, Links!histories
<1>. QED
  BY <1>4, <1>5, <1>6, InvitesApart

LEMMA InviteStep ==
  ASSUME Links!TypeOK, InviteInv, [Links!Next]_(Links!vars)
  PROVE  InviteInv'
<1>0. /\ RowTypes /\ linkReq \in [Desks -> Links!Requests]
      /\ \A i \in Invites : Links!Present(invite[i]) /\ invite[i].used => made[i] # {}
  BY LinkTypeParts DEF InviteInv, MarkedAfterMade
<1>1. ASSUME NEW d \in Desks, Links!Requested(d)
      PROVE  InviteInv'
  <2>1. person' = person /\ invite' = invite /\ made' = made /\ freed' = freed
    BY <1>1 DEF Links!Requested, Links!CheckEmail, Links!CheckCancel, Links!CheckInvite,
                Links!ResetPassword, Links!rows, Links!histories
  <2>2. \A o \in Desks : linkReq'[o].pc = "marking" => linkReq'[o] = linkReq[o]
    BY <1>0, <1>1 DEF Links!Requested, Links!CheckEmail, Links!CheckCancel, Links!CheckInvite,
                      Links!ResetPassword, Links!Begin
  <2>3. \A o \in Desks : linkReq'[o].pc = "accepting" =>
          linkReq'[o] = linkReq[o] \/ Says(linkReq'[o].invite, linkReq'[o].email)
    <3>1. ASSUME NEW i \in Invites, Links!CheckInvite(d, i)
          PROVE  \A o \in Desks : linkReq'[o] = linkReq[o]
              \/ Says(linkReq'[o].invite, linkReq'[o].email)
      <4>1. linkReq'[d].invite = i /\ linkReq'[d].email = invite[i].email /\ Links!Present(invite[i])
        BY <1>0, <3>1 DEF Links!CheckInvite, Links!Begin, Links!Pending
      <4>2. \A o \in Desks \ {d} : linkReq'[o] = linkReq[o]
        BY <1>0, <3>1 DEF Links!CheckInvite, Links!Begin
      <4>. QED
        BY <4>1, <4>2 DEF Says
    <3>2. ASSUME \/ \E e \in Emails : Links!CheckEmail(d, e)
                 \/ \E i \in Invites : Links!CheckCancel(d, i)
                 \/ \E r \in Resets : Links!ResetPassword(d, r)
          PROVE  \A o \in Desks : linkReq'[o].pc = "accepting" => linkReq'[o] = linkReq[o]
      BY <1>0, <3>2 DEF Links!CheckEmail, Links!CheckCancel, Links!ResetPassword, Links!Begin
    <3>. QED
      BY <1>1, <3>1, <3>2 DEF Links!Requested
  <2>. QED
    BY <1>0, <2>1, <2>2, <2>3, InvitesApart
<1>2. ASSUME NEW d \in Desks, Links!DeleteExpired(d) \/ Links!CancelInvite(d)
      PROVE  InviteInv'
  <2>1. /\ person' = person /\ made' = made /\ freed' = freed
        /\ \A i \in Invites : invite'[i] = invite[i] \/ invite'[i] = Links!Gone
    BY <1>0, <1>2 DEF Links!DeleteExpired, Links!CancelInvite, Links!histories, RowTypes
  <2>2. \A o \in Desks : linkReq'[o].pc \in {"marking", "accepting"} => linkReq'[o] = linkReq[o]
    BY <1>0, <1>2 DEF Links!DeleteExpired, Links!CancelInvite, Links!Go, Links!Finish, Links!Idle
  <2>. QED
    BY <1>0, <2>1, <2>2, InvitesApart DEF Links!Present, Links!Absent, Links!Gone
<1>3. ASSUME NEW d \in Desks,
             Links!SearchPending(d) \/ Links!DeleteReset(d) \/ Links!UpdatePassword(d)
                 \/ Links!Abandon(d)
      PROVE  InviteInv'
  <2>1. person' = person /\ invite' = invite /\ made' = made /\ freed' = freed
    BY <1>3 DEF Links!SearchPending, Links!DeleteReset, Links!UpdatePassword, Links!Abandon,
                Links!rows, Links!histories
  <2>2. \A o \in Desks : linkReq'[o].pc \in {"marking", "accepting"} => linkReq'[o] = linkReq[o]
    <3>1. CASE Links!SearchPending(d) \/ Links!UpdatePassword(d) \/ Links!Abandon(d)
      BY <1>0, <3>1 DEF Links!SearchPending, Links!UpdatePassword, Links!Abandon, Links!Go,
                        Links!Finish, Links!Idle
    <3>2. CASE Links!DeleteReset(d)
      <4>1. [linkReq[d] EXCEPT !.pc = "updating"].pc = "updating"
        BY <1>0, <3>2, LinkRequestShapes DEF Links!DeleteReset, Links!Resetting
      <4>. QED
        BY <1>0, <3>2, <4>1 DEF Links!DeleteReset
    <3>. QED
      BY <1>3, <3>1, <3>2
  <2>. QED
    BY <1>0, <2>1, <2>2, InvitesApart
<1>4. ASSUME NEW i \in Invites, Links!ExpireInvite(i)
      PROVE  InviteInv'
  <2>1. /\ person' = person /\ made' = made /\ freed' = freed /\ linkReq' = linkReq
        /\ \A j \in Invites \ {i} : invite'[j] = invite[j]
        /\ invite'[i] = [invite[i] EXCEPT !.expired = TRUE]
    BY <1>0, <1>4 DEF Links!ExpireInvite, Links!histories, RowTypes
  <2>2. /\ Links!Present(invite[i]) /\ Links!Present(invite'[i])
        /\ invite'[i].email = invite[i].email /\ invite'[i].used = invite[i].used
    BY <1>0, <1>4, <2>1, PresentShapes DEF Links!ExpireInvite, Links!InviteRows, Links!Present
  <2>3. \A j \in Invites : invite'[j] = Links!Absent => invite[j] = Links!Absent
    BY <2>1, <2>2 DEF Links!Present, Links!Absent
  <2>. QED
    BY <1>0, <2>1, <2>2, <2>3, InvitesApart
<1>5. ASSUME NEW p \in People, (\E e \in Emails : Links!UpdateEmail(p, e)) \/ Links!DeletePerson(p)
      PROVE  InviteInv'
  <2>1. /\ invite' = invite /\ made' = made /\ linkReq' = linkReq /\ freed' = freed \cup {p}
        /\ \A q \in People \ {p} : person'[q] = person[q]
    BY <1>0, <1>5 DEF Links!UpdateEmail, Links!DeletePerson, RowTypes
  <2>2. person'[p] # Links!Absent
    <3>1. ASSUME NEW e \in Emails, Links!UpdateEmail(p, e)
          PROVE  person'[p].phase = "present"
      <4>1. [person[p] EXCEPT !.email = e].phase = "present"
        BY <1>0, <3>1, PresentShapes DEF Links!UpdateEmail, Links!PersonRows
      <4>. QED
        BY <1>0, <3>1, <4>1 DEF Links!UpdateEmail, RowTypes
    <3>2. CASE Links!DeletePerson(p)
      BY <1>0, <3>2 DEF Links!DeletePerson, RowTypes, Links!Absent, Links!Gone
    <3>. QED
      BY <1>5, <3>1, <3>2 DEF Links!Absent
  <2>. QED
    BY <1>0, <2>1, <2>2, InvitesApart
<1>6. ASSUME NEW e \in Emails, Links!Register(e)
      PROVE  InviteInv'
  <2>1. /\ invite' = invite /\ made' = made /\ freed' = freed /\ linkReq' = linkReq
        /\ \A q \in People : person'[q] = person[q]
                              \/ (person[q] = Links!Absent /\ person'[q] # Links!Absent)
    BY <1>0, <1>6 DEF Links!Register, Links!histories, RowTypes, Links!Absent
  <2>2. \A q \in People : Links!Present(person[q]) => person'[q] = person[q]
    BY <2>1 DEF Links!Present, Links!Absent
  <2>. QED
    BY <1>0, <2>1, <2>2, InvitesApart
<1>7. ASSUME \/ \E p \in People, r \in Resets : Links!ForgotPassword(p, r)
             \/ \E r \in Resets : Links!ExpireReset(r)
             \/ UNCHANGED Links!vars
      PROVE  InviteInv'
  <2>1. UNCHANGED <<person, invite, made, freed, linkReq>>
    BY <1>7 DEF Links!ForgotPassword, Links!ExpireReset, Links!vars, Links!rows, Links!histories
  <2>. QED
    BY <1>0, <2>1, InvitesApart
<1>. QED
  BY <1>1, <1>2, <1>3, <1>4, <1>5, <1>6, <1>7, AccountMade, InviteMade, InviteMarked
     DEF Links!Next, Links!Handler, Links!AtOnce

LEMMA InviteSuffices == InviteInv => Links!InviteMakesOneAccount
BY DEF InviteInv, MarkedAfterMade, OneKeepsIt, Links!InviteMakesOneAccount

(* However acceptances of an invite race, fail half-way, are retried, or   *)
(* meet its cancellation, it makes one account, unless its first account   *)
(* has given the address up; and it is marked used only once it has made   *)
(* one.                                                                    *)
THEOREM InvitesMakeOneAccount == Links!Spec => []Links!InviteMakesOneAccount
<1>1. Links!TypeOK /\ InviteInv /\ [Links!Next]_(Links!vars) => InviteInv'
  BY InviteStep
<1>. QED
  BY LinksTypeCorrect, InitInvite, <1>1, InviteSuffices, PTL DEF Links!Spec

-----------------------------------------------------------------------------
(* The HTTP server.                                                        *)

(* The tables of the routers, by method, length and first segments of the  *)
(* path, and what they have in common: statuses of HTTP, one of a few      *)
(* first segments, and no route that takes what is meant for a later one.  *)
Row(r, m, n, a, b, c) ==
  /\ r.method = m /\ Len(r.path) = n
  /\ r.path[1] = a /\ (n > 1 => r.path[2] = b) /\ (n > 2 => r.path[3] = c)

Statuses(routes) ==
  /\ Len(routes) \in Nat /\ routes = [i \in 1 .. Len(routes) |-> routes[i]]
  /\ \A i \in 1 .. Len(routes) : routes[i].status \in 200 .. 500

Below(routes, W) ==
  \A k \in 1 .. Len(routes) : Len(routes[k].path) \in Nat \ {0} /\ routes[k].path[1] \in W

Ordered(routes) ==
  \A k \in 1 .. Len(routes) : \A j \in 1 .. k - 1 : ~Web!Matches(routes[j], routes[k])

Router(routes, W) == Statuses(routes) /\ Below(routes, W) /\ Ordered(routes)

Missed(s, t) == \A j \in 1 .. Len(s), k \in 1 .. Len(t) : ~Web!Matches(s[j], t[k])

(* A route declares what the document says of an operation.                *)
Declares(routes, d) ==
  \E k \in 1 .. Len(routes) :
    /\ routes[k].method = d.method /\ routes[k].path = d.path /\ routes[k].audience = d.audience
    /\ routes[k].status \in d.answers
    /\ routes[k].limited => 429 \in d.answers

LEMMA Matched ==
  ASSUME NEW r, NEW q, Web!Matches(r, q)
  PROVE  /\ r.method = q.method /\ Len(r.path) = Len(q.path)
         /\ Len(r.path) \in 1 .. 4 => r.path[1] \in Web!Parameters \/ r.path[1] = q.path[1]
         /\ Len(r.path) \in 2 .. 4 => r.path[2] \in Web!Parameters \/ r.path[2] = q.path[2]
         /\ Len(r.path) \in 3 .. 4 => r.path[3] \in Web!Parameters \/ r.path[3] = q.path[3]
BY DEF Web!Matches

LEMMA ConcatTables ==
  ASSUME NEW s, NEW t, Statuses(s), Statuses(t)
  PROVE  /\ Len(s) \in Nat /\ Len(t) \in Nat /\ Len(s \o t) = Len(s) + Len(t)
         /\ \A i \in 1 .. Len(s) : (s \o t)[i] = s[i]
         /\ \A i \in 1 .. Len(t) : (s \o t)[Len(s) + i] = t[i]
         /\ \A i \in 1 .. Len(s \o t) :
              i \in 1 .. Len(s) \/ \E j \in 1 .. Len(t) : i = Len(s) + j
         /\ s \o t = [i \in 1 .. Len(s \o t) |-> (s \o t)[i]]
<1>. DEFINE S == {s[i] : i \in 1 .. Len(s)} \cup {t[i] : i \in 1 .. Len(t)}
<1>1. s \in [1 .. Len(s) -> S] /\ t \in [1 .. Len(t) -> S]
  BY DEF Statuses
<1>. HIDE DEF S
<1>2. s \in Seq(S) /\ t \in Seq(S) /\ Len(s) \in Nat /\ Len(t) \in Nat
  BY <1>1, SeqDef DEF Statuses
<1>3. /\ s \o t \in Seq(S) /\ Len(s \o t) = Len(s) + Len(t)
      /\ \A i \in 1 .. Len(s) + Len(t) :
           (s \o t)[i] = IF i <= Len(s) THEN s[i] ELSE t[i - Len(s)]
  BY <1>2, ConcatProperties
<1>4. s \o t \in [1 .. Len(s \o t) -> S]
  BY <1>3, LenProperties
<1>5. /\ \A i \in 1 .. Len(s) : (s \o t)[i] = s[i]
      /\ \A i \in 1 .. Len(t) : (s \o t)[Len(s) + i] = t[i]
  BY <1>2, <1>3
<1>6. ASSUME NEW i \in 1 .. Len(s \o t), i \notin 1 .. Len(s)
      PROVE  \E j \in 1 .. Len(t) : i = Len(s) + j
  <2>1. i - Len(s) \in 1 .. Len(t) /\ i = Len(s) + (i - Len(s))
    BY <1>2, <1>3, <1>6
  <2>. QED
    BY <2>1
<1>. QED
  BY <1>2, <1>3, <1>4, <1>5, <1>6

(* Two routers, the first of which misses what is meant for the second.    *)
LEMMA Joined ==
  ASSUME NEW s, NEW t, NEW W, NEW V, Router(s, W), Router(t, V), Missed(s, t)
  PROVE  /\ Router(s \o t, W \cup V)
         /\ \A d : Declares(s, d) \/ Declares(t, d) => Declares(s \o t, d)
<1>0. Statuses(s) /\ Statuses(t)
  BY DEF Router
<1>1. /\ Len(s) \in Nat /\ Len(t) \in Nat /\ Len(s \o t) = Len(s) + Len(t)
      /\ \A i \in 1 .. Len(s) : (s \o t)[i] = s[i]
      /\ \A i \in 1 .. Len(t) : (s \o t)[Len(s) + i] = t[i]
      /\ \A i \in 1 .. Len(s \o t) :
           i \in 1 .. Len(s) \/ \E j \in 1 .. Len(t) : i = Len(s) + j
      /\ s \o t = [i \in 1 .. Len(s \o t) |-> (s \o t)[i]]
  BY <1>0, ConcatTables
<1>2. Statuses(s \o t)
  BY <1>0, <1>1 DEF Statuses
<1>3. Below(s \o t, W \cup V)
  <2>1. \A i \in 1 .. Len(s) : Len(s[i].path) \in Nat \ {0} /\ s[i].path[1] \in W \cup V
    BY DEF Router, Below
  <2>2. \A i \in 1 .. Len(t) : Len(t[i].path) \in Nat \ {0} /\ t[i].path[1] \in W \cup V
    BY DEF Router, Below
  <2>. QED
    BY <1>1, <2>1, <2>2 DEF Below
<1>4. ASSUME NEW k \in 1 .. Len(s \o t), NEW j \in 1 .. k - 1
      PROVE  ~Web!Matches((s \o t)[j], (s \o t)[k])
  <2>1. CASE k \in 1 .. Len(s)
    BY <1>1, <2>1 DEF Router, Ordered
  <2>2. ASSUME NEW m \in 1 .. Len(t), k = Len(s) + m
        PROVE  ~Web!Matches((s \o t)[j], (s \o t)[k])
    <3>1. (s \o t)[k] = t[m]
      BY <1>1, <2>2
    <3>2. CASE j \in 1 .. Len(s)
      BY <1>1, <3>1, <3>2 DEF Missed
    <3>3. ASSUME NEW l \in 1 .. Len(t), j = Len(s) + l
          PROVE  ~Web!Matches((s \o t)[j], (s \o t)[k])
      <4>1. l \in 1 .. m - 1 /\ (s \o t)[j] = t[l]
        BY <1>1, <2>2, <3>3
      <4>. QED
        BY <3>1, <4>1 DEF Router, Ordered
    <3>4. j \in 1 .. Len(s \o t)
      BY <1>1
    <3>. QED
      BY <1>1, <3>2, <3>3, <3>4
  <2>. QED
    BY <1>1, <2>1, <2>2
<1>5. ASSUME NEW d, Declares(s, d)
      PROVE  Declares(s \o t, d)
  <2>1. \A i \in 1 .. Len(s) : i \in 1 .. Len(s \o t)
    BY <1>1
  <2>. QED
    BY <1>1, <1>5, <2>1 DEF Declares
<1>6. ASSUME NEW d, Declares(t, d)
      PROVE  Declares(s \o t, d)
  <2>1. PICK k \in 1 .. Len(t) :
          /\ t[k].method = d.method /\ t[k].path = d.path /\ t[k].audience = d.audience
          /\ t[k].status \in d.answers /\ (t[k].limited => 429 \in d.answers)
    BY <1>6 DEF Declares
  <2>2. Len(s) + k \in 1 .. Len(s \o t) /\ (s \o t)[Len(s) + k] = t[k]
    BY <1>1
  <2>. QED
    BY <2>1, <2>2 DEF Declares
<1>. QED
  BY <1>2, <1>3, <1>4, <1>5, <1>6 DEF Router, Ordered

LEMMA MissedBelow ==
  ASSUME NEW s, NEW t, NEW W, NEW V, Router(s, W), Router(t, V),
         W \cap (V \cup Web!Parameters) = {}
  PROVE  Missed(s, t)
<1>. SUFFICES ASSUME NEW j \in 1 .. Len(s), NEW k \in 1 .. Len(t), Web!Matches(s[j], t[k])
              PROVE  FALSE
  BY DEF Missed
<1>1. /\ Len(s[j].path) \in Nat \ {0} /\ s[j].path[1] \in W /\ t[k].path[1] \in V
  BY DEF Router, Below
<1>2. s[j].path[1] \in Web!Parameters \cup {t[k].path[1]}
  BY <1>1 DEF Web!Matches
<1>. QED
  BY <1>1, <1>2

LEMMA MissedJoined ==
  ASSUME NEW s, NEW t, NEW u, Statuses(s), Statuses(t), Missed(s, u), Missed(t, u)
  PROVE  Missed(s \o t, u)
BY ConcatTables DEF Missed

LEMMA AuthRows ==
  /\ Len(Web!AuthRoutes) = 7
  /\ Row(Web!AuthRoutes[1], "post", 2, "auth", "register", "none")
  /\ Row(Web!AuthRoutes[2], "post", 2, "auth", "login", "none")
  /\ Row(Web!AuthRoutes[3], "post", 2, "auth", "refresh", "none")
  /\ Row(Web!AuthRoutes[4], "post", 2, "auth", "logout", "none")
  /\ Row(Web!AuthRoutes[5], "post", 2, "auth", "accept-invite", "none")
  /\ Row(Web!AuthRoutes[6], "post", 2, "auth", "forgot-password", "none")
  /\ Row(Web!AuthRoutes[7], "post", 2, "auth", "reset-password", "none")
BY DEF Row, Web!AuthRoutes, Web!AuthController, Web!Route, Web!Limited

LEMMA AssetRows ==
  /\ Len(Web!AssetRoutes) = 8
  /\ Row(Web!AssetRoutes[1], "get", 2, "assets", "categories", "none")
  /\ Row(Web!AssetRoutes[2], "get", 2, "assets", "stats", "none")
  /\ Row(Web!AssetRoutes[3], "get", 1, "assets", "none", "none")
  /\ Row(Web!AssetRoutes[4], "get", 3, "assets", ":id", "tasks")
  /\ Row(Web!AssetRoutes[5], "get", 2, "assets", ":id", "none")
  /\ Row(Web!AssetRoutes[6], "post", 1, "assets", "none", "none")
  /\ Row(Web!AssetRoutes[7], "patch", 2, "assets", ":id", "none")
  /\ Row(Web!AssetRoutes[8], "delete", 2, "assets", ":id", "none")
BY DEF Row, Web!AssetRoutes, Web!AssetsController, Web!Route

LEMMA DashboardRows ==
  /\ Len(Web!DashboardRoutes) = 1
  /\ Row(Web!DashboardRoutes[1], "get", 2, "dashboard", "stats", "none")
BY DEF Row, Web!DashboardRoutes, Web!DashboardController, Web!Route

LEMMA OwnUserRows ==
  /\ Len(Web!OwnUserRoutes) = 9
  /\ Row(Web!OwnUserRoutes[1], "get", 1, "users", "none", "none")
  /\ Row(Web!OwnUserRoutes[2], "get", 2, "users", "me", "none")
  /\ Row(Web!OwnUserRoutes[3], "patch", 3, "users", "me", "avatar")
  /\ Row(Web!OwnUserRoutes[4], "patch", 3, "users", "me", "password")
  /\ Row(Web!OwnUserRoutes[5], "delete", 3, "users", "me", "sessions")
  /\ Row(Web!OwnUserRoutes[6], "get", 3, "users", "me", "notification-preferences")
  /\ Row(Web!OwnUserRoutes[7], "patch", 3, "users", "me", "notification-preferences")
  /\ Row(Web!OwnUserRoutes[8], "delete", 2, "users", "me", "none")
  /\ Row(Web!OwnUserRoutes[9], "get", 2, "users", "pending-invites", "none")
BY DEF Row, Web!OwnUserRoutes, Web!UsersController, Web!Route

LEMMA UserRows ==
  /\ Len(Web!UserRoutes) = 7
  /\ Row(Web!UserRoutes[1], "get", 2, "users", ":id", "none")
  /\ Row(Web!UserRoutes[2], "patch", 2, "users", ":id", "none")
  /\ Row(Web!UserRoutes[3], "patch", 3, "users", ":id", "roles")
  /\ Row(Web!UserRoutes[4], "delete", 2, "users", ":id", "none")
  /\ Row(Web!UserRoutes[5], "post", 2, "users", "invite", "none")
  /\ Row(Web!UserRoutes[6], "delete", 3, "users", "invites", ":id")
  /\ Row(Web!UserRoutes[7], "patch", 3, "users", ":id", "status")
BY DEF Row, Web!UserRoutes, Web!UsersController, Web!Route

LEMMA WorkOrderRequestRows ==
  /\ Len(Web!WorkOrderRequestRoutes) = 5
  /\ Row(Web!WorkOrderRequestRoutes[1], "post", 1, "work-order-requests", "none", "none")
  /\ Row(Web!WorkOrderRequestRoutes[2], "get", 1, "work-order-requests", "none", "none")
  /\ Row(Web!WorkOrderRequestRoutes[3], "get", 2, "work-order-requests", ":id", "none")
  /\ Row(Web!WorkOrderRequestRoutes[4], "post", 3, "work-order-requests", ":id", "approve")
  /\ Row(Web!WorkOrderRequestRoutes[5], "post", 3, "work-order-requests", ":id", "reject")
BY DEF Row, Web!WorkOrderRequestRoutes, Web!WorkOrderRequestsController, Web!Route

LEMMA InventoryRows ==
  /\ Len(Web!InventoryRoutes) = 8
  /\ Row(Web!InventoryRoutes[1], "get", 2, "inventory", "categories", "none")
  /\ Row(Web!InventoryRoutes[2], "get", 2, "inventory", "stats", "none")
  /\ Row(Web!InventoryRoutes[3], "get", 1, "inventory", "none", "none")
  /\ Row(Web!InventoryRoutes[4], "get", 2, "inventory", ":id", "none")
  /\ Row(Web!InventoryRoutes[5], "post", 1, "inventory", "none", "none")
  /\ Row(Web!InventoryRoutes[6], "patch", 3, "inventory", ":id", "restock")
  /\ Row(Web!InventoryRoutes[7], "patch", 2, "inventory", ":id", "none")
  /\ Row(Web!InventoryRoutes[8], "delete", 2, "inventory", ":id", "none")
BY DEF Row, Web!InventoryRoutes, Web!InventoryController, Web!Route

LEMMA MeterRows ==
  /\ Len(Web!MeterRoutes) = 6
  /\ Row(Web!MeterRoutes[1], "get", 1, "meters", "none", "none")
  /\ Row(Web!MeterRoutes[2], "post", 1, "meters", "none", "none")
  /\ Row(Web!MeterRoutes[3], "patch", 2, "meters", ":id", "none")
  /\ Row(Web!MeterRoutes[4], "delete", 2, "meters", ":id", "none")
  /\ Row(Web!MeterRoutes[5], "get", 3, "meters", ":id", "readings")
  /\ Row(Web!MeterRoutes[6], "post", 3, "meters", ":id", "readings")
BY DEF Row, Web!MeterRoutes, Web!MetersController, Web!Route

LEMMA RecurringTaskRows ==
  /\ Len(Web!RecurringTaskRoutes) = 7
  /\ Row(Web!RecurringTaskRoutes[1], "get", 1, "recurring-tasks", "none", "none")
  /\ Row(Web!RecurringTaskRoutes[2], "get", 2, "recurring-tasks", ":id", "none")
  /\ Row(Web!RecurringTaskRoutes[3], "post", 1, "recurring-tasks", "none", "none")
  /\ Row(Web!RecurringTaskRoutes[4], "patch", 2, "recurring-tasks", ":id", "none")
  /\ Row(Web!RecurringTaskRoutes[5], "post", 3, "recurring-tasks", ":id", "pause")
  /\ Row(Web!RecurringTaskRoutes[6], "post", 3, "recurring-tasks", ":id", "resume")
  /\ Row(Web!RecurringTaskRoutes[7], "delete", 2, "recurring-tasks", ":id", "none")
BY DEF Row, Web!RecurringTaskRoutes, Web!RecurringTasksController, Web!Route

LEMMA ReorderRows ==
  /\ Len(Web!ReorderRoutes) = 6
  /\ Row(Web!ReorderRoutes[1], "get", 1, "reorders", "none", "none")
  /\ Row(Web!ReorderRoutes[2], "get", 2, "reorders", "stats", "none")
  /\ Row(Web!ReorderRoutes[3], "post", 1, "reorders", "none", "none")
  /\ Row(Web!ReorderRoutes[4], "patch", 3, "reorders", ":id", "order")
  /\ Row(Web!ReorderRoutes[5], "patch", 3, "reorders", ":id", "receive")
  /\ Row(Web!ReorderRoutes[6], "patch", 3, "reorders", ":id", "cancel")
BY DEF Row, Web!ReorderRoutes, Web!ReordersController, Web!Route

LEMMA ReportRows ==
  /\ Len(Web!ReportRoutes) = 4
  /\ Row(Web!ReportRoutes[1], "get", 2, "reports", "assets", "none")
  /\ Row(Web!ReportRoutes[2], "get", 2, "reports", "technicians", "none")
  /\ Row(Web!ReportRoutes[3], "get", 2, "reports", "throughput", "none")
  /\ Row(Web!ReportRoutes[4], "get", 2, "reports", "spend", "none")
BY DEF Row, Web!ReportRoutes, Web!ReportsController, Web!Route

LEMMA TaskCommentRows ==
  /\ Len(Web!TaskCommentRoutes) = 3
  /\ Row(Web!TaskCommentRoutes[1], "get", 3, "tasks", ":id", "comments")
  /\ Row(Web!TaskCommentRoutes[2], "post", 3, "tasks", ":id", "comments")
  /\ Row(Web!TaskCommentRoutes[3], "delete", 4, "tasks", ":id", "comments")
BY DEF Row, Web!TaskCommentRoutes, Web!TaskCommentsController, Web!Route

LEMMA OwnTaskRows ==
  /\ Len(Web!OwnTaskRoutes) = 9
  /\ Row(Web!OwnTaskRoutes[1], "get", 1, "tasks", "none", "none")
  /\ Row(Web!OwnTaskRoutes[2], "get", 2, "tasks", ":id", "none")
  /\ Row(Web!OwnTaskRoutes[3], "post", 1, "tasks", "none", "none")
  /\ Row(Web!OwnTaskRoutes[4], "patch", 2, "tasks", ":id", "none")
  /\ Row(Web!OwnTaskRoutes[5], "post", 3, "tasks", ":id", "before-photo")
  /\ Row(Web!OwnTaskRoutes[6], "post", 3, "tasks", ":id", "after-photo")
  /\ Row(Web!OwnTaskRoutes[7], "post", 3, "tasks", ":id", "cancel")
  /\ Row(Web!OwnTaskRoutes[8], "post", 3, "tasks", ":id", "complete")
  /\ Row(Web!OwnTaskRoutes[9], "delete", 2, "tasks", ":id", "none")
BY DEF Row, Web!OwnTaskRoutes, Web!TasksController, Web!Route

LEMMA ChecklistTemplateRows ==
  /\ Len(Web!ChecklistTemplateRoutes) = 3
  /\ Row(Web!ChecklistTemplateRoutes[1], "get", 1, "checklist-templates", "none", "none")
  /\ Row(Web!ChecklistTemplateRoutes[2], "get", 2, "checklist-templates", ":category", "none")
  /\ Row(Web!ChecklistTemplateRoutes[3], "patch", 2, "checklist-templates", ":category", "none")
BY DEF Row, Web!ChecklistTemplateRoutes, Web!ChecklistTemplatesController, Web!Route

LEMMA NotificationRows ==
  /\ Len(Web!NotificationRoutes) = 5
  /\ Row(Web!NotificationRoutes[1], "get", 1, "notifications", "none", "none")
  /\ Row(Web!NotificationRoutes[2], "get", 2, "notifications", "unread-count", "none")
  /\ Row(Web!NotificationRoutes[3], "patch", 2, "notifications", "read-all", "none")
  /\ Row(Web!NotificationRoutes[4], "patch", 2, "notifications", ":id", "none")
  /\ Row(Web!NotificationRoutes[5], "delete", 2, "notifications", ":id", "none")
BY DEF Row, Web!NotificationRoutes, Web!NotificationsController, Web!Route

LEMMA Routers ==
  /\ Router(Web!AuthRoutes, {"auth"})
  /\ Router(Web!AssetRoutes, {"assets"})
  /\ Router(Web!DashboardRoutes, {"dashboard"})
  /\ Router(Web!OwnUserRoutes, {"users"})
  /\ Router(Web!UserRoutes, {"users"})
  /\ Router(Web!WorkOrderRequestRoutes, {"work-order-requests"})
  /\ Router(Web!InventoryRoutes, {"inventory"})
  /\ Router(Web!MeterRoutes, {"meters"})
  /\ Router(Web!RecurringTaskRoutes, {"recurring-tasks"})
  /\ Router(Web!ReorderRoutes, {"reorders"})
  /\ Router(Web!ReportRoutes, {"reports"})
  /\ Router(Web!TaskCommentRoutes, {"tasks"})
  /\ Router(Web!OwnTaskRoutes, {"tasks"})
  /\ Router(Web!ChecklistTemplateRoutes, {"checklist-templates"})
  /\ Router(Web!NotificationRoutes, {"notifications"})
<1>1. Router(Web!AuthRoutes, {"auth"})
  <2>1. Statuses(Web!AuthRoutes)
    BY DEF Statuses, Web!AuthRoutes, Web!AuthController, Web!Route, Web!Limited
  <2>2. Below(Web!AuthRoutes, {"auth"})
    BY AuthRows DEF Below, Row
  <2>3. Ordered(Web!AuthRoutes)
    BY Z3T(60), AuthRows, Matched DEF Ordered, Row, Web!Parameters
  <2>. QED
    BY <2>1, <2>2, <2>3 DEF Router
<1>2. Router(Web!AssetRoutes, {"assets"})
  <2>1. Statuses(Web!AssetRoutes)
    BY DEF Statuses, Web!AssetRoutes, Web!AssetsController, Web!Route
  <2>2. Below(Web!AssetRoutes, {"assets"})
    BY AssetRows DEF Below, Row
  <2>3. Ordered(Web!AssetRoutes)
    BY Z3T(60), AssetRows, Matched DEF Ordered, Row, Web!Parameters
  <2>. QED
    BY <2>1, <2>2, <2>3 DEF Router
<1>3. Router(Web!DashboardRoutes, {"dashboard"})
  <2>1. Statuses(Web!DashboardRoutes)
    BY DEF Statuses, Web!DashboardRoutes, Web!DashboardController, Web!Route
  <2>2. Below(Web!DashboardRoutes, {"dashboard"})
    BY DashboardRows DEF Below, Row
  <2>3. Ordered(Web!DashboardRoutes)
    BY Z3T(60), DashboardRows, Matched DEF Ordered, Row, Web!Parameters
  <2>. QED
    BY <2>1, <2>2, <2>3 DEF Router
<1>4. Router(Web!OwnUserRoutes, {"users"})
  <2>1. Statuses(Web!OwnUserRoutes)
    BY DEF Statuses, Web!OwnUserRoutes, Web!UsersController, Web!Route
  <2>2. Below(Web!OwnUserRoutes, {"users"})
    BY OwnUserRows DEF Below, Row
  <2>3. Ordered(Web!OwnUserRoutes)
    BY Z3T(60), OwnUserRows, Matched DEF Ordered, Row, Web!Parameters
  <2>. QED
    BY <2>1, <2>2, <2>3 DEF Router
<1>5. Router(Web!UserRoutes, {"users"})
  <2>1. Statuses(Web!UserRoutes)
    BY DEF Statuses, Web!UserRoutes, Web!UsersController, Web!Route
  <2>2. Below(Web!UserRoutes, {"users"})
    BY UserRows DEF Below, Row
  <2>3. Ordered(Web!UserRoutes)
    BY Z3T(60), UserRows, Matched DEF Ordered, Row, Web!Parameters
  <2>. QED
    BY <2>1, <2>2, <2>3 DEF Router
<1>6. Router(Web!WorkOrderRequestRoutes, {"work-order-requests"})
  <2>1. Statuses(Web!WorkOrderRequestRoutes)
    BY DEF Statuses, Web!WorkOrderRequestRoutes, Web!WorkOrderRequestsController, Web!Route
  <2>2. Below(Web!WorkOrderRequestRoutes, {"work-order-requests"})
    BY WorkOrderRequestRows DEF Below, Row
  <2>3. Ordered(Web!WorkOrderRequestRoutes)
    BY Z3T(60), WorkOrderRequestRows, Matched DEF Ordered, Row, Web!Parameters
  <2>. QED
    BY <2>1, <2>2, <2>3 DEF Router
<1>7. Router(Web!InventoryRoutes, {"inventory"})
  <2>1. Statuses(Web!InventoryRoutes)
    BY DEF Statuses, Web!InventoryRoutes, Web!InventoryController, Web!Route
  <2>2. Below(Web!InventoryRoutes, {"inventory"})
    BY InventoryRows DEF Below, Row
  <2>3. Ordered(Web!InventoryRoutes)
    BY Z3T(60), InventoryRows, Matched DEF Ordered, Row, Web!Parameters
  <2>. QED
    BY <2>1, <2>2, <2>3 DEF Router
<1>8. Router(Web!MeterRoutes, {"meters"})
  <2>1. Statuses(Web!MeterRoutes)
    BY DEF Statuses, Web!MeterRoutes, Web!MetersController, Web!Route
  <2>2. Below(Web!MeterRoutes, {"meters"})
    BY MeterRows DEF Below, Row
  <2>3. Ordered(Web!MeterRoutes)
    BY Z3T(60), MeterRows, Matched DEF Ordered, Row, Web!Parameters
  <2>. QED
    BY <2>1, <2>2, <2>3 DEF Router
<1>9. Router(Web!RecurringTaskRoutes, {"recurring-tasks"})
  <2>1. Statuses(Web!RecurringTaskRoutes)
    BY DEF Statuses, Web!RecurringTaskRoutes, Web!RecurringTasksController, Web!Route
  <2>2. Below(Web!RecurringTaskRoutes, {"recurring-tasks"})
    BY RecurringTaskRows DEF Below, Row
  <2>3. Ordered(Web!RecurringTaskRoutes)
    BY Z3T(60), RecurringTaskRows, Matched DEF Ordered, Row, Web!Parameters
  <2>. QED
    BY <2>1, <2>2, <2>3 DEF Router
<1>10. Router(Web!ReorderRoutes, {"reorders"})
  <2>1. Statuses(Web!ReorderRoutes)
    BY DEF Statuses, Web!ReorderRoutes, Web!ReordersController, Web!Route
  <2>2. Below(Web!ReorderRoutes, {"reorders"})
    BY ReorderRows DEF Below, Row
  <2>3. Ordered(Web!ReorderRoutes)
    BY Z3T(60), ReorderRows, Matched DEF Ordered, Row, Web!Parameters
  <2>. QED
    BY <2>1, <2>2, <2>3 DEF Router
<1>11. Router(Web!ReportRoutes, {"reports"})
  <2>1. Statuses(Web!ReportRoutes)
    BY DEF Statuses, Web!ReportRoutes, Web!ReportsController, Web!Route
  <2>2. Below(Web!ReportRoutes, {"reports"})
    BY ReportRows DEF Below, Row
  <2>3. Ordered(Web!ReportRoutes)
    BY Z3T(60), ReportRows, Matched DEF Ordered, Row, Web!Parameters
  <2>. QED
    BY <2>1, <2>2, <2>3 DEF Router
<1>12. Router(Web!TaskCommentRoutes, {"tasks"})
  <2>1. Statuses(Web!TaskCommentRoutes)
    BY DEF Statuses, Web!TaskCommentRoutes, Web!TaskCommentsController, Web!Route
  <2>2. Below(Web!TaskCommentRoutes, {"tasks"})
    BY TaskCommentRows DEF Below, Row
  <2>3. Ordered(Web!TaskCommentRoutes)
    BY Z3T(60), TaskCommentRows, Matched DEF Ordered, Row, Web!Parameters
  <2>. QED
    BY <2>1, <2>2, <2>3 DEF Router
<1>13. Router(Web!OwnTaskRoutes, {"tasks"})
  <2>1. Statuses(Web!OwnTaskRoutes)
    BY DEF Statuses, Web!OwnTaskRoutes, Web!TasksController, Web!Route
  <2>2. Below(Web!OwnTaskRoutes, {"tasks"})
    BY OwnTaskRows DEF Below, Row
  <2>3. Ordered(Web!OwnTaskRoutes)
    BY Z3T(60), OwnTaskRows, Matched DEF Ordered, Row, Web!Parameters
  <2>. QED
    BY <2>1, <2>2, <2>3 DEF Router
<1>14. Router(Web!ChecklistTemplateRoutes, {"checklist-templates"})
  <2>1. Statuses(Web!ChecklistTemplateRoutes)
    BY DEF Statuses, Web!ChecklistTemplateRoutes, Web!ChecklistTemplatesController, Web!Route
  <2>2. Below(Web!ChecklistTemplateRoutes, {"checklist-templates"})
    BY ChecklistTemplateRows DEF Below, Row
  <2>3. Ordered(Web!ChecklistTemplateRoutes)
    BY Z3T(60), ChecklistTemplateRows, Matched DEF Ordered, Row, Web!Parameters
  <2>. QED
    BY <2>1, <2>2, <2>3 DEF Router
<1>15. Router(Web!NotificationRoutes, {"notifications"})
  <2>1. Statuses(Web!NotificationRoutes)
    BY DEF Statuses, Web!NotificationRoutes, Web!NotificationsController, Web!Route
  <2>2. Below(Web!NotificationRoutes, {"notifications"})
    BY NotificationRows DEF Below, Row
  <2>3. Ordered(Web!NotificationRoutes)
    BY Z3T(60), NotificationRows, Matched DEF Ordered, Row, Web!Parameters
  <2>. QED
    BY <2>1, <2>2, <2>3 DEF Router
<1>. QED
  BY <1>1, <1>2, <1>3, <1>4, <1>5, <1>6, <1>7, <1>8, <1>9, <1>10, <1>11, <1>12, <1>13, <1>14,
     <1>15

(* The routes of one's own account miss what is meant for an id, and those *)
(* of a task what is meant for its comments.                               *)
LEMMA ApartBelow ==
  Missed(Web!OwnUserRoutes, Web!UserRoutes) /\ Missed(Web!OwnTaskRoutes, Web!TaskCommentRoutes)
<1>1. Missed(Web!OwnUserRoutes, Web!UserRoutes)
  BY Z3T(60), OwnUserRows, UserRows, Matched DEF Missed, Row, Web!Parameters
<1>2. Missed(Web!OwnTaskRoutes, Web!TaskCommentRoutes)
  BY Z3T(60), OwnTaskRows, TaskCommentRows, Matched DEF Missed, Row, Web!Parameters
<1>. QED
  BY <1>1, <1>2

(* As app.ts mounts them: no route of the API takes what is meant for      *)
(* another, and each is there.                                             *)
LEMMA Mounted ==
  /\ Statuses(Web!Routes) /\ Ordered(Web!Routes)
  /\ \A k \in 1 .. Len(Web!Routes) : Len(Web!Routes[k].path) \in Nat \ {0}
  /\ \A d : \/ Declares(Web!AuthRoutes, d) \/ Declares(Web!AssetRoutes, d)
          \/ Declares(Web!DashboardRoutes, d) \/ Declares(Web!OwnUserRoutes, d)
          \/ Declares(Web!UserRoutes, d) \/ Declares(Web!WorkOrderRequestRoutes, d)
          \/ Declares(Web!InventoryRoutes, d) \/ Declares(Web!MeterRoutes, d)
          \/ Declares(Web!RecurringTaskRoutes, d) \/ Declares(Web!ReorderRoutes, d)
          \/ Declares(Web!ReportRoutes, d) \/ Declares(Web!TaskCommentRoutes, d)
          \/ Declares(Web!OwnTaskRoutes, d) \/ Declares(Web!ChecklistTemplateRoutes, d)
          \/ Declares(Web!NotificationRoutes, d)
         => Declares(Web!Routes, d)
<1>0. Router(Web!TaskRoutes, {"tasks"})
      /\ \A d : Declares(Web!OwnTaskRoutes, d) \/ Declares(Web!TaskCommentRoutes, d)
                => Declares(Web!TaskRoutes, d)
  <2>1. {"tasks"} \cup {"tasks"} = {"tasks"}
    OBVIOUS
  <2>2. /\ Router(Web!OwnTaskRoutes \o Web!TaskCommentRoutes, {"tasks"} \cup {"tasks"})
        /\ \A d : Declares(Web!OwnTaskRoutes, d) \/ Declares(Web!TaskCommentRoutes, d)
                  => Declares(Web!OwnTaskRoutes \o Web!TaskCommentRoutes, d)
    BY Routers, ApartBelow, Joined
  <2>. QED
    BY <2>1, <2>2 DEF Web!TaskRoutes
<1>. DEFINE P1 == Web!AuthRoutes  W1 == {"auth"}
            P2 == P1 \o Web!AssetRoutes  W2 == W1 \cup {"assets"}
            P3 == P2 \o Web!DashboardRoutes  W3 == W2 \cup {"dashboard"}
            P4 == P3 \o Web!OwnUserRoutes  W4 == W3 \cup {"users"}
            P5 == P4 \o Web!UserRoutes  W5 == W4 \cup {"users"}
            P6 == P5 \o Web!WorkOrderRequestRoutes  W6 == W5 \cup {"work-order-requests"}
            P7 == P6 \o Web!InventoryRoutes  W7 == W6 \cup {"inventory"}
            P8 == P7 \o Web!MeterRoutes  W8 == W7 \cup {"meters"}
            P9 == P8 \o Web!RecurringTaskRoutes  W9 == W8 \cup {"recurring-tasks"}
            P10 == P9 \o Web!ReorderRoutes  W10 == W9 \cup {"reorders"}
            P11 == P10 \o Web!ReportRoutes  W11 == W10 \cup {"reports"}
            P12 == P11 \o Web!TaskRoutes  W12 == W11 \cup {"tasks"}
            P13 == P12 \o Web!ChecklistTemplateRoutes  W13 == W12 \cup {"checklist-templates"}
            P14 == P13 \o Web!NotificationRoutes  W14 == W13 \cup {"notifications"}
<1>2. /\ Router(P2, W2)
      /\ \A d : Declares(P1, d) \/ Declares(Web!AssetRoutes, d) => Declares(P2, d)
  <2>1. W1 \cap ({"assets"} \cup Web!Parameters) = {}
    BY DEF Web!Parameters
  <2>2. Router(P1, W1) /\ Router(Web!AssetRoutes, {"assets"})
    BY Routers
  <2>. HIDE DEF P1, W1
  <2>3. Missed(P1, Web!AssetRoutes)
    BY <2>1, <2>2, MissedBelow
  <2>. QED
    BY <2>2, <2>3, Joined
<1>3. /\ Router(P3, W3)
      /\ \A d : Declares(P2, d) \/ Declares(Web!DashboardRoutes, d) => Declares(P3, d)
  <2>1. W2 \cap ({"dashboard"} \cup Web!Parameters) = {}
    BY DEF Web!Parameters
  <2>2. Router(P2, W2) /\ Router(Web!DashboardRoutes, {"dashboard"})
    BY <1>2, Routers
  <2>. HIDE DEF P2, W2
  <2>3. Missed(P2, Web!DashboardRoutes)
    BY <2>1, <2>2, MissedBelow
  <2>. QED
    BY <2>2, <2>3, Joined
<1>4. /\ Router(P4, W4)
      /\ \A d : Declares(P3, d) \/ Declares(Web!OwnUserRoutes, d) => Declares(P4, d)
  <2>1. W3 \cap ({"users"} \cup Web!Parameters) = {}
    BY DEF Web!Parameters
  <2>2. Router(P3, W3) /\ Router(Web!OwnUserRoutes, {"users"})
    BY <1>3, Routers
  <2>. HIDE DEF P3, W3
  <2>3. Missed(P3, Web!OwnUserRoutes)
    BY <2>1, <2>2, MissedBelow
  <2>. QED
    BY <2>2, <2>3, Joined
<1>5. /\ Router(P5, W5)
      /\ \A d : Declares(P4, d) \/ Declares(Web!UserRoutes, d) => Declares(P5, d)
  <2>1. W3 \cap ({"users"} \cup Web!Parameters) = {}
    BY DEF Web!Parameters
  <2>2. /\ Router(P3, W3) /\ Router(Web!UserRoutes, {"users"}) /\ Router(P4, W4)
        /\ Statuses(P3) /\ Statuses(Web!OwnUserRoutes)
    BY <1>3, <1>4, Routers DEF Router
  <2>. HIDE DEF P3, W3, W4
  <2>3. Missed(P3, Web!UserRoutes)
    BY <2>1, <2>2, MissedBelow
  <2>4. Missed(P4, Web!UserRoutes)
    BY <2>2, <2>3, ApartBelow, MissedJoined
  <2>. HIDE DEF P4
  <2>. QED
    BY <2>2, <2>4, Joined
<1>6. /\ Router(P6, W6)
      /\ \A d : Declares(P5, d) \/ Declares(Web!WorkOrderRequestRoutes, d) => Declares(P6, d)
  <2>1. W5 \cap ({"work-order-requests"} \cup Web!Parameters) = {}
    BY DEF Web!Parameters
  <2>2. Router(P5, W5) /\ Router(Web!WorkOrderRequestRoutes, {"work-order-requests"})
    BY <1>5, Routers
  <2>. HIDE DEF P5, W5
  <2>3. Missed(P5, Web!WorkOrderRequestRoutes)
    BY <2>1, <2>2, MissedBelow
  <2>. QED
    BY <2>2, <2>3, Joined
<1>7. /\ Router(P7, W7)
      /\ \A d : Declares(P6, d) \/ Declares(Web!InventoryRoutes, d) => Declares(P7, d)
  <2>1. W6 \cap ({"inventory"} \cup Web!Parameters) = {}
    BY DEF Web!Parameters
  <2>2. Router(P6, W6) /\ Router(Web!InventoryRoutes, {"inventory"})
    BY <1>6, Routers
  <2>. HIDE DEF P6, W6
  <2>3. Missed(P6, Web!InventoryRoutes)
    BY <2>1, <2>2, MissedBelow
  <2>. QED
    BY <2>2, <2>3, Joined
<1>8. /\ Router(P8, W8)
      /\ \A d : Declares(P7, d) \/ Declares(Web!MeterRoutes, d) => Declares(P8, d)
  <2>1. W7 \cap ({"meters"} \cup Web!Parameters) = {}
    BY DEF Web!Parameters
  <2>2. Router(P7, W7) /\ Router(Web!MeterRoutes, {"meters"})
    BY <1>7, Routers
  <2>. HIDE DEF P7, W7
  <2>3. Missed(P7, Web!MeterRoutes)
    BY <2>1, <2>2, MissedBelow
  <2>. QED
    BY <2>2, <2>3, Joined
<1>9. /\ Router(P9, W9)
      /\ \A d : Declares(P8, d) \/ Declares(Web!RecurringTaskRoutes, d) => Declares(P9, d)
  <2>1. W8 \cap ({"recurring-tasks"} \cup Web!Parameters) = {}
    BY DEF Web!Parameters
  <2>2. Router(P8, W8) /\ Router(Web!RecurringTaskRoutes, {"recurring-tasks"})
    BY <1>8, Routers
  <2>. HIDE DEF P8, W8
  <2>3. Missed(P8, Web!RecurringTaskRoutes)
    BY <2>1, <2>2, MissedBelow
  <2>. QED
    BY <2>2, <2>3, Joined
<1>10. /\ Router(P10, W10)
       /\ \A d : Declares(P9, d) \/ Declares(Web!ReorderRoutes, d) => Declares(P10, d)
  <2>1. W9 \cap ({"reorders"} \cup Web!Parameters) = {}
    BY DEF Web!Parameters
  <2>2. Router(P9, W9) /\ Router(Web!ReorderRoutes, {"reorders"})
    BY <1>9, Routers
  <2>. HIDE DEF P9, W9
  <2>3. Missed(P9, Web!ReorderRoutes)
    BY <2>1, <2>2, MissedBelow
  <2>. QED
    BY <2>2, <2>3, Joined
<1>11. /\ Router(P11, W11)
       /\ \A d : Declares(P10, d) \/ Declares(Web!ReportRoutes, d) => Declares(P11, d)
  <2>1. W10 \cap ({"reports"} \cup Web!Parameters) = {}
    BY DEF Web!Parameters
  <2>2. Router(P10, W10) /\ Router(Web!ReportRoutes, {"reports"})
    BY <1>10, Routers
  <2>. HIDE DEF P10, W10
  <2>3. Missed(P10, Web!ReportRoutes)
    BY <2>1, <2>2, MissedBelow
  <2>. QED
    BY <2>2, <2>3, Joined
<1>12. /\ Router(P12, W12)
       /\ \A d : Declares(P11, d) \/ Declares(Web!TaskRoutes, d) => Declares(P12, d)
  <2>1. W11 \cap ({"tasks"} \cup Web!Parameters) = {}
    BY DEF Web!Parameters
  <2>2. Router(P11, W11) /\ Router(Web!TaskRoutes, {"tasks"})
    BY <1>0, <1>11
  <2>. HIDE DEF P11, W11
  <2>3. Missed(P11, Web!TaskRoutes)
    BY <2>1, <2>2, MissedBelow
  <2>. QED
    BY <2>2, <2>3, Joined
<1>13. /\ Router(P13, W13)
       /\ \A d : Declares(P12, d) \/ Declares(Web!ChecklistTemplateRoutes, d) => Declares(P13, d)
  <2>1. W12 \cap ({"checklist-templates"} \cup Web!Parameters) = {}
    BY DEF Web!Parameters
  <2>2. Router(P12, W12) /\ Router(Web!ChecklistTemplateRoutes, {"checklist-templates"})
    BY <1>12, Routers
  <2>. HIDE DEF P12, W12
  <2>3. Missed(P12, Web!ChecklistTemplateRoutes)
    BY <2>1, <2>2, MissedBelow
  <2>. QED
    BY <2>2, <2>3, Joined
<1>14. /\ Router(P14, W14)
       /\ \A d : Declares(P13, d) \/ Declares(Web!NotificationRoutes, d) => Declares(P14, d)
  <2>1. W13 \cap ({"notifications"} \cup Web!Parameters) = {}
    BY DEF Web!Parameters
  <2>2. Router(P13, W13) /\ Router(Web!NotificationRoutes, {"notifications"})
    BY <1>13, Routers
  <2>. HIDE DEF P13, W13
  <2>3. Missed(P13, Web!NotificationRoutes)
    BY <2>1, <2>2, MissedBelow
  <2>. QED
    BY <2>2, <2>3, Joined
<1>15. P14 = Web!Routes
  BY DEF Web!Routes
<1>. HIDE DEF P1, P2, P3, P4, P5, P6, P7, P8, P9, P10, P11, P12, P13, P14,
              W1, W2, W3, W4, W5, W6, W7, W8, W9, W10, W11, W12, W13, W14
<1>. QED
  BY <1>0, <1>2, <1>3, <1>4, <1>5, <1>6, <1>7, <1>8, <1>9, <1>10, <1>11, <1>12, <1>13, <1>14,
     <1>15 DEF P1, Router, Below

(* Every operation of the document is declared.                            *)
LEMMA Audiences ==
  /\ Web!AnyRole = Web!Roles /\ Web!ManagerRoles = Web!Managers
  /\ Web!AdminRole = Web!Admins /\ Web!Everyone = Web!Anyone
BY DEF Web!AnyRole, Web!Roles, Web!ManagerRoles, Web!Managers, Web!AdminRole, Web!Admins,
       Web!Everyone, Web!Anyone

LEMMA Declared == \A d \in Web!Docs : Declares(Web!Routes, d)
<1>1. \A d \in Web!AuthDocs : Declares(Web!AuthRoutes, d)
  BY Audiences DEF Declares, Web!AuthDocs, Web!Doc, Web!AuthRoutes, Web!AuthController,
           Web!Route, Web!Limited
<1>2. \A d \in Web!AssetDocs : Declares(Web!AssetRoutes, d)
  BY Audiences DEF Declares, Web!AssetDocs, Web!Doc, Web!AssetRoutes, Web!AssetsController,
           Web!Route
<1>3. \A d \in Web!AssetChangeDocs : Declares(Web!AssetRoutes, d)
  BY Audiences DEF Declares, Web!AssetChangeDocs, Web!Doc, Web!AssetRoutes, Web!AssetsController,
           Web!Route
<1>4. \A d \in Web!ChecklistTemplateDocs : Declares(Web!ChecklistTemplateRoutes, d)
  BY Audiences DEF Declares, Web!ChecklistTemplateDocs, Web!Doc, Web!ChecklistTemplateRoutes,
           Web!ChecklistTemplatesController, Web!Route
<1>5. \A d \in Web!DashboardDocs : Declares(Web!DashboardRoutes, d)
  BY Audiences DEF Declares, Web!DashboardDocs, Web!Doc, Web!DashboardRoutes,
           Web!DashboardController, Web!Route
<1>6. \A d \in Web!InventoryDocs : Declares(Web!InventoryRoutes, d)
  BY Audiences DEF Declares, Web!InventoryDocs, Web!Doc, Web!InventoryRoutes,
           Web!InventoryController, Web!Route
<1>7. \A d \in Web!InventoryChangeDocs : Declares(Web!InventoryRoutes, d)
  BY Audiences DEF Declares, Web!InventoryChangeDocs, Web!Doc, Web!InventoryRoutes,
           Web!InventoryController, Web!Route
<1>8. \A d \in Web!MeterDocs : Declares(Web!MeterRoutes, d)
  BY Audiences DEF Declares, Web!MeterDocs, Web!Doc, Web!MeterRoutes, Web!MetersController,
           Web!Route
<1>9. \A d \in Web!NotificationDocs : Declares(Web!NotificationRoutes, d)
  BY Audiences DEF Declares, Web!NotificationDocs, Web!Doc, Web!NotificationRoutes,
           Web!NotificationsController, Web!Route
<1>10. \A d \in Web!RecurringTaskDocs : Declares(Web!RecurringTaskRoutes, d)
  BY Audiences DEF Declares, Web!RecurringTaskDocs, Web!Doc, Web!RecurringTaskRoutes,
           Web!RecurringTasksController, Web!Route
<1>11. \A d \in Web!ReorderDocs : Declares(Web!ReorderRoutes, d)
  BY Audiences DEF Declares, Web!ReorderDocs, Web!Doc, Web!ReorderRoutes, Web!ReordersController,
           Web!Route
<1>12. \A d \in Web!ReportDocs : Declares(Web!ReportRoutes, d)
  BY Audiences DEF Declares, Web!ReportDocs, Web!Doc, Web!ReportRoutes, Web!ReportsController,
           Web!Route
<1>13. \A d \in Web!TaskCommentDocs : Declares(Web!TaskCommentRoutes, d)
  BY Audiences DEF Declares, Web!TaskCommentDocs, Web!Doc, Web!TaskCommentRoutes,
           Web!TaskCommentsController, Web!Route
<1>14. \A d \in Web!TaskDocs : Declares(Web!OwnTaskRoutes, d)
  BY Audiences DEF Declares, Web!TaskDocs, Web!Doc, Web!OwnTaskRoutes, Web!TasksController,
           Web!Route
<1>15. \A d \in Web!TaskClosingDocs : Declares(Web!OwnTaskRoutes, d)
  BY Audiences DEF Declares, Web!TaskClosingDocs, Web!Doc, Web!OwnTaskRoutes, Web!TasksController,
           Web!Route
<1>16. \A d \in Web!UserDocs : Declares(Web!OwnUserRoutes, d) \/ Declares(Web!UserRoutes, d)
  <2>. DEFINE Own == {d \in Web!UserDocs : d.path \in {<<"users">>, <<"users", "me">>}}
  <2>1. \A d \in Own : Declares(Web!OwnUserRoutes, d)
    BY Audiences DEF Declares, Web!UserDocs, Web!Doc, Web!OwnUserRoutes, Web!UsersController,
                     Web!Route
  <2>2. \A d \in Web!UserDocs \ Own : Declares(Web!UserRoutes, d)
    BY Audiences DEF Declares, Web!UserDocs, Web!Doc, Web!UserRoutes, Web!UsersController,
                     Web!Route
  <2>. QED
    BY <2>1, <2>2
<1>17. \A d \in Web!InviteDocs : Declares(Web!OwnUserRoutes, d) \/ Declares(Web!UserRoutes, d)
  <2>. DEFINE Own == {d \in Web!InviteDocs : d.path \in {<<"users", "pending-invites">>}}
  <2>1. \A d \in Own : Declares(Web!OwnUserRoutes, d)
    BY Audiences DEF Declares, Web!InviteDocs, Web!Doc, Web!OwnUserRoutes, Web!UsersController,
                     Web!Route
  <2>2. \A d \in Web!InviteDocs \ Own : Declares(Web!UserRoutes, d)
    BY Audiences DEF Declares, Web!InviteDocs, Web!Doc, Web!UserRoutes, Web!UsersController,
                     Web!Route
  <2>. QED
    BY <2>1, <2>2
<1>18. \A d \in Web!OwnAccountDocs : Declares(Web!OwnUserRoutes, d)
  BY Audiences DEF Declares, Web!OwnAccountDocs, Web!Doc, Web!OwnUserRoutes, Web!UsersController,
           Web!Route
<1>19. \A d \in Web!WorkOrderRequestDocs : Declares(Web!WorkOrderRequestRoutes, d)
  BY Audiences DEF Declares, Web!WorkOrderRequestDocs, Web!Doc, Web!WorkOrderRequestRoutes,
           Web!WorkOrderRequestsController, Web!Route
<1>. QED
  BY <1>1, <1>2, <1>3, <1>4, <1>5, <1>6, <1>7, <1>8, <1>9, <1>10, <1>11, <1>12, <1>13, <1>14,
     <1>15, <1>16, <1>17, <1>18, <1>19, Mounted DEF Web!Docs

(* The route a request is dispatched to is one of the table, or none.      *)
LEMMA DispatchedRoute ==
  ASSUME NEW request
  PROVE  Web!Dispatched(request) \in 0 .. Len(Web!Routes)
<1>. DEFINE matching == {i \in 1 .. Len(Web!Routes) : Web!Matches(Web!Routes[i], request)}
<1>0. Len(Web!Routes) \in Nat
  BY Mounted DEF Statuses
<1>1. CASE matching = {}
  BY <1>0, <1>1 DEF Web!Dispatched
<1>2. CASE matching # {}
  <2>0. matching \subseteq Nat
    BY <1>0
  <2>1. \E i \in matching : \A j \in matching : i <= j
    <3>. HIDE DEF matching
    <3>. QED
      BY <1>2, <2>0, LeastNumber
  <2>2. (CHOOSE i \in matching : \A j \in matching : i <= j) \in matching
    BY <2>1
  <2>. QED
    BY <1>0, <1>2, <2>2 DEF Web!Dispatched
<1>. QED
  BY <1>1, <1>2

ProcessTypes ==
  /\ phase     \in {"down", "up", "closing", "disconnecting"}
  /\ exit      \in {0, 1, Null}
  /\ pending   \subseteq Services
  /\ scheduled \subseteq DailyJobs /\ running \subseteq DailyJobs
  /\ connected \subseteq Visitors /\ stray \subseteq Visitors
  /\ cut \subseteq Visitors /\ starved \subseteq DailyJobs

HitTypes  == hits \in [Visitors -> [general : 0 .. MaxGeneral + 1, auth : 0 .. MaxAuth + 1]]
SlotTypes == slot \in [Visitors -> Web!Slotted]
Connected == \A c \in Visitors : slot[c] # Web!Idle => c \in connected

WebTypes == ProcessTypes /\ HitTypes /\ SlotTypes /\ Connected

LEMMA WebTypesSuffice == WebTypes => Web!TypeOK
BY DEF WebTypes, ProcessTypes, HitTypes, SlotTypes, Connected, Web!TypeOK

LEMMA InitWebTypes == Web!Init => WebTypes
BY LimitsAssumption DEF Web!Init, WebTypes, ProcessTypes, HitTypes, SlotTypes, Connected, Web!Slotted

(* What a client's request is, by where it has got to.                     *)
LEMMA WebShapes ==
  ASSUME SlotTypes, NEW c \in Visitors
  PROVE  /\ slot[c].pc = "reading" => slot[c] \in Web!Reading
         /\ slot[c].pc = "handling" => slot[c] \in Web!Handling
         /\ Web!InFlight(c) => slot[c] # Web!Idle
BY DEF SlotTypes, Web!Slotted, Web!Idle, Web!Reading, Web!Handling, Web!Answered, Web!InFlight

(* The end of a process, however it comes.                                 *)
LEMMA ExitTypes ==
  ASSUME WebTypes, NEW code \in {0, 1}, Web!Exit(code)
  PROVE  WebTypes'
<1>1. ProcessTypes' /\ SlotTypes' /\ Connected'
  BY DEF WebTypes, ProcessTypes, SlotTypes, Connected, Web!Exit, Web!Slotted
<1>2. HitTypes'
  BY LimitsAssumption DEF HitTypes, Web!Exit
<1>. QED
  BY <1>1, <1>2 DEF WebTypes

LEMMA ProcessSteps ==
  ASSUME WebTypes, Web!Process
  PROVE  WebTypes'
<1>1. CASE Web!Start
  BY <1>1 DEF WebTypes, ProcessTypes, HitTypes, SlotTypes, Connected, Web!Start
<1>2. CASE Web!Shutdown
  <2>1. \A c \in Visitors : slot'[c] = IF Web!InFlight(c) THEN slot[c] ELSE Web!Idle
    BY <1>2 DEF Web!Shutdown
  <2>2. \A c \in Visitors : Web!InFlight(c) => c \in connected
    BY WebShapes DEF WebTypes, Connected
  <2>3. SlotTypes' /\ Connected'
    BY <1>2, <2>1, <2>2 DEF WebTypes, SlotTypes, Connected, Web!Shutdown, Web!Slotted
  <2>. QED
    BY <1>2, <2>3 DEF WebTypes, ProcessTypes, HitTypes, Web!Shutdown, Web!histories
<1>3. CASE Web!CloseServer
  BY <1>3 DEF WebTypes, ProcessTypes, HitTypes, SlotTypes, Connected, Web!CloseServer,
              Web!histories
<1>4. ASSUME NEW d \in Services, Web!Connect(d)
      PROVE  WebTypes'
  BY <1>4 DEF WebTypes, ProcessTypes, HitTypes, SlotTypes, Connected, Web!Connect, Web!histories
<1>5. ASSUME NEW j \in DailyJobs, Web!StartRun(j) \/ Web!EndRun(j)
      PROVE  WebTypes'
  BY <1>5 DEF WebTypes, ProcessTypes, HitTypes, SlotTypes, Connected, Web!StartRun, Web!EndRun,
              Web!histories
<1>6. CASE \/ Web!Crash \/ Web!Disconnect \/ Web!ForceExit
           \/ \E d \in Services : Web!ConnectFails(d)
  <2>1. \E code \in {0, 1} : Web!Exit(code)
    BY <1>6 DEF Web!Crash, Web!Disconnect, Web!ForceExit, Web!ConnectFails
  <2>. QED
    BY <2>1, ExitTypes
<1>. QED
  BY <1>1, <1>2, <1>3, <1>4, <1>5, <1>6 DEF Web!Process

(* What errorHandler answers.                                              *)
LEMMA ErrorStatuses ==
  /\ \A s \in Web!HttpErrors : Web!ErrorHandler([name |-> "HttpError", status |-> s]) \in 200 .. 500
  /\ \A s \in Web!AppErrors : Web!ErrorHandler(Web!AppError(s)) \in 200 .. 500
  /\ Web!ErrorHandler([name |-> "ZodError"]) \in 200 .. 500
  /\ \A e \in Web!HandlerErrors : Web!ErrorHandler(e) \in 200 .. 500
BY DEF Web!HttpErrors, Web!AppErrors, Web!AppError, Web!HandlerErrors, Web!ErrorHandler

LEMMA AnswerTypes ==
  ASSUME WebTypes, NEW c \in Visitors, slot[c].request \in AllRequests, c \in connected,
         UNCHANGED <<Web!process, connected, stray, Web!histories>>,
         NEW caller \in AllCallers \cup {Null}, NEW by \in Web!Refusers \cup {"handler"},
         NEW route \in 0 .. Len(Web!Routes), NEW status \in 200 .. 500,
         Web!Answer(c, caller, by, route, status)
  PROVE  ProcessTypes' /\ SlotTypes' /\ Connected'
<1>1. PICK answer \in Web!Answered : slot' = [slot EXCEPT ![c] = answer]
  <2>1. [pc |-> "answered", request |-> slot[c].request, caller |-> caller,
         by |-> by, route |-> route, status |-> status] \in Web!Answered
    BY DEF Web!Answered
  <2>. QED
    BY <2>1 DEF Web!Answer
<1>. QED
  BY <1>1 DEF WebTypes, ProcessTypes, SlotTypes, Connected, Web!Slotted, Web!process, Web!histories

(* From the router to the handler, whichever middleware answers.           *)
LEMMA DispatchTypes ==
  ASSUME WebTypes, NEW c \in Visitors, NEW caller \in AllCallers, Web!Dispatch(c, caller)
  PROVE  WebTypes'
<1>. DEFINE r == Web!Dispatched(slot[c].request)
<1>1. /\ slot[c] \in Web!Reading /\ slot[c].request \in AllRequests /\ c \in connected
      /\ UNCHANGED <<Web!process, connected, stray, Web!histories>>
  BY WebShapes DEF WebTypes, Connected, Web!Dispatch, Web!Reading, Web!Idle
<1>2. r \in 0 .. Len(Web!Routes)
  BY DispatchedRoute
<1>3. Web!ErrorHandler(Web!AppError(404)) \in 200 .. 500
      /\ Web!ErrorHandler(Web!AppError(401)) \in 200 .. 500
      /\ Web!ErrorHandler(Web!AppError(403)) \in 200 .. 500
  BY ErrorStatuses DEF Web!AppErrors
<1>4. HitTypes'
  <2>1. hits' = hits \/ (hits[c].auth <= MaxAuth /\ hits' = [hits EXCEPT ![c].auth = @ + 1])
    BY DEF Web!Dispatch
  <2>. QED
    BY <2>1, LimitsAssumption DEF WebTypes, HitTypes
<1>5. \/ \E by \in Web!Refusers, status \in 200 .. 500 : Web!Answer(c, caller, by, r, status)
      \/ /\ r # 0
         /\ slot' = [slot EXCEPT ![c] = [pc |-> "handling", route |-> r, caller |-> caller,
                                         request |-> slot[c].request]]
  <2>1. CASE r = 0
    BY <1>3, <2>1 DEF Web!Dispatch, Web!Refusers
  <2>2. CASE r # 0
    <3>. DEFINE zod == Web!ErrorHandler([name |-> "ZodError"])
    <3>1. \/ Web!Answer(c, caller, "authLimiter", r, 429)
          \/ Web!Answer(c, caller, "authenticate", r, Web!ErrorHandler(Web!AppError(401)))
          \/ Web!Answer(c, caller, "authorize", r, Web!ErrorHandler(Web!AppError(403)))
          \/ Web!Answer(c, caller, "validator", r, zod)
          \/ slot' = [slot EXCEPT ![c] = [pc |-> "handling", route |-> r, caller |-> caller,
                                          request |-> slot[c].request]]
      BY <2>2, Zenon DEF Web!Dispatch
    <3>2. zod \in 200 .. 500
      BY ErrorStatuses
    <3>. HIDE DEF r, zod
    <3>. QED
      BY <1>3, <2>2, <3>1, <3>2 DEF Web!Refusers
  <2>. QED
    BY <2>1, <2>2
<1>6. ASSUME NEW by \in Web!Refusers, NEW status \in 200 .. 500,
             Web!Answer(c, caller, by, r, status)
      PROVE  ProcessTypes' /\ SlotTypes' /\ Connected'
  BY <1>1, <1>2, <1>6, AnswerTypes
<1>7. CASE /\ r # 0
           /\ slot' = [slot EXCEPT ![c] = [pc |-> "handling", route |-> r, caller |-> caller,
                                           request |-> slot[c].request]]
  <2>1. [pc |-> "handling", route |-> r, caller |-> caller, request |-> slot[c].request]
          \in Web!Handling
    BY <1>1, <1>2, <1>7, Mounted DEF Web!Handling, Statuses
  <2>. QED
    BY <1>1, <1>4, <1>7, <2>1 DEF WebTypes, ProcessTypes, SlotTypes, Connected, Web!Slotted,
                                  Web!process, Web!histories
<1>8. CASE \E by \in Web!Refusers, status \in 200 .. 500 : Web!Answer(c, caller, by, r, status)
  BY <1>4, <1>6, <1>8 DEF WebTypes
<1>. HIDE DEF r
<1>. QED
  BY <1>5, <1>7, <1>8

LEMMA ExchangeSteps ==
  ASSUME WebTypes, NEW c \in Visitors, Web!Exchange(c)
  PROVE  WebTypes'
<1>1. ASSUME NEW request \in AllRequests, Web!Arrive(c, request)
      PROVE  WebTypes'
  <2>1. PICK w \in Web!Reading \cup Web!Answered : slot' = [slot EXCEPT ![c] = w]
    <3>1. /\ [pc |-> "answered", request |-> request, caller |-> Null,
              by |-> "generalLimiter", route |-> 0, status |-> 429] \in Web!Answered
          /\ [pc |-> "reading", request |-> request] \in Web!Reading
      BY Mounted DEF Web!Answered, Web!Reading, Web!Refusers, Statuses
    <3>. QED
      BY <1>1, <3>1 DEF Web!Arrive
  <2>2. HitTypes'
    <3>1. PICK n \in 0 .. MaxGeneral + 1 : hits' = [hits EXCEPT ![c].general = n]
      <4>. DEFINE count == hits[c].general
                  after == IF count > MaxGeneral THEN count ELSE count + 1
      <4>1. count \in 0 .. MaxGeneral + 1
        BY DEF WebTypes, HitTypes
      <4>2. after \in 0 .. MaxGeneral + 1
        BY <4>1, LimitsAssumption
      <4>3. hits' = [hits EXCEPT ![c].general = after]
        BY <1>1 DEF Web!Arrive
      <4>. HIDE DEF after
      <4>. QED
        BY <4>2, <4>3
    <3>. QED
      BY <3>1 DEF WebTypes, HitTypes
  <2>3. connected' = connected \cup {c} /\ UNCHANGED <<Web!process, stray, Web!histories>>
    BY <1>1 DEF Web!Arrive
  <2>. QED
    BY <2>1, <2>2, <2>3 DEF WebTypes, ProcessTypes, SlotTypes, Connected, Web!Slotted,
                            Web!process, Web!histories
<1>2. CASE Web!RefuseBody(c)
  <2>1. slot[c] \in Web!Reading /\ slot[c].request \in AllRequests /\ c \in connected
    BY <1>2, WebShapes DEF WebTypes, Connected, Web!RefuseBody, Web!Reading, Web!Idle
  <2>2. /\ \E status \in 200 .. 500 : Web!Answer(c, Null, "body", 0, status)
        /\ UNCHANGED <<Web!process, connected, stray, Web!histories>> /\ hits' = hits
    BY <1>2, ErrorStatuses DEF Web!RefuseBody
  <2>3. "body" \in Web!Refusers \cup {"handler"} /\ 0 \in 0 .. Len(Web!Routes)
    BY Mounted DEF Web!Refusers, Statuses
  <2>4. ProcessTypes' /\ SlotTypes' /\ Connected'
    BY <2>1, <2>2, <2>3, AnswerTypes
  <2>. QED
    BY <2>2, <2>4 DEF WebTypes, HitTypes
<1>3. ASSUME NEW caller \in AllCallers, Web!Dispatch(c, caller)
      PROVE  WebTypes'
  BY <1>3, DispatchTypes
<1>4. CASE Web!Handle(c)
  <2>1. /\ slot[c] \in Web!Handling /\ slot[c].request \in AllRequests /\ c \in connected
        /\ slot[c].caller \in AllCallers /\ slot[c].route \in 1 .. Len(Web!Routes)
    BY <1>4, WebShapes DEF WebTypes, Connected, Web!Handle, Web!Handling, Web!Idle
  <2>2. Web!Routes[slot[c].route].status \in 200 .. 500 /\ slot[c].route \in 0 .. Len(Web!Routes)
    BY <2>1, Mounted DEF Statuses
  <2>3. /\ \E status \in 200 .. 500 :
             Web!Answer(c, slot[c].caller, "handler", slot[c].route, status)
        /\ UNCHANGED <<Web!process, connected, stray, Web!histories>> /\ hits' = hits
    <3>1. PICK status \in {Web!Routes[slot[c].route].status}
                              \cup {Web!ErrorHandler(e) : e \in Web!HandlerErrors} :
            Web!Answer(c, slot[c].caller, "handler", slot[c].route, status)
      BY <1>4 DEF Web!Handle
    <3>2. status \in 200 .. 500
      <4>1. CASE status = Web!Routes[slot[c].route].status
        BY <2>2, <4>1
      <4>2. CASE \E e \in Web!HandlerErrors : status = Web!ErrorHandler(e)
        BY <4>2, ErrorStatuses
      <4>. QED
        BY <4>1, <4>2
    <3>. QED
      BY <1>4, <3>1, <3>2 DEF Web!Handle
  <2>4. ProcessTypes' /\ SlotTypes' /\ Connected'
    BY <2>1, <2>2, <2>3, AnswerTypes
  <2>. QED
    BY <2>3, <2>4 DEF WebTypes, HitTypes
<1>5. CASE Web!HangUp(c) \/ Web!EndStray(c)
  <2>1. ProcessTypes' /\ HitTypes'
    BY <1>5 DEF WebTypes, ProcessTypes, HitTypes, Web!HangUp, Web!EndStray, Web!process,
                Web!histories
  <2>2. SlotTypes' /\ Connected'
    BY <1>5 DEF WebTypes, ProcessTypes, SlotTypes, Connected, Web!HangUp, Web!EndStray, Web!Slotted
  <2>. QED
    BY <2>1, <2>2 DEF WebTypes
<1>6. ASSUME NEW limiter \in {"general", "auth"}, Web!ResetWindow(c, limiter)
      PROVE  WebTypes'
  <2>1. HitTypes'
    BY <1>6, LimitsAssumption DEF WebTypes, HitTypes, Web!ResetWindow
  <2>. QED
    BY <1>6, <2>1 DEF WebTypes, ProcessTypes, SlotTypes, Connected, Web!ResetWindow,
                      Web!process, Web!histories
<1>. QED
  BY <1>1, <1>2, <1>3, <1>4, <1>5, <1>6 DEF Web!Exchange

LEMMA WebTypesStep ==
  ASSUME WebTypes, [Web!Next]_(Web!vars)
  PROVE  WebTypes'
<1>1. CASE UNCHANGED Web!vars
  BY <1>1 DEF WebTypes, ProcessTypes, HitTypes, SlotTypes, Connected, Web!vars, Web!process,
              Web!histories
<1>. QED
  BY <1>1, ProcessSteps, ExchangeSteps DEF Web!Next

(* The process, its connections and requests keep their types, and a       *)
(* client that waits for an answer has a connection: one that hung up      *)
(* waits no more, whatever still runs for it.                              *)
THEOREM WebTypeCorrect == Web!Spec => []Web!TypeOK
<1>1. WebTypes /\ [Web!Next]_(Web!vars) => WebTypes'
  BY WebTypesStep
<1>. QED
  BY InitWebTypes, WebTypesSuffice, <1>1, PTL DEF Web!Spec

(* Once it disconnects, the process has no connection and no job scheduled.*)
Drained  == phase = "disconnecting" => connected = {} /\ scheduled = {}
CleanInv == Drained /\ Web!CleanShutdown

LEMMA InitClean == Web!Init => CleanInv
BY DEF Web!Init, CleanInv, Drained, Web!CleanShutdown

LEMMA CleanStep ==
  ASSUME WebTypes, CleanInv, [Web!Next]_(Web!vars)
  PROVE  CleanInv'
<1>1. ASSUME NEW code \in {0, 1}, Web!Exit(code), code = 1 \/ phase = "disconnecting"
      PROVE  CleanInv'
  <2>1. code = 0 => \A c \in Visitors : ~Web!InFlight(c)
    BY <1>1, WebShapes DEF WebTypes, Connected, CleanInv, Drained
  <2>. QED
    BY <1>1, <2>1 DEF CleanInv, Drained, Web!CleanShutdown, Web!Exit
<1>2. CASE \/ Web!Crash \/ Web!Disconnect \/ Web!ForceExit
           \/ \E d \in Services : Web!ConnectFails(d)
  <2>1. \E code \in {0, 1} : Web!Exit(code) /\ (code = 1 \/ phase = "disconnecting")
    BY <1>2 DEF Web!Crash, Web!Disconnect, Web!ForceExit, Web!ConnectFails
  <2>. QED
    BY <1>1, <2>1
<1>3. CASE Web!Start \/ Web!Shutdown \/ Web!CloseServer
  BY <1>3 DEF CleanInv, Drained, Web!CleanShutdown, Web!Start, Web!Shutdown, Web!CloseServer,
              Web!histories
<1>4. ASSUME NEW d \in Services, Web!Connect(d)
      PROVE  CleanInv'
  BY <1>4 DEF CleanInv, Drained, Web!CleanShutdown, Web!Connect, Web!histories
<1>5. ASSUME NEW j \in DailyJobs, Web!StartRun(j) \/ Web!EndRun(j)
      PROVE  CleanInv'
  BY <1>5 DEF CleanInv, Drained, Web!CleanShutdown, Web!StartRun, Web!EndRun, Web!histories
<1>6. ASSUME NEW c \in Visitors, Web!Exchange(c)
      PROVE  CleanInv'
  <2>1. /\ UNCHANGED <<Web!process, Web!histories>>
        /\ phase = "disconnecting" => connected' \subseteq connected
    BY <1>6 DEF Web!Exchange, Web!Arrive, Web!RefuseBody, Web!Dispatch, Web!Handle, Web!HangUp, Web!EndStray,
                Web!ResetWindow
  <2>. QED
    BY <2>1 DEF CleanInv, Drained, Web!CleanShutdown, Web!process, Web!histories
<1>7. CASE UNCHANGED Web!vars
  BY <1>7 DEF CleanInv, Drained, Web!CleanShutdown, Web!vars, Web!process, Web!histories
<1>. QED
  BY <1>2, <1>3, <1>4, <1>5, <1>6, <1>7 DEF Web!Next, Web!Process

(* A process that exits with code 0 leaves no client waiting for an answer *)
(* to a request it began to serve, and no job starts once the database may *)
(* be gone.  The handler of a client that hung up may be cut off: the exit *)
(* waits for connections, not for handlers.                                *)
THEOREM ShutdownsAreClean == Web!Spec => []Web!CleanShutdown
<1>1. WebTypes /\ CleanInv /\ [Web!Next]_(Web!vars) => WebTypes' /\ CleanInv'
  BY WebTypesStep, CleanStep
<1>2. CleanInv => Web!CleanShutdown
  BY DEF CleanInv
<1>. QED
  BY InitWebTypes, InitClean, <1>1, <1>2, PTL DEF Web!Spec

(* The router takes a request for a documented operation to the route that *)
(* declares it.                                                            *)
LEMMA DispatchedDeclared ==
  ASSUME NEW d \in Web!Docs, NEW id \in [H!Parameters -> Ids],
         NEW r, r = Web!Dispatched(Request(d, id))
  PROVE  /\ r \in 1 .. Len(Web!Routes)
         /\ Web!Routes[r].path = d.path /\ Web!Routes[r].audience = d.audience
         /\ Web!Routes[r].status \in d.answers
         /\ Web!Routes[r].limited => 429 \in d.answers
<1>. DEFINE q == Request(d, id)
            matching == {i \in 1 .. Len(Web!Routes) : Web!Matches(Web!Routes[i], q)}
<1>1. PICK k \in 1 .. Len(Web!Routes) :
        /\ Web!Routes[k].method = d.method /\ Web!Routes[k].path = d.path
        /\ Web!Routes[k].audience = d.audience
        /\ Web!Routes[k].status \in d.answers
        /\ Web!Routes[k].limited => 429 \in d.answers
  BY Declared DEF Declares
<1>2. /\ Len(Web!Routes) \in Nat /\ Len(d.path) \in Nat
      /\ \A j \in 1 .. k - 1 : ~Web!Matches(Web!Routes[j], Web!Routes[k])
  BY <1>1, Mounted DEF Statuses, Ordered
<1>3. /\ q.method = d.method /\ Len(q.path) = Len(d.path)
      /\ \A i \in 1 .. Len(d.path) : q.path[i] = Segment(d.path[i], id)
  <2>1. q.path = [i \in 1 .. Len(d.path) |-> Segment(d.path[i], id)] /\ q.method = d.method
    BY DEF Request
  <2>. QED
    BY <1>2, <2>1
<1>4. H!Parameters = Web!Parameters
  BY DEF H!Parameters, Web!Parameters
<1>5. Web!Matches(Web!Routes[k], q)
  BY <1>1, <1>3, <1>4 DEF Web!Matches, Segment
<1>6. ASSUME NEW j \in 1 .. k - 1, Web!Matches(Web!Routes[j], q)
      PROVE  FALSE
  <2>1. Web!Routes[j].method = Web!Routes[k].method /\ Len(Web!Routes[j].path) = Len(d.path)
    BY <1>1, <1>3, <1>6 DEF Web!Matches
  <2>2. ASSUME NEW i \in 1 .. Len(d.path)
        PROVE  Web!Routes[j].path[i] \in Web!Parameters \cup {d.path[i]}
    <3>1. Web!Routes[j].path[i] \in Web!Parameters \cup {Segment(d.path[i], id)}
      BY <1>3, <1>6, <2>1 DEF Web!Matches
    <3>2. j \in 1 .. Len(Web!Routes)
      BY <1>2
    <3>3. Web!Routes[j].path[i] \notin Ids
      BY <2>1, <3>2, IdsAssumption
    <3>4. d.path[i] \in Web!Parameters => Segment(d.path[i], id) \in Ids
      BY <1>4 DEF Segment
    <3>. QED
      BY <1>4, <3>1, <3>3, <3>4 DEF Segment
  <2>. QED
    BY <1>1, <1>2, <2>1, <2>2 DEF Web!Matches
<1>7. k \in matching /\ \A j \in matching : k <= j
  BY <1>2, <1>5, <1>6
<1>8. (CHOOSE i \in matching : \A j \in matching : i <= j) = k
  <2>1. \A i \in matching : i \in Nat
    BY <1>2
  <2>. HIDE DEF matching
  <2>2. \A i \in matching : (\A j \in matching : i <= j) => i = k
    BY <1>7, <2>1
  <2>. QED
    BY <1>7, <2>2, Zenon
<1>9. r = k
  <2>1. matching # {}
    BY <1>7
  <2>. QED
    BY <1>8, <2>1 DEF Web!Dispatched
<1>. QED
  BY <1>1, <1>9

(* What the middleware has let through, and what it has refused.           *)
Passage(s) ==
  LET route  == Web!Routes[s.route]
      opened == "NOBODY" \in route.audience \/ s.caller \cap route.audience # {}
      passed == s.pc = "handling" \/ s.by \in {"validator", "handler"}
  IN /\ passed => s.route = Web!Dispatched(s.request) /\ s.route # 0 /\ opened
     /\ s.pc = "answered" =>
          /\ s.by = "router" => Web!Dispatched(s.request) = 0
          /\ s.by \in {"authLimiter", "authenticate", "authorize"} =>
               s.route = Web!Dispatched(s.request) /\ s.route # 0
          /\ s.by = "authLimiter" => route.limited
          /\ s.by \in {"authenticate", "authorize"} => s.caller \cap route.audience = {}
          /\ s.by = "handler" /\ s.status < 400 => s.status = route.status

PassageInv == \A c \in Visitors : slot[c].pc \in {"handling", "answered"} => Passage(slot[c])

LEMMA PassageApart ==
  ASSUME SlotTypes, PassageInv, NEW c \in Visitors, NEW w, slot' = [slot EXCEPT ![c] = w],
         w.pc \in {"handling", "answered"} => Passage(w)
  PROVE  PassageInv'
BY DEF SlotTypes, PassageInv

LEMMA HandlerErrorStatuses == \A e \in Web!HandlerErrors : Web!ErrorHandler(e) \in 400 .. 500
BY DEF Web!HandlerErrors, Web!AppErrors, Web!AppError, Web!ErrorHandler

LEMMA PassageDispatch ==
  ASSUME SlotTypes, PassageInv, NEW c \in Visitors, NEW caller \in AllCallers,
         Web!Dispatch(c, caller)
  PROVE  PassageInv'
<1>. DEFINE r == Web!Dispatched(slot[c].request)
            route == Web!Routes[r]
            opened == "NOBODY" \in route.audience \/ caller \cap route.audience # {}
            handling == [pc |-> "handling", route |-> r, caller |-> caller,
                         request |-> slot[c].request]
<1>1. CASE r = 0
  <2>. DEFINE missed == [pc |-> "answered", request |-> slot[c].request, caller |-> caller,
                         by |-> "router", route |-> r, status |-> Web!ErrorHandler(Web!AppError(404))]
  <2>1. slot' = [slot EXCEPT ![c] = missed]
    BY <1>1 DEF Web!Dispatch, Web!Answer
  <2>2. Passage(missed)
    BY <1>1 DEF Passage
  <2>. HIDE DEF missed, r
  <2>. QED
    BY <2>1, <2>2, PassageApart
<1>2. ASSUME NEW by, NEW status, Web!Answer(c, caller, by, r, status), r # 0,
             \/ by = "authLimiter" /\ route.limited
             \/ by \in {"authenticate", "authorize"} /\ caller \cap route.audience = {}
             \/ by = "validator" /\ opened
      PROVE  PassageInv'
  <2>. DEFINE answered == [pc |-> "answered", request |-> slot[c].request, caller |-> caller,
                           by |-> by, route |-> r, status |-> status]
  <2>1. slot' = [slot EXCEPT ![c] = answered]
    BY <1>2 DEF Web!Answer
  <2>2. Passage(answered)
    BY <1>2 DEF Passage
  <2>. HIDE DEF answered, r
  <2>. QED
    BY <2>1, <2>2, PassageApart
<1>3. ASSUME r # 0, opened, slot' = [slot EXCEPT ![c] = handling]
      PROVE  PassageInv'
  <2>1. Passage(handling)
    BY <1>3 DEF Passage
  <2>. HIDE DEF handling, r
  <2>. QED
    BY <1>3, <2>1, PassageApart
<1>4. CASE r # 0
  <2>. DEFINE unknown == Web!ErrorHandler(Web!AppError(401))
              refused == Web!ErrorHandler(Web!AppError(403))
              zod     == Web!ErrorHandler([name |-> "ZodError"])
  <2>1. \/ route.limited /\ Web!Answer(c, caller, "authLimiter", r, 429)
        \/ /\ ~("NOBODY" \in route.audience \/ caller # {"NOBODY"})
           /\ Web!Answer(c, caller, "authenticate", r, unknown)
        \/ ~opened /\ Web!Answer(c, caller, "authorize", r, refused)
        \/ opened /\ Web!Answer(c, caller, "validator", r, zod)
        \/ opened /\ slot' = [slot EXCEPT ![c] = handling]
    BY <1>4, Zenon DEF Web!Dispatch
  <2>2. "NOBODY" \in route.audience \/ caller # {"NOBODY"} \/ caller \cap route.audience = {}
    OBVIOUS
  <2>. HIDE DEF r, route, handling, unknown, refused, zod
  <2>. QED
    BY <1>2, <1>3, <1>4, <2>1, <2>2
<1>. QED
  BY <1>1, <1>4

LEMMA PassageStep ==
  ASSUME WebTypes, PassageInv, [Web!Next]_(Web!vars)
  PROVE  PassageInv'
<1>0. SlotTypes
  BY DEF WebTypes
<1>1. CASE UNCHANGED slot
  BY <1>1 DEF PassageInv
<1>2. ASSUME NEW code \in {0, 1}, Web!Exit(code)
      PROVE  PassageInv'
  BY <1>2 DEF PassageInv, Web!Exit, Web!Idle
<1>3. CASE Web!Shutdown
  BY <1>3 DEF PassageInv, Web!Shutdown, Web!Idle
<1>4. CASE Web!Process
  <2>1. UNCHANGED slot \/ Web!Shutdown \/ \E code \in {0, 1} : Web!Exit(code)
    BY <1>4 DEF Web!Process, Web!Start, Web!Crash, Web!CloseServer, Web!Disconnect,
                Web!ForceExit, Web!Connect, Web!ConnectFails, Web!StartRun, Web!EndRun
  <2>. QED
    BY <1>1, <1>2, <1>3, <2>1
<1>5. ASSUME NEW c \in Visitors, NEW request \in AllRequests, Web!Arrive(c, request)
      PROVE  PassageInv'
  <2>. DEFINE read    == [pc |-> "reading", request |-> request]
              refused == [pc |-> "answered", request |-> request, caller |-> Null,
                          by |-> "generalLimiter", route |-> 0, status |-> 429]
  <2>1. slot' = [slot EXCEPT ![c] = read] \/ slot' = [slot EXCEPT ![c] = refused]
    BY <1>5 DEF Web!Arrive
  <2>2. read.pc \notin {"handling", "answered"} /\ Passage(refused)
    BY DEF Passage
  <2>. HIDE DEF read, refused
  <2>. QED
    BY <1>0, <2>1, <2>2, PassageApart
<1>6. ASSUME NEW c \in Visitors, Web!RefuseBody(c)
      PROVE  PassageInv'
  <2>1. PICK status \in Nat : Web!Answer(c, Null, "body", 0, status)
    BY <1>6, ErrorStatuses DEF Web!RefuseBody
  <2>. DEFINE refused == [pc |-> "answered", request |-> slot[c].request, caller |-> Null,
                          by |-> "body", route |-> 0, status |-> status]
  <2>2. slot' = [slot EXCEPT ![c] = refused] /\ Passage(refused)
    BY <2>1 DEF Web!Answer, Passage
  <2>. HIDE DEF refused
  <2>. QED
    BY <1>0, <2>2, PassageApart
<1>7. ASSUME NEW c \in Visitors, Web!Handle(c)
      PROVE  PassageInv'
  <2>1. PICK status \in {Web!Routes[slot[c].route].status}
                            \cup {Web!ErrorHandler(e) : e \in Web!HandlerErrors} :
          Web!Answer(c, slot[c].caller, "handler", slot[c].route, status)
    BY <1>7 DEF Web!Handle
  <2>2. status < 400 => status = Web!Routes[slot[c].route].status
    BY HandlerErrorStatuses
  <2>3. Passage(slot[c]) /\ slot[c].pc = "handling"
    BY <1>7 DEF PassageInv, Web!Handle
  <2>4. Passage([pc |-> "answered", request |-> slot[c].request, caller |-> slot[c].caller,
                 by |-> "handler", route |-> slot[c].route, status |-> status])
    BY <2>2, <2>3 DEF Passage
  <2>. QED
    BY <1>0, <2>1, <2>4, PassageApart DEF Web!Answer
<1>8. ASSUME NEW c \in Visitors, Web!HangUp(c)
      PROVE  PassageInv'
  BY <1>0, <1>8, PassageApart DEF Web!HangUp, Web!Idle
<1>9. ASSUME NEW c \in Visitors,
             \/ \E limiter \in {"general", "auth"} : Web!ResetWindow(c, limiter)
             \/ Web!EndStray(c)
      PROVE  PassageInv'
  BY <1>1, <1>9 DEF Web!ResetWindow, Web!EndStray
<1>10. CASE UNCHANGED Web!vars
  BY <1>1, <1>10 DEF Web!vars
<1>. QED
  BY <1>0, <1>4, <1>5, <1>6, <1>7, <1>8, <1>9, <1>10, PassageDispatch DEF Web!Next, Web!Exchange

LEMMA InitPassage == Web!Init => PassageInv
BY DEF Web!Init, PassageInv, Web!Idle

(* The routes and the documented operations agree, so a passage is what    *)
(* the document says.                                                      *)
LEMMA PassageSuffices == WebTypes /\ PassageInv => Web!ServedAsDocumented
<1>. SUFFICES ASSUME WebTypes, PassageInv,
                     NEW c \in Visitors, slot[c].pc \in {"handling", "answered"},
                     NEW d \in Web!Docs, d.method = slot[c].request.method,
                     d.path = slot[c].request.documented
              PROVE  LET s       == slot[c]
                         handled == s.pc = "handling" \/ s.by \in {"validator", "handler"}
                     IN /\ handled => /\ Web!Routes[s.route].path = d.path
                                      /\ "NOBODY" \in d.audience \/ s.caller \cap d.audience # {}
                        /\ s.pc = "answered" =>
                             /\ s.by # "router"
                             /\ s.by \in {"authenticate", "authorize"} => s.caller \cap d.audience = {}
                             /\ s.by = "authLimiter" => 429 \in d.answers
                             /\ s.by = "handler" /\ s.status < 400 => s.status \in d.answers
  BY DEF Web!ServedAsDocumented
<1>1. slot[c].request \in AllRequests
  BY DEF WebTypes, SlotTypes, Web!Slotted, Web!Idle, Web!Reading, Web!Handling, Web!Answered
<1>2. PICK id \in [H!Parameters -> Ids] : slot[c].request = Request(d, id)
  <2>1. d.path # <<>>
    <3>1. \E k \in 1 .. Len(Web!Routes) : Web!Routes[k].path = d.path
      BY Declared DEF Declares
    <3>2. Len(d.path) # 0
      BY <3>1, Mounted
    <3>. QED
      BY <3>2
  <2>2. slot[c].request # Unknown
    BY <2>1 DEF Unknown
  <2>3. PICK e \in H!Docs, id \in [H!Parameters -> Ids] : slot[c].request = Request(e, id)
    BY <1>1, <2>2 DEF AllRequests
  <2>4. e.method = d.method /\ e.path = d.path
    BY <2>3 DEF Request
  <2>5. Request(e, id) = Request(d, id)
    BY <2>4 DEF Request
  <2>. QED
    BY <2>3, <2>5
<1>3. PICK r : r = Web!Dispatched(slot[c].request)
  OBVIOUS
<1>4. /\ r # 0 /\ Web!Routes[r].path = d.path /\ Web!Routes[r].audience = d.audience
      /\ Web!Routes[r].status \in d.answers
      /\ Web!Routes[r].limited => 429 \in d.answers
  <2>1. r = Web!Dispatched(Request(d, id))
    BY <1>2, <1>3
  <2>. QED
    BY <2>1, DispatchedDeclared
<1>5. Passage(slot[c])
  BY DEF PassageInv
<1>. QED
  BY <1>3, <1>4, <1>5 DEF Passage

(* A request for a documented operation, whatever the order of the routes, *)
(* comes to the route declared for it, is refused for its role just when   *)
(* the document excludes the caller, is answered 429 by the limiter of     *)
(* /auth only where that is documented, and succeeds with a documented     *)
(* status.                                                                 *)
THEOREM RequestsAreServedAsDocumented == Web!Spec => []Web!ServedAsDocumented
<1>1. WebTypes /\ PassageInv /\ [Web!Next]_(Web!vars) => WebTypes' /\ PassageInv'
  BY WebTypesStep, PassageStep
<1>. QED
  BY InitWebTypes, InitPassage, PassageSuffices, <1>1, PTL DEF Web!Spec

-----------------------------------------------------------------------------
(* The three side by side.                                                 *)

AccessInv ==
  /\ part = "sessions" => TypeOK /\ ForItsUser
  /\ part = "links" => Links!TypeOK /\ ResetInv /\ InviteInv
  /\ part \in {"api", "process"} => WebTypes /\ CleanInv /\ PassageInv

LEMMA InitAccess == MCInit => AccessInv
BY InitSessions, LinksInitTypeOK, InitReset, InitInvite, InitWebTypes, InitClean,
   InitPassage
   DEF MCInit, AccessInv

LEMMA AccessStep ==
  ASSUME AccessInv, [MCNext]_<<part, vars, links, web>>
  PROVE  AccessInv'
<1>1. CASE SessionsNext
  <2>1. part = "sessions" /\ part' = part /\ Next
    BY <1>1 DEF SessionsNext
  <2>. QED
    BY <2>1, SessionsStep DEF AccessInv
<1>2. CASE LinksNext
  <2>1. part = "links" /\ part' = part /\ Links!Next
    BY <1>2 DEF LinksNext
  <2>2. Links!TypeOK' /\ ResetInv' /\ InviteInv'
    BY <2>1, LinksStep, ResetStep, InviteStep DEF AccessInv
  <2>. QED
    BY <2>1, <2>2 DEF AccessInv
<1>3. CASE ApiNext \/ ProcessNext
  <2>1. part \in {"api", "process"} /\ part' = part /\ Web!Next
    BY <1>3 DEF ApiNext, ProcessNext
  <2>2. WebTypes' /\ CleanInv' /\ PassageInv'
    BY <2>1, WebTypesStep, CleanStep, PassageStep DEF AccessInv
  <2>. QED
    BY <2>1, <2>2 DEF AccessInv
<1>4. CASE UNCHANGED <<part, vars, links, web>>
  <2>1. part' = part /\ UNCHANGED vars /\ UNCHANGED Links!vars /\ UNCHANGED Web!vars
    BY <1>4 DEF links, web, Links!vars, Links!rows, Links!histories, Web!vars, Web!process,
                Web!histories
  <2>2. part = "sessions" => TypeOK' /\ ForItsUser'
    BY <2>1, SessionsStep DEF AccessInv
  <2>3. part = "links" => Links!TypeOK' /\ ResetInv' /\ InviteInv'
    BY <2>1, LinksStep, ResetStep, InviteStep DEF AccessInv
  <2>4. part \in {"api", "process"} => WebTypes' /\ CleanInv' /\ PassageInv'
    BY <2>1, WebTypesStep, CleanStep, PassageStep DEF AccessInv
  <2>. QED
    BY <2>1, <2>2, <2>3, <2>4 DEF AccessInv
<1>. QED
  BY <1>1, <1>2, <1>3, <1>4 DEF MCNext

LEMMA AccessInvariant == MCSpec => []AccessInv
<1>1. AccessInv /\ [MCNext]_<<part, vars, links, web>> => AccessInv'
  BY AccessStep
<1>. QED
  BY InitAccess, <1>1, PTL DEF MCSpec

(* Each instance keeps its types.                                          *)
THEOREM AccessTypeCorrect == MCSpec => []AccessTypes
<1>1. AccessInv => AccessTypes
  BY WebTypesSuffice DEF AccessInv, AccessTypes
<1>. QED
  BY AccessInvariant, <1>1, PTL

(* An invite makes one account, unless its first account has given the     *)
(* address up, and is marked used only once it has made one.               *)
THEOREM AccessInvitesMakeOneAccount == MCSpec => []InviteMakesOneAccount
<1>1. AccessInv => InviteMakesOneAccount
  BY InviteSuffices DEF AccessInv, InviteMakesOneAccount
<1>. QED
  BY AccessInvariant, <1>1, PTL

(* A reset link changes the password once, unless two requests held it.    *)
THEOREM AccessResetsWorkOnce == MCSpec => []ResetWorksOnce
<1>1. AccessInv => ResetWorksOnce
  BY ResetSuffices DEF AccessInv, ResetWorksOnce
<1>. QED
  BY AccessInvariant, <1>1, PTL

(* Each documented operation is routed, limited, allowed by role, and      *)
(* answered on success, as the document says.                              *)
THEOREM AccessServesAsDocumented == MCSpec => []ServedAsDocumented
<1>1. AccessInv => ServedAsDocumented
  BY PassageSuffices DEF AccessInv, ServedAsDocumented
<1>. QED
  BY AccessInvariant, <1>1, PTL

(* A clean exit leaves no client waiting, and started no job too late.     *)
THEOREM AccessShutdownsAreClean == MCSpec => []CleanShutdown
<1>1. AccessInv => CleanShutdown
  BY DEF AccessInv, CleanInv, CleanShutdown
<1>. QED
  BY AccessInvariant, <1>1, PTL
=============================================================================
