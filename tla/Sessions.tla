-------------------------------- MODULE Sessions --------------------------------
(***************************************************************************)
(* Sessions of users: login, rotation of refresh tokens, logout, the       *)
(* revocation of all sessions, password changes and resets, deactivation   *)
(* and deletion of accounts.                                               *)
(*                                                                         *)
(* A session is a key of Redis, and the keys of a user are listed in an    *)
(* index, another key.  A pipeline saves round trips and is not a          *)
(* transaction, so its commands are separate steps where another client's  *)
(* commands between them make a difference.                                *)
(***************************************************************************)
EXTENDS Naturals, FiniteSets

CONSTANTS
  Users,
  Tokens,    \* refresh tokens (jti), numbered; one is signed once
  Clients,   \* slots for requests in flight
  Null

ASSUME SessionsAssumption == Tokens \subseteq Nat /\ Null \notin Users \cup Tokens

VARIABLES
  account,   \* users.status, or "DELETED"
  key,       \* auth:refresh:{user}:{token}: the user, Null without the key
  index,     \* auth:sessions:{user}, the ids in it, with or without their key
  signed,    \* the user a refresh token was signed for, Null before that
  lapsed,    \* refresh tokens whose JWT has expired
  req,       \* what each client's request has still to do
  adrift,    \* history: open sessions a revocation dropped from the index only
  over,      \* history: open before a revocation that has ended, and after it
  origin,    \* history: the token of the login a token descends from
  doubled    \* history: logins one of whose tokens two refreshes held at once

redis     == <<key, index>>
histories == <<adrift, over, origin, doubled>>
vars      == <<account, redis, signed, lapsed, req, histories>>

-----------------------------------------------------------------------------
Closed   == {"INACTIVE", "DELETED"}
Accounts == {"ACTIVE"} \cup Closed

Idle       == [pc |-> "idle"]
Refreshing == [pc : {"loading", "rotating"}, user : Users, token : Tokens]
Unlisting  == [pc : {"unlisting"}, user : Users, token : Tokens, from : Tokens \cup {Null}]
Storing    == [pc : {"storing"}, user : Users, from : Tokens \cup {Null}]
Indexing   == [pc : {"indexing"}, user : Users, token : Tokens]
Listing    == [pc : {"listing"}, user : Users, then : {"answer", "delete"}]
Clearing   == [pc : {"clearing"}, user : Users, then : {"answer", "delete"},
               listed : SUBSET Tokens, missed : SUBSET Tokens]
Deleting   == [pc : {"deleting"}, user : Users]
Requests   == {Idle} \cup Refreshing \cup Unlisting \cup Storing \cup Indexing
                \cup Listing \cup Clearing \cup Deleting

Begin(c, request) == req[c] = Idle /\ req' = [req EXCEPT ![c] = request]
Go(c, request)    == req' = [req EXCEPT ![c] = request]
Finish(c)         == req' = [req EXCEPT ![c] = Idle]

(* A device holds a token once the answer of its login or refresh is sent. *)
Held(t) ==
  signed[t] # Null /\ \A c \in Clients : req[c].pc = "indexing" => req[c].token # t

Open(u) == {t \in Tokens : key[t] = u /\ Held(t)}

Revoke(u) == [pc |-> "listing", user |-> u, then |-> "answer"]

Init ==
  /\ account \in [Users -> {"ACTIVE"}]
  /\ key     = [t \in Tokens |-> Null]
  /\ index   = [u \in Users |-> {}]
  /\ signed  = [t \in Tokens |-> Null]
  /\ lapsed  = {}
  /\ req     = [c \in Clients |-> Idle]
  /\ adrift  = {}
  /\ over    = {}
  /\ origin  = [t \in Tokens |-> t]
  /\ doubled = {}

-----------------------------------------------------------------------------
(* storeRefreshToken and deleteRefreshToken.                               *)

(* SET ... EX, of a token just signed; tokens are numbered as signed.      *)
StoreKey(c) ==
  /\ req[c].pc = "storing"
  /\ \E t \in Tokens :
       /\ signed[t] = Null
       /\ \A s \in Tokens : s < t => signed[s] # Null
       /\ signed' = [signed EXCEPT ![t] = req[c].user]
       /\ key' = [key EXCEPT ![t] = req[c].user]
       /\ origin' = [origin EXCEPT ![t] = IF req[c].from = Null THEN t ELSE origin[req[c].from]]
       /\ Go(c, [pc |-> "indexing", user |-> req[c].user, token |-> t])
  /\ UNCHANGED <<account, index, lapsed, adrift, over, doubled>>

(* SADD and EXPIRE of the index, and the answer with the token.            *)
StoreIndexAlone(c) ==    \* mutant: the index holds the last session only
  /\ req[c].pc = "indexing"
  /\ index' = [index EXCEPT ![req[c].user] = {req[c].token}]
  /\ Finish(c)
  /\ UNCHANGED <<account, key, signed, lapsed, histories>>

StoreIndex(c) ==
  /\ req[c].pc = "indexing"
  /\ index' = [index EXCEPT ![req[c].user] = @ \cup {req[c].token}]
  /\ Finish(c)
  /\ UNCHANGED <<account, key, signed, lapsed, histories>>

(* DEL.  What follows is a rotation from a token, or without one the answer.*)
DeleteToken(c, t, from) ==
  /\ key' = [key EXCEPT ![t] = Null]
  /\ Go(c, [pc |-> "unlisting", user |-> signed[t], token |-> t, from |-> from])

(* SREM.                                                                   *)
DeleteIndex(c) ==
  /\ req[c].pc = "unlisting"
  /\ index' = [index EXCEPT ![req[c].user] = @ \ {req[c].token}]
  /\ \/ req[c].from = Null /\ Finish(c)
     \/ /\ req[c].from # Null
        /\ Go(c, [pc |-> "storing", user |-> req[c].user, from |-> req[c].from])
  /\ UNCHANGED <<account, key, signed, lapsed, histories>>

-----------------------------------------------------------------------------
(* Expiry.  The JWT is signed before its key is set, for the same time,    *)
(* and expires before it.                                                  *)

(* That the JWT of a spent token expires only ends refreshes that may not  *)
(* come.                                                                   *)
ExpireToken(t) ==
  /\ Held(t)
  /\ key[t] # Null
  /\ t \notin lapsed
  /\ lapsed' = lapsed \cup {t}
  /\ UNCHANGED <<account, redis, signed, req, histories>>

(* The index keeps the id.                                                 *)
ExpireKey(t) ==
  /\ t \in lapsed
  /\ key[t] # Null
  /\ key' = [key EXCEPT ![t] = Null]
  /\ UNCHANGED <<account, index, signed, lapsed, req, histories>>

(* The index is given a full term with each id, so it expires after the    *)
(* keys of those it lists.                                                 *)
ExpireIndex(u) ==
  /\ index[u] # {}
  /\ \A t \in index[u] : t \in lapsed /\ key[t] = Null
  /\ index' = [index EXCEPT ![u] = {}]
  /\ UNCHANGED <<account, key, signed, lapsed, req, histories>>

-----------------------------------------------------------------------------
(* revokeAllSessions.                                                      *)

Revoked(c) ==
  IF req[c].then = "answer" THEN Idle ELSE [pc |-> "deleting", user |-> req[c].user]

(* SMEMBERS; with nothing listed there is nothing to delete.               *)
ListSessions(c) ==
  /\ req[c].pc = "listing"
  /\ LET u == req[c].user IN
       \/ /\ index[u] # {}
          /\ Go(c, [pc |-> "clearing", user |-> u, then |-> req[c].then,
                    listed |-> index[u], missed |-> Open(u) \ index[u]])
          /\ UNCHANGED over
       \/ /\ index[u] = {}
          /\ Go(c, Revoked(c))
          /\ over' = over \cup Open(u)
  /\ UNCHANGED <<account, redis, signed, lapsed, adrift, origin, doubled>>

(* One DEL of the keys listed and of the index, whatever it lists by now.  *)
ClearSessions(c) ==
  /\ req[c].pc = "clearing"
  /\ LET u == req[c].user IN
       /\ key' = [t \in Tokens |-> IF t \in req[c].listed THEN Null ELSE key[t]]
       /\ index' = [index EXCEPT ![u] = {}]
       /\ adrift' = adrift \cup {t \in index[u] \ req[c].listed : key[t] # Null}
  /\ over' = over \cup {t \in req[c].missed : key'[t] # Null}
  /\ Go(c, Revoked(c))
  /\ UNCHANGED <<account, signed, lapsed, origin, doubled>>

-----------------------------------------------------------------------------
(* Login, refresh, logout.                                                 *)

Login(c, u) ==
  /\ account[u] = "ACTIVE"
  /\ Begin(c, [pc |-> "storing", user |-> u, from |-> Null])
  /\ UNCHANGED <<account, redis, signed, lapsed, histories>>

(* The key is there and the JWT is valid.                                  *)
Refresh(c, t) ==
  /\ Held(t)
  /\ key[t] # Null
  /\ t \notin lapsed
  /\ Begin(c, [pc |-> "loading", user |-> signed[t], token |-> t])
  /\ doubled' = IF \E d \in Clients : req[d].pc \in {"loading", "rotating"} /\ req[d].token = t
                  THEN doubled \cup {origin[t]} ELSE doubled
  /\ UNCHANGED <<account, redis, signed, lapsed, adrift, over, origin>>

(* The key is there, the JWT has expired.                                  *)
RefreshExpired(c, t) ==
  /\ Held(t)
  /\ key[t] # Null
  /\ t \in lapsed
  /\ req[c] = Idle
  /\ DeleteToken(c, t, Null)
  /\ UNCHANGED <<account, index, signed, lapsed, histories>>

(* handleReuseAttack: a valid JWT without its key ends every session.      *)
RefreshSpent(c, t) ==
  /\ Held(t)
  /\ key[t] = Null
  /\ t \notin lapsed
  /\ Begin(c, Revoke(signed[t]))
  /\ UNCHANGED <<account, redis, signed, lapsed, histories>>

LoadUser(c) ==
  /\ req[c].pc = "loading"
  /\ LET u == req[c].user IN
       \/ account[u] = "ACTIVE" /\ req' = [req EXCEPT ![c].pc = "rotating"]
       \/ account[u] \in Closed /\ Go(c, Revoke(u))
  /\ UNCHANGED <<account, redis, signed, lapsed, histories>>

RotateKeepingOld(c) ==     \* mutant: the old token outlives its rotation
  /\ req[c].pc = "rotating"
  /\ Go(c, [pc |-> "storing", user |-> req[c].user, from |-> req[c].token])
  /\ UNCHANGED <<account, redis, signed, lapsed, adrift, over, origin, doubled>>

Rotate(c) ==
  /\ req[c].pc = "rotating"
  /\ DeleteToken(c, req[c].token, req[c].token)
  /\ UNCHANGED <<account, index, signed, lapsed, histories>>

Logout(c, t) ==
  /\ Held(t)
  /\ req[c] = Idle
  /\ DeleteToken(c, t, Null)
  /\ UNCHANGED <<account, index, signed, lapsed, histories>>

-----------------------------------------------------------------------------
(* What ends all sessions of a user.                                       *)

(* The password is written, by a change or a reset (OneTimeLinks).         *)
UpdatePassword(c, u) ==
  /\ account[u] # "DELETED"
  /\ Begin(c, Revoke(u))
  /\ UNCHANGED <<account, redis, signed, lapsed, histories>>

SignOutAllDevices(c, u) ==
  /\ Begin(c, Revoke(u))
  /\ UNCHANGED <<account, redis, signed, lapsed, histories>>

-----------------------------------------------------------------------------
(* Accounts.                                                               *)

UpdateStatus(u, status) ==
  /\ account[u] # "DELETED"
  /\ account' = [account EXCEPT ![u] = status]
  /\ UNCHANGED <<redis, signed, lapsed, req, histories>>

DeleteAccount(c, u) ==
  /\ account[u] # "DELETED"
  /\ Begin(c, [pc |-> "listing", user |-> u, then |-> "delete"])
  /\ UNCHANGED <<account, redis, signed, lapsed, histories>>

DeleteUserSoftly(c) ==    \* mutant: the account gets a status of its own
  /\ req[c].pc = "deleting"
  /\ account' = [account EXCEPT ![req[c].user] = "ARCHIVED"]
  /\ Finish(c)
  /\ UNCHANGED <<redis, signed, lapsed, histories>>

DeleteUser(c) ==
  /\ req[c].pc = "deleting"
  /\ account' = [account EXCEPT ![req[c].user] = "DELETED"]
  /\ Finish(c)
  /\ UNCHANGED <<redis, signed, lapsed, histories>>

(* An admin deletes another's account; its sessions are left to expire.    *)
DeleteOther(u) ==
  /\ account[u] # "DELETED"
  /\ account' = [account EXCEPT ![u] = "DELETED"]
  /\ UNCHANGED <<redis, signed, lapsed, req, histories>>

(* The process dies, or a command fails: the rest of a request is not      *)
(* done.  A pipeline was sent as a whole.                                  *)
Abandon(c) ==
  /\ req[c].pc \notin {"idle", "unlisting", "indexing"}
  /\ Finish(c)
  /\ UNCHANGED <<account, redis, signed, lapsed, histories>>

-----------------------------------------------------------------------------
SessionHandler(c) ==
  \/ StoreKey(c)
  \/ StoreIndex(c)
  \/ DeleteIndex(c)
  \/ ListSessions(c)
  \/ ClearSessions(c)
  \/ LoadUser(c)
  \/ Rotate(c)
  \/ DeleteUser(c)

Expiry ==
  \/ \E t \in Tokens : ExpireToken(t) \/ ExpireKey(t)
  \/ \E u \in Users : ExpireIndex(u)

SessionRequest(c) ==
  \/ \E u \in Users :
       \/ Login(c, u)
       \/ UpdatePassword(c, u)
       \/ SignOutAllDevices(c, u)
       \/ DeleteAccount(c, u)
  \/ \E t \in Tokens :
       Refresh(c, t) \/ RefreshExpired(c, t) \/ RefreshSpent(c, t) \/ Logout(c, t)

AccountWrites ==
  \E u \in Users :
    \/ \E status \in {"ACTIVE", "INACTIVE"} : UpdateStatus(u, status)
    \/ DeleteOther(u)

Next ==
  \/ \E c \in Clients : SessionRequest(c) \/ SessionHandler(c) \/ Abandon(c)
  \/ AccountWrites
  \/ Expiry

Spec == Init /\ [][Next]_vars

-----------------------------------------------------------------------------
(* Properties.                                                             *)

(* Rows, keys, requests and histories keep their types.                    *)
TypeOK ==
  /\ account \in [Users -> Accounts]
  /\ key     \in [Tokens -> Users \cup {Null}]
  /\ index   \in [Users -> SUBSET Tokens]
  /\ signed  \in [Tokens -> Users \cup {Null}]
  /\ lapsed  \in SUBSET Tokens
  /\ req     \in [Clients -> Requests]
  /\ adrift  \in SUBSET Tokens
  /\ over    \in SUBSET Tokens
  /\ origin  \in [Tokens -> Tokens]
  /\ doubled \in SUBSET Tokens

(* A session that was open when a sign-out of all devices, a password      *)
(* change, a reset or a reuse alarm began is closed once that has ended,   *)
(* with one exception: a session that an earlier revocation, overlapping   *)
(* its login, dropped from the index, where no later one finds it.         *)
SignedOutIsClosed == \A t \in over : key[t] = Null \/ t \in adrift

(* However refreshes, retries and crashes interleave, one login never has  *)
(* two open sessions, unless two refreshes held the same token at once.    *)
OneSessionPerLogin ==
  \A s, t \in Tokens :
    (key[s] # Null /\ key[t] # Null /\ origin[s] = origin[t]) => s = t \/ origin[s] \in doubled
=============================================================================
