------------------------------ MODULE OneTimeLinks ------------------------------
(***************************************************************************)
(* Links that are meant to work once: invites, from which accounts are     *)
(* made, and password resets; with the writes of accounts that share the   *)
(* uniqueness of e-mail addresses with them.  User names are unique in the *)
(* same way and left out.                                                  *)
(***************************************************************************)
EXTENDS Naturals, FiniteSets

CONSTANTS
  People,    \* accounts, by id; a deleted one does not come back
  Emails,
  Invites,   \* invites, by id
  Resets,    \* reset links
  Desks      \* slots for requests in flight

VARIABLES
  person,    \* users: the e-mail address of each account
  invite,    \* user_invites
  reset,     \* auth:password-reset:*
  req,       \* what each request has still to do
  made,      \* history: the accounts made from each invite
  freed,     \* history: accounts that have given their address up
  updates,   \* history: password updates made through each reset link
  shared     \* history: reset links two requests held at once

rows      == <<person, invite, reset>>
histories == <<made, freed, updates, shared>>
vars      == <<rows, req, histories>>

-----------------------------------------------------------------------------
Absent     == [phase |-> "absent"]
Gone       == [phase |-> "gone"]
PersonRows == [phase : {"present"}, email : Emails]
InviteRows == [phase : {"present"}, email : Emails, used : BOOLEAN, expired : BOOLEAN]
ResetKeys  == [phase : {"present"}, person : People]

Idle      == [pc |-> "idle"]
Inviting  == [pc : {"searching", "creating"}, email : Emails]
OnInvite  == [pc : {"replacing", "cancelling", "accepting", "marking"},
              email : Emails, invite : Invites]
Resetting == [pc : {"hashing", "updating"}, person : People, reset : Resets]
Requests  == {Idle} \cup Inviting \cup OnInvite \cup Resetting

Present(row)      == row.phase = "present"
Pending(i)        == Present(invite[i]) /\ ~invite[i].used
Registered(e)     == \E p \in People : Present(person[p]) /\ person[p].email = e
Begin(d, request) == req[d] = Idle /\ req' = [req EXCEPT ![d] = request]
Go(d, request)    == req' = [req EXCEPT ![d] = request]
Finish(d)         == req' = [req EXCEPT ![d] = Idle]

Init ==
  /\ person  = [p \in People |-> Absent]
  /\ invite  = [i \in Invites |-> Absent]
  /\ reset   = [r \in Resets |-> Absent]
  /\ req     = [d \in Desks |-> Idle]
  /\ made    = [i \in Invites |-> {}]
  /\ freed   = {}
  /\ updates = [r \in Resets |-> 0]
  /\ shared  = {}

-----------------------------------------------------------------------------
(* Sending and cancelling invites.                                         *)

CheckEmail(d, e) ==
  /\ ~Registered(e)
  /\ Begin(d, [pc |-> "searching", email |-> e])
  /\ UNCHANGED <<rows, histories>>

(* An unused invite that has expired makes room; any other is refused.     *)
SearchPending(d) ==
  /\ req[d].pc = "searching"
  /\ LET e == req[d].email
         unused == {i \in Invites : Pending(i) /\ invite[i].email = e}
     IN \/ unused = {} /\ Go(d, [pc |-> "creating", email |-> e])
        \/ \E i \in unused :
             \/ invite[i].expired /\ Go(d, [pc |-> "replacing", email |-> e, invite |-> i])
             \/ ~invite[i].expired /\ Finish(d)
  /\ UNCHANGED <<rows, histories>>

DeleteExpired(d) ==
  /\ req[d].pc = "replacing"
  /\ LET i == req[d].invite IN
       \/ /\ Present(invite[i])
          /\ invite' = [invite EXCEPT ![i] = Gone]
          /\ Go(d, [pc |-> "creating", email |-> req[d].email])
       \/ ~Present(invite[i]) /\ Finish(d) /\ UNCHANGED invite
  /\ UNCHANGED <<person, reset, histories>>

(* The e-mail that carries the link may fail; the invite stays.            *)
CreateInvite(d) ==
  /\ req[d].pc = "creating"
  /\ \E i \in Invites :
       /\ invite[i] = Absent
       /\ invite' = [invite EXCEPT ![i] = [phase |-> "present", email |-> req[d].email,
                                           used |-> FALSE, expired |-> FALSE]]
  /\ Finish(d)
  /\ UNCHANGED <<person, reset, histories>>

ExpireInvite(i) ==
  /\ Present(invite[i]) /\ ~invite[i].expired
  /\ invite' = [invite EXCEPT ![i].expired = TRUE]
  /\ UNCHANGED <<person, reset, req, histories>>

CheckCancel(d, i) ==
  /\ Pending(i)
  /\ Begin(d, [pc |-> "cancelling", email |-> invite[i].email, invite |-> i])
  /\ UNCHANGED <<rows, histories>>

(* Deletes the invite even if it was used since it was read.               *)
CancelInvite(d) ==
  /\ req[d].pc = "cancelling"
  /\ invite' = [invite EXCEPT ![req[d].invite] = Gone]
  /\ Finish(d)
  /\ UNCHANGED <<person, reset, histories>>

-----------------------------------------------------------------------------
(* Accounts.  The unique constraint on the e-mail refuses a second.        *)

CheckInvite(d, i) ==
  /\ Pending(i) /\ ~invite[i].expired
  /\ Begin(d, [pc |-> "accepting", email |-> invite[i].email, invite |-> i])
  /\ UNCHANGED <<rows, histories>>

CreateAnyway(d) ==    \* mutant: no constraint on the e-mail address
  /\ req[d].pc = "accepting"
  /\ \E p \in People :
       /\ person[p] = Absent
       /\ person' = [person EXCEPT ![p] = [phase |-> "present", email |-> req[d].email]]
       /\ made' = [made EXCEPT ![req[d].invite] = @ \cup {p}]
       /\ req' = [req EXCEPT ![d].pc = "marking"]
  /\ UNCHANGED <<invite, reset, freed, updates, shared>>

CreateInvited(d) ==
  /\ req[d].pc = "accepting"
  /\ \/ /\ ~Registered(req[d].email)
        /\ \E p \in People :
             /\ person[p] = Absent
             /\ person' = [person EXCEPT ![p] = [phase |-> "present", email |-> req[d].email]]
             /\ made' = [made EXCEPT ![req[d].invite] = @ \cup {p}]
             /\ req' = [req EXCEPT ![d].pc = "marking"]
     \/ Registered(req[d].email) /\ Finish(d) /\ UNCHANGED <<person, made>>
  /\ UNCHANGED <<invite, reset, freed, updates, shared>>

(* Fails when the invite was cancelled; the account stays.                 *)
MarkUsed(d) ==
  /\ req[d].pc = "marking"
  /\ LET i == req[d].invite IN
       invite' = IF Present(invite[i]) THEN [invite EXCEPT ![i].used = TRUE] ELSE invite
  /\ Finish(d)
  /\ UNCHANGED <<person, reset, histories>>

(* POST /auth/register: the check before the insert decides nothing more.  *)
Register(e) ==
  /\ ~Registered(e)
  /\ \E p \in People :
       /\ person[p] = Absent
       /\ person' = [person EXCEPT ![p] = [phase |-> "present", email |-> e]]
  /\ UNCHANGED <<invite, reset, req, histories>>

UpdateEmail(p, e) ==
  /\ Present(person[p])
  /\ ~Registered(e)
  /\ person' = [person EXCEPT ![p].email = e]
  /\ freed' = freed \cup {p}
  /\ UNCHANGED <<invite, reset, req, made, updates, shared>>

DeletePerson(p) ==
  /\ Present(person[p])
  /\ person' = [person EXCEPT ![p] = Gone]
  /\ freed' = freed \cup {p}
  /\ UNCHANGED <<invite, reset, req, made, updates, shared>>

-----------------------------------------------------------------------------
(* Password resets.                                                        *)

ForgotPassword(p, r) ==
  /\ Present(person[p])
  /\ reset[r] = Absent
  /\ reset' = [reset EXCEPT ![r] = [phase |-> "present", person |-> p]]
  /\ UNCHANGED <<person, invite, req, histories>>

ExpireReset(r) ==
  /\ Present(reset[r])
  /\ reset' = [reset EXCEPT ![r] = Gone]
  /\ UNCHANGED <<person, invite, req, histories>>

ResetPassword(d, r) ==
  /\ Present(reset[r])
  /\ Begin(d, [pc |-> "hashing", person |-> reset[r].person, reset |-> r])
  /\ shared' = IF \E o \in Desks : req[o].pc = "hashing" /\ req[o].reset = r
                 THEN shared \cup {r} ELSE shared
  /\ UNCHANGED <<rows, made, freed, updates>>

KeepReset(d) ==    \* mutant: the link is not deleted before it is used
  /\ req[d].pc = "hashing"
  /\ req' = [req EXCEPT ![d].pc = "updating"]
  /\ UNCHANGED <<rows, histories>>

DeleteReset(d) ==
  /\ req[d].pc = "hashing"
  /\ reset' = [reset EXCEPT ![req[d].reset] = Gone]
  /\ req' = [req EXCEPT ![d].pc = "updating"]
  /\ UNCHANGED <<person, invite, histories>>

(* Fails on a deleted account; otherwise all sessions end (Sessions).      *)
UpdatePassword(d) ==
  /\ req[d].pc = "updating"
  /\ updates' = IF Present(person[req[d].person])
                  THEN [updates EXCEPT ![req[d].reset] = @ + 1] ELSE updates
  /\ Finish(d)
  /\ UNCHANGED <<rows, made, freed, shared>>

(* The process dies, or a command fails.                                   *)
Abandon(d) ==
  /\ req[d] # Idle
  /\ Finish(d)
  /\ UNCHANGED <<rows, histories>>

-----------------------------------------------------------------------------
Requested(d) ==
  \/ \E e \in Emails : CheckEmail(d, e)
  \/ \E i \in Invites : CheckCancel(d, i) \/ CheckInvite(d, i)
  \/ \E r \in Resets : ResetPassword(d, r)

Handler(d) ==
  \/ SearchPending(d) \/ DeleteExpired(d) \/ CreateInvite(d) \/ CancelInvite(d)
  \/ CreateInvited(d) \/ MarkUsed(d)
  \/ DeleteReset(d) \/ UpdatePassword(d)

AtOnce ==
  \/ \E e \in Emails : Register(e)
  \/ \E i \in Invites : ExpireInvite(i)
  \/ \E r \in Resets : ExpireReset(r)
  \/ \E p \in People :
       \/ \E e \in Emails : UpdateEmail(p, e)
       \/ DeletePerson(p)
       \/ \E r \in Resets : ForgotPassword(p, r)

Next ==
  \/ \E d \in Desks : Requested(d) \/ Handler(d) \/ Abandon(d)
  \/ AtOnce

Spec == Init /\ [][Next]_vars

-----------------------------------------------------------------------------
(* Properties.                                                             *)

(* Rows, keys, requests and histories keep their types.                    *)
TypeOK ==
  /\ person  \in [People -> PersonRows \cup {Absent, Gone}]
  /\ invite  \in [Invites -> InviteRows \cup {Absent, Gone}]
  /\ reset   \in [Resets -> ResetKeys \cup {Absent, Gone}]
  /\ req     \in [Desks -> Requests]
  /\ made    \in [Invites -> SUBSET People]
  /\ freed   \in SUBSET People
  /\ updates \in [Resets -> Nat]
  /\ shared  \in SUBSET Resets

(* However acceptances of an invite race, fail half-way, are retried, or   *)
(* meet its cancellation, it makes one account, unless its first account   *)
(* has given the address up; and an invite is marked used only once it has *)
(* made an account, so a failure never costs the guest the invite.         *)
InviteMakesOneAccount ==
  \A i \in Invites :
    /\ Present(invite[i]) /\ invite[i].used => made[i] # {}
    /\ \A p, q \in made[i] : p # q => p \in freed \/ q \in freed

(* A reset link changes the password once, unless two requests held it at  *)
(* the same time; a failed update does not bring it back.                  *)
ResetWorksOnce == \A r \in Resets : updates[r] > 1 => r \in shared
=============================================================================
