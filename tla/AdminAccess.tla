------------------------------ MODULE AdminAccess ------------------------------
(***************************************************************************)
(* Administrators and their sign-in: src/src/admin-users/ and              *)
(* src/src/admin-auth/.                                                    *)
(*                                                                         *)
(* The guard of every administrator's route resolves the identity of a     *)
(* verified token to a row, or claims a row that has no identity yet by    *)
(* its address, and stamps the row with the time.  Each save writes a copy *)
(* as it was read: the row is read again, by a request of its own, and the *)
(* columns in which the copy differs from it are written.                  *)
(*                                                                         *)
(* The checks that an address or an identity is free are left out: the     *)
(* keys of the table check the same at the write.  Roles are left out: all *)
(* that is here is a super administrator's, who is assumed to give no row  *)
(* the identity of a hotel.                                                *)
(***************************************************************************)
EXTENDS Integers, Sequences

CONSTANTS
  Emails,          \* addresses, normalized
  Identities,      \* subjects of tokens
  HotelIdentities, \* those of hotels' access users
  Tokens,          \* verified tokens: an identity, an address and whether that is verified
  Requests,        \* slots for requests
  MaxAdmins,       \* bound on rows
  NoIdentity       \* auth0_user_id is null, or the claim is missing

AdminAssumption ==
  /\ MaxAdmins \in Nat
  /\ HotelIdentities \subseteq Identities /\ NoIdentity \notin Identities
  /\ Tokens \subseteq [identity : Identities, email : Emails, isVerified : BOOLEAN]

VARIABLES
  admins,   \* admin_users: rows by id, 1 to the number of rows
  requests, \* requests in flight
  calm      \* no request that changes more than the time of a login has met another (history)

vars == <<admins, requests, calm>>

Statuses == {"invited", "active", "disabled"}
Idle == [pc |-> "idle"]

Rows == DOMAIN admins
Links == (Identities \ HotelIdentities) \cup {NoIdentity}
IsAdmitted(row) == row.identity # NoIdentity /\ row.status = "active"

Init ==
  /\ admins = <<>>
  /\ requests = [r \in Requests |-> Idle]
  /\ calm = TRUE

\* The keys of the table: an address and an identity have one row.
IsUnique(rows) ==
  \A a, b \in DOMAIN rows : a # b =>
    /\ rows[a].email # rows[b].email
    /\ rows[a].identity = rows[b].identity => rows[a].identity = NoIdentity

-----------------------------------------------------------------------------
(* Requests *)

Others(r) == { requests[o] : o \in Requests \ {r} } \ {Idle}

Go(r, q) == requests' = [requests EXCEPT ![r] = q]
Finish(r) == Go(r, Idle)

\* A request that changes a row comes in or, claiming a row, becomes one.
Change(r, q) ==
  /\ Go(r, q)
  /\ calm' = (calm /\ Others(r) = {})

Begin(r, q) ==
  /\ requests[r] = Idle
  /\ Go(r, q)
  /\ calm' = (calm /\ \A q2 \in Others(r) : ~q2.changes)

Abort(r) ==
  /\ requests[r] # Idle
  /\ Finish(r)
  /\ UNCHANGED <<admins, calm>>

-----------------------------------------------------------------------------
(* Administrators *)

NewRow(email, identity, status) == [email |-> email, identity |-> identity, status |-> status]

Insert(row) ==
  /\ Len(admins) < MaxAdmins
  /\ admins' = Append(admins, row)
  /\ IsUnique(admins')

\* ensureBootstrapAdminIfConfigured: when the program starts and the table is empty
Bootstrap(email, identity) ==
  /\ admins = <<>>
  /\ Insert(NewRow(email, identity, IF identity = NoIdentity THEN "invited" ELSE "active"))
  /\ UNCHANGED <<requests, calm>>

\* create, asked for by an administrator
Create(email, identity, status) ==
  /\ \E a \in Rows : IsAdmitted(admins[a])
  /\ Insert(NewRow(email, identity, status))
  /\ UNCHANGED <<requests, calm>>

\* update: one field of the row at a time
Edits(row) ==
  { [row EXCEPT !.email = e] : e \in Emails }
    \cup { [row EXCEPT !.identity = i] : i \in Links }
    \cup { [row EXCEPT !.status = s] : s \in Statuses }

Save(id, copy, then, changes) ==
  [pc |-> "compare", id |-> id, copy |-> copy, then |-> then, changes |-> changes]

StartUpdate(r, id, copy) ==
  /\ requests[r] = Idle
  /\ \E a \in Rows : IsAdmitted(admins[a])
  /\ Change(r, Save(id, copy, "update", TRUE))
  /\ UNCHANGED admins

\* save: the row is read again
Compare(r) ==
  LET q == requests[r] IN
  /\ q.pc = "compare"
  /\ Go(r, [pc |-> "write", id |-> q.id, base |-> admins[q.id], copy |-> q.copy,
            then |-> q.then, changes |-> q.changes])
  /\ UNCHANGED <<admins, calm>>

\* and what differs from the copy is written.
Overlay(row, base, copy) ==
  [f \in DOMAIN row |-> IF copy[f] = base[f] THEN row[f] ELSE copy[f]]

Write(r) ==
  LET q == requests[r] IN
  /\ q.pc = "write"
  /\ admins' = [admins EXCEPT ![q.id] = Overlay(@, q.base, q.copy)]
  /\ IsUnique(admins')
  /\ IF q.then = "update" THEN Finish(r) ELSE Go(r, [q EXCEPT !.pc = q.then])
  /\ UNCHANGED calm

-----------------------------------------------------------------------------
(* Sign-in *)

\* resolveAuthenticatedAdmin: the row of the identity,
Resolve(r, token) ==
  /\ \/ \E id \in Rows :
          /\ admins[id].identity = token.identity
          /\ Begin(r, [pc |-> "admit", id |-> id, copy |-> admins[id], changes |-> FALSE])
     \/ /\ \A id \in Rows : admins[id].identity # token.identity
        /\ Begin(r, [pc |-> "claim", token |-> token, changes |-> FALSE])
  /\ UNCHANGED admins

\* or, claimPendingAdminInvitation, the row of its address that has no identity.
IsEntitled(token) == token.isVerified /\ token.identity \notin HotelIdentities

\* bindAuth0Identity
AlwaysActive(row, identity) == [row EXCEPT !.identity = identity, !.status = "active"]   \* mistake
Bound(row, identity) ==
  [row EXCEPT !.identity = identity, !.status = IF @ = "invited" THEN "active" ELSE @]

Claim(r, id) ==
  LET token == requests[r].token IN
  /\ requests[r].pc = "claim" /\ IsEntitled(token)
  /\ admins[id].email = token.email /\ admins[id].identity = NoIdentity
  /\ Change(r, Save(id, Bound(admins[id], token.identity), "admit", TRUE))
  /\ UNCHANGED admins

\* Only an active administrator is let in; the time of the login is saved with the copy.
NotDisabled(copy) == copy.status # "disabled"   \* mistake
MayEnter(copy) == copy.status = "active"

Admit(r) ==
  LET q == requests[r] IN
  /\ q.pc = "admit" /\ MayEnter(q.copy)
  /\ Go(r, Save(q.id, q.copy, "enter", q.changes))
  /\ UNCHANGED <<admins, calm>>

\* The request enters the route it is for.
Enter(r) ==
  /\ requests[r].pc = "enter"
  /\ Finish(r)
  /\ UNCHANGED <<admins, calm>>

SignIn(r) ==
  \/ \E token \in Tokens : Resolve(r, token)
  \/ \E id \in Rows : Claim(r, id)
  \/ Admit(r) \/ Enter(r)

-----------------------------------------------------------------------------

UpdateStep(r) ==
  \/ \E e \in Emails, i \in Links, s \in Statuses : Create(e, i, s)
  \/ \E id \in Rows : \E copy \in Edits(admins[id]) : StartUpdate(r, id, copy)

Next ==
  \/ \E e \in Emails, i \in Links : Bootstrap(e, i)
  \/ \E r \in Requests :
       \/ UpdateStep(r)
       \/ SignIn(r)
       \/ Compare(r) \/ Write(r) \/ Abort(r)

Spec == Init /\ [][Next]_vars

-----------------------------------------------------------------------------
(* Properties *)

Updates(id) ==
  \E r \in Requests :
    requests[r].pc = "write" /\ requests[r].then = "update" /\ requests[r].id = id

\* Where no change meets another request, a sign-in takes back nothing an administrator decided:
\* it gives an identity to a row that has none, activates only an invitation, and only then, and
\* leaves the rest of the table as it is.
DecisionsStand ==
  [][calm => \A id \in Rows : ~Updates(id) =>
       LET row == admins[id]
           later == admins'[id]
       IN
       /\ later.email = row.email
       /\ later.identity # row.identity => row.identity = NoIdentity
       /\ later.status # row.status =>
            row.status = "invited" /\ later.status = "active" /\ later.identity # row.identity]_vars

\* However requests meet, no hotel's identity is linked to an administrator.  Where no change meets
\* another request, whoever enters a route is an administrator who is active.
EntryIsEarned ==
  /\ \A id \in Rows : admins[id].identity \notin HotelIdentities
  /\ calm => \A r \in Requests : requests[r].pc = "enter" => IsAdmitted(admins[requests[r].id])

=============================================================================
