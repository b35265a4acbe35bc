----------------------------- MODULE HotelAccess -----------------------------
(***************************************************************************)
(* Hotels, their one access user and its identity at the identity          *)
(* provider: hotels.service.ts, hotel-users.service.ts, hotel-username.ts  *)
(* under src/src/hotels and src/src/hotel-auth/hotel-auth.service.ts.      *)
(*                                                                         *)
(* Only archive's last step is a transaction.  Every other handler is a    *)
(* chain of awaits on the database and on the provider, and a save writes  *)
(* the whole row as the handler read it: columns changed since are put     *)
(* back, and a row deleted since is inserted again.  A request is a record *)
(* with a program counter and the copy of the row it holds.                *)
(***************************************************************************)
EXTENDS Integers, FiniteSets, FiniteSetsExt

CONSTANTS
  Hotels,       \* ids of hotels rows
  Users,        \* ids of hotel_users rows
  Identities,   \* user ids the provider may give out
  Names,        \* username candidates, 1 being the stem itself: 1..N
  Emails,       \* sign-in addresses
  Cvrs,         \* company numbers
  Requests,     \* slots for requests in flight
  NoRow,        \* no such row
  NoIdentity,   \* a null identity_user_id
  Unused, Gone, \* a user id not given out yet; a user the provider has deleted
  Attempts,     \* IDENTITY_USERNAME_ATTEMPTS (3)
  Exclusive,    \* TRUE: requests about one hotel do not overlap
  MaxFaults     \* how often a process dies or an answer of the provider is lost, at most

ASSUME NamesAssumption == Names \subseteq Nat \ {0} /\ 1 \in Names /\ IsFiniteSet(Names)
ASSUME AccessBoundsAssumption == /\ Attempts \in Nat \ {0}
                                 /\ Exclusive \in BOOLEAN /\ MaxFaults \in Nat

VARIABLES
  hotels,      \* hotels: status and CVR of each row
  granted,     \* whether the hotel has a live tour grant (hotel_tours)
  booked,      \* whether the hotel has a booking (hotel_bookings)
  users,       \* hotel_users rows
  identities,  \* the provider's users: unused, deleted, or a record
  foreign,     \* names and addresses others hold at the provider
  requests,    \* requests in flight
  faults       \* how many failed so far (history)

vars == <<hotels, granted, booked, users, identities, foreign, requests, faults>>
tenant == <<identities, foreign>>
partner == <<hotels, granted, booked>>
flight == <<requests, faults>>

-----------------------------------------------------------------------------
(* Types *)

HotelStatuses == {"active", "disabled", "archived"}
UserStatuses  == {"invited", "active", "disabled"}

Hotel == [status : HotelStatuses, cvr : Cvrs]

User == [hotel : Hotels, username : Names, email : Emails, identity : Identities \cup {NoIdentity},
         status : UserStatuses, signedIn : BOOLEAN]

Account == [username : Names, email : Emails, blocked : BOOLEAN]

Idle == [pc |-> "idle"]

\* About a user row the request has read: the row's id and the copy it holds.
UserRequest == [pc : {"offering", "renaming", "undoing", "switching", "signingIn",
                      "releasing", "dropping", "saving"},
                hotel : Hotels, user : Users, copy : User,
                why : {"create", "resend", "enable", "disable", "signIn", "release", "archive", "remove"},
                refused : SUBSET Names, attempt : 1..Attempts]

HotelRequest ==
       [pc : {"reserving"}, hotel : Hotels, email : Emails, username : Names]
  \cup [pc : {"closing"}, hotel : Hotels, why : {"archive", "remove"}]
  \cup [pc : {"patching"}, hotel : Hotels, copy : Hotel]

\* What stands for no row, no identity and no account is none.
ASSUME NothingAssumption ==
  /\ NoRow \notin Hotel /\ NoRow \notin User /\ NoIdentity \notin Identities
  /\ Unused # Gone /\ Unused \notin Account /\ Gone \notin Account

\* Every row, account and request has the columns and values of its kind.
TypeOK ==
  /\ hotels \in [Hotels -> Hotel \cup {NoRow}]
  /\ granted \in [Hotels -> BOOLEAN] /\ booked \in [Hotels -> BOOLEAN]
  /\ users \in [Users -> User \cup {NoRow}]
  /\ identities \in [Identities -> Account \cup {Unused, Gone}]
  /\ foreign \in [names : SUBSET Names, emails : SUBSET Emails]
  /\ requests \in [Requests -> {Idle} \cup UserRequest \cup HotelRequest]
  /\ faults \in 0..MaxFaults

Init ==
  /\ hotels = [h \in Hotels |-> NoRow]
  /\ granted = [h \in Hotels |-> FALSE]
  /\ booked = [h \in Hotels |-> FALSE]
  /\ users = [u \in Users |-> NoRow]
  /\ identities = [i \in Identities |-> Unused]
  /\ foreign \in [names : SUBSET Names, emails : SUBSET Emails]
  /\ requests = [r \in Requests |-> Idle]
  /\ faults = 0

-----------------------------------------------------------------------------
(* Rows and the provider *)

Rows == { u \in Users : users[u] # NoRow }
Accounts == { i \in Identities : identities[i] \notin {Unused, Gone} }

Step(r, request) == requests' = [requests EXCEPT ![r] = request] /\ UNCHANGED faults

\* The request goes on as one whose process died or whose call threw.
Fault(r, request) ==
  /\ faults < MaxFaults
  /\ faults' = faults + 1
  /\ requests' = [requests EXCEPT ![r] = request]

Touches(request, h) == request # Idle /\ request.hotel = h

Alone(h) == Exclusive => \A q \in Requests : ~Touches(requests[q], h)

MayStart(r, h) == requests[r] = Idle /\ Alone(h)

\* The unique index on the CVR of hotels that are not archived.
CvrIsFree(h, row) ==
  row.status # "archived" =>
    \A g \in Hotels \ {h} :
      hotels[g] # NoRow /\ hotels[g].status # "archived" => hotels[g].cvr # row.cvr

\* The constraints of hotel_users: one row per hotel, username, address and
\* identity, and a hotel that exists.
CanSave(u, row) ==
  /\ hotels[row.hotel] # NoRow
  /\ \A v \in Rows \ {u} :
       /\ users[v].hotel # row.hotel
       /\ users[v].username # row.username
       /\ users[v].email # row.email
       /\ row.identity = NoIdentity \/ users[v].identity # row.identity

\* nextFreeUsername asks hotel_users about each candidate in turn.
FreeNames(rejected) == Names \ (rejected \cup { users[u].username : u \in Rows })

\* The account asked for is the one reserved.
AccountFor(row) == [username |-> row.username, email |-> row.email, blocked |-> FALSE]

\* The provider refuses a name or an address it has, whoever holds it.
Accepts(account) ==
  /\ account.username \notin foreign.names
  /\ account.email \notin foreign.emails
  /\ \A i \in Accounts :
       identities[i].username # account.username /\ identities[i].email # account.email

-----------------------------------------------------------------------------
(* Hotels *)

\* HotelsService.create.
CreateHotel(h) ==
  /\ hotels[h] = NoRow
  /\ \A q \in Requests : ~Touches(requests[q], h)
  /\ \E row \in Hotel : CvrIsFree(h, row) /\ hotels' = [hotels EXCEPT ![h] = row]
  /\ UNCHANGED <<granted, booked, users, tenant, flight>>

\* HotelsService.update, the read and the changes: status may be any of the three.
StartPatch(r, h) ==
  /\ MayStart(r, h)
  /\ hotels[h] # NoRow
  /\ \E row \in Hotel : Step(r, [pc |-> "patching", hotel |-> h, copy |-> row])
  /\ UNCHANGED <<partner, users, tenant>>

\* HotelsService.update, the save.
SavePatch(r) ==
  /\ requests[r].pc = "patching"
  /\ LET q == requests[r] IN
     hotels' = IF CvrIsFree(q.hotel, q.copy) THEN [hotels EXCEPT ![q.hotel] = q.copy] ELSE hotels
  /\ Step(r, Idle)
  /\ UNCHANGED <<granted, booked, users, tenant>>

\* HotelsService.setTours: grants are replaced whatever the hotel's status.
SetTours(h) ==
  /\ hotels[h] # NoRow
  /\ Alone(h)
  /\ \E live \in BOOLEAN : granted' = [granted EXCEPT ![h] = live]
  /\ UNCHANGED <<hotels, booked, users, tenant, flight>>

\* HotelBookingsService.create needs a live grant.
Book(h) ==
  /\ granted[h]
  /\ booked' = [booked EXCEPT ![h] = TRUE]
  /\ UNCHANGED <<hotels, granted, users, tenant, flight>>

UserStep(pc, u, copy, why) ==
  [pc |-> pc, hotel |-> copy.hotel, user |-> u, copy |-> copy, why |-> why,
   refused |-> {}, attempt |-> 1]

\* archive and remove: the checks of the hotel, and release's read of the user.
StartClosing(r, h, why) ==
  /\ MayStart(r, h)
  /\ hotels[h] # NoRow
  /\ why = "archive" => hotels[h].status # "archived"
  /\ why = "remove" => ~booked[h]
  /\ LET mine == { u \in Rows : users[u].hotel = h } IN
     \/ \E u \in mine : Step(r, UserStep("releasing", u, users[u], why))
     \/ mine = {} /\ Step(r, [pc |-> "closing", hotel |-> h, why |-> why])
  /\ UNCHANGED <<partner, users, tenant>>

GrantsRevoked(h) == [granted EXCEPT ![h] = FALSE]

\* The foreign key of hotel_bookings restricts a delete.
HasBookings(h) == booked[h]

\* archive's transaction; or remove's delete, which takes the grants and the user
\* with it unless the foreign key of a booking refuses it.
CloseHotel(r) ==
  /\ requests[r].pc = "closing"
  /\ LET h == requests[r].hotel IN
     \/ /\ requests[r].why = "archive"
        /\ hotels' = IF hotels[h] = NoRow THEN hotels ELSE [hotels EXCEPT ![h].status = "archived"]
        /\ granted' = GrantsRevoked(h)
        /\ UNCHANGED users
     \/ /\ requests[r].why = "remove" /\ ~HasBookings(h)
        /\ hotels' = [hotels EXCEPT ![h] = NoRow]
        /\ granted' = [granted EXCEPT ![h] = FALSE]
        /\ users' = [u \in Users |->
                       IF u \in Rows /\ users[u].hotel = h THEN NoRow ELSE users[u]]
     \/ /\ requests[r].why = "remove" /\ HasBookings(h)
        /\ UNCHANGED <<hotels, granted, users>>
  /\ Step(r, Idle)
  /\ UNCHANGED <<booked, tenant>>

-----------------------------------------------------------------------------
(* The access user *)

\* create, the reads: the hotel exists and has no user, no user has the address,
\* and the first free name is chosen.
StartCreate(r, h, email) ==
  /\ MayStart(r, h)
  /\ hotels[h] # NoRow
  /\ \A u \in Rows : users[u].hotel # h /\ users[u].email # email
  /\ FreeNames({}) # {}
  /\ Step(r, [pc |-> "reserving", hotel |-> h, email |-> email, username |-> Min(FreeNames({}))])
  /\ UNCHANGED <<partner, users, tenant>>

\* create, the insert of the reservation.
Reserve(r) ==
  /\ requests[r].pc = "reserving"
  /\ \E u \in Users \ Rows :
     /\ \A q \in Requests : requests[q] \in UserRequest => requests[q].user # u
     /\ LET q == requests[r]
            row == [hotel |-> q.hotel, username |-> q.username, email |-> q.email,
                    identity |-> NoIdentity, status |-> "invited", signedIn |-> FALSE]
        IN IF CanSave(u, row)
           THEN users' = [users EXCEPT ![u] = row] /\ Step(r, UserStep("offering", u, row, "create"))
           ELSE UNCHANGED users /\ Step(r, Idle)
  /\ UNCHANGED <<partner, tenant>>

\* What create remembers of the account it was given.
RecordedOnStem(copy, i) == [copy EXCEPT !.identity = i, !.username = 1]   \* mistake
Recorded(copy, i) == [copy EXCEPT !.identity = i]

\* createIdentityWithRetries, one call of the provider: the account is made; or
\* refused, and while attempts last the next name is looked up, the one just
\* refused being the only one left out; or the call fails, perhaps after the
\* account was made.  The field refused is the history of all of them.
Offer(r) ==
  /\ requests[r].pc = "offering"
  /\ LET q == requests[r]
         account == AccountFor(q.copy)
         free == FreeNames({account.username})
     IN
     \/ \E i \in Identities :
          /\ identities[i] = Unused /\ Accepts(account)
          /\ identities' = [identities EXCEPT ![i] = account]
          /\ \/ Step(r, [q EXCEPT !.pc = "saving", !.copy = Recorded(q.copy, i)])
             \/ Fault(r, [q EXCEPT !.pc = "undoing"])
     \/ /\ ~Accepts(account)
        /\ Step(r, IF q.attempt < Attempts /\ free # {}
                   THEN [q EXCEPT !.pc = "renaming", !.refused = @ \cup {account.username},
                                  !.copy.username = Min(free), !.attempt = @ + 1]
                   ELSE [q EXCEPT !.pc = "undoing"])
        /\ UNCHANGED identities
     \/ Fault(r, [q EXCEPT !.pc = "undoing"]) /\ UNCHANGED identities
  /\ UNCHANGED <<partner, users, foreign>>

\* createIdentityWithRetries, the move of the reservation to the name looked up.
Rename(r) ==
  /\ requests[r].pc = "renaming"
  /\ LET q == requests[r] IN
     IF CanSave(q.user, q.copy)
     THEN users' = [users EXCEPT ![q.user] = q.copy] /\ Step(r, [q EXCEPT !.pc = "offering"])
     ELSE UNCHANGED users /\ Step(r, [q EXCEPT !.pc = "undoing"])
  /\ UNCHANGED <<partner, tenant>>

Deleted(u) == [users EXCEPT ![u] = NoRow]

\* create, the removal of a reservation that got no account.
Undo(r) ==
  /\ requests[r].pc = "undoing"
  /\ users' = Deleted(requests[r].user)
  /\ Step(r, Idle)
  /\ UNCHANGED <<partner, tenant>>

\* The save that ends create, resendInvitation and setEnabled.
SaveUser(r) ==
  /\ requests[r].pc = "saving"
  /\ LET q == requests[r] IN
     users' = IF CanSave(q.user, q.copy) THEN [users EXCEPT ![q.user] = q.copy] ELSE users
  /\ Step(r, Idle)
  /\ UNCHANGED <<partner, tenant>>

\* resendInvitation, the read and the refusal of a disabled user.
StartResend(r, u) ==
  /\ MayStart(r, users[u].hotel)
  /\ users[u].status # "disabled"
  /\ Step(r, UserStep("saving", u, users[u], "resend"))
  /\ UNCHANGED <<partner, users, tenant>>

\* setEnabled, the read.
StartSwitch(r, u, why) ==
  /\ MayStart(r, users[u].hotel)
  /\ Step(r, UserStep("switching", u, users[u], why))
  /\ UNCHANGED <<partner, users, tenant>>

\* The status setEnabled writes, from the copy it read.
SwitchedStatus(why, copy) ==
  IF why = "disable" THEN "disabled" ELSE IF copy.signedIn THEN "active" ELSE "invited"

NeverBlocking(why) == FALSE   \* mistake
Blocking(why) == why = "disable"

\* setEnabled, the call of the provider, which fails for an account it has not.
SwitchIdentity(r) ==
  /\ requests[r].pc = "switching"
  /\ LET q == requests[r]
         i == q.copy.identity
         saving == [q EXCEPT !.pc = "saving", !.copy.status = SwitchedStatus(q.why, q.copy)]
     IN
     \/ i = NoIdentity /\ UNCHANGED identities /\ Step(r, saving)
     \/ /\ i \in Accounts
        /\ identities' = [identities EXCEPT ![i].blocked = Blocking(q.why)]
        /\ Step(r, saving)
     \/ i # NoIdentity /\ i \notin Accounts /\ UNCHANGED identities /\ Step(r, Idle)
  /\ UNCHANGED <<partner, users, foreign>>

\* release, the read, when it is asked for by itself.
StartRelease(r, u) ==
  /\ MayStart(r, users[u].hotel)
  /\ Step(r, UserStep("releasing", u, users[u], "release"))
  /\ UNCHANGED <<partner, users, tenant>>

\* The accounts a release deletes.
ForgetAccount(copy) == {}   \* mistake
AccountsOf(copy) == {copy.identity} \ {NoIdentity}

\* release, the call of the provider: an account already gone is fine.
DeleteIdentity(r) ==
  /\ requests[r].pc = "releasing"
  /\ identities' = [i \in Identities |->
                      IF i \in AccountsOf(requests[r].copy) THEN Gone ELSE identities[i]]
  /\ Step(r, [requests[r] EXCEPT !.pc = "dropping"])
  /\ UNCHANGED <<partner, users, foreign>>

\* release, the delete of the row; archive and remove go on from here.
DropUser(r) ==
  /\ requests[r].pc = "dropping"
  /\ LET q == requests[r] IN
     /\ users' = [users EXCEPT ![q.user] = NoRow]
     /\ Step(r, IF q.why = "release" THEN Idle
                ELSE [pc |-> "closing", hotel |-> q.hotel, why |-> q.why])
  /\ UNCHANGED <<partner, tenant>>

\* The two refusals: a disabled user, a disabled hotel.  An archived one passes.
TrustTheToken(u) == hotels[users[u].hotel].status # "disabled"   \* mistake
MaySignIn(u) ==
  /\ users[u].status # "disabled"
  /\ hotels[users[u].hotel].status # "disabled"

\* resolveAuthenticatedHotelUser, the read of the user and its hotel.  A token
\* outlives the account's deletion or blocking.
StartSignIn(r, u) ==
  /\ MayStart(r, users[u].hotel)
  /\ users[u].identity # NoIdentity
  /\ MaySignIn(u)
  /\ Step(r, UserStep("signingIn", u, users[u], "signIn"))
  /\ UNCHANGED <<partner, users, tenant>>

\* resolveAuthenticatedHotelUser, the update of two columns.
CompleteSignIn(r) ==
  /\ requests[r].pc = "signingIn"
  /\ LET u == requests[r].user IN
     users' = IF u \in Rows THEN [users EXCEPT ![u].status = "active", ![u].signedIn = TRUE] ELSE users
  /\ Step(r, Idle)
  /\ UNCHANGED <<partner, tenant>>

\* The process dies, or a call of the provider throws, and the request goes no
\* further.
Crash(r) ==
  /\ requests[r] # Idle
  /\ Fault(r, Idle)
  /\ UNCHANGED <<partner, users, tenant>>

HotelStep ==
  \E h \in Hotels : CreateHotel(h) \/ SetTours(h) \/ Book(h)

PartnerStep(r) ==
  \/ \E h \in Hotels : StartPatch(r, h)
  \/ SavePatch(r)
  \/ \E h \in Hotels, why \in {"archive", "remove"} : StartClosing(r, h, why)
  \/ CloseHotel(r)

CreateStep(r) ==
  \/ \E h \in Hotels, email \in Emails : StartCreate(r, h, email)
  \/ Reserve(r) \/ Offer(r) \/ Rename(r) \/ Undo(r)

AccessStep(r) ==
  \/ \E u \in Rows : StartResend(r, u) \/ StartRelease(r, u) \/ StartSignIn(r, u)
  \/ \E u \in Rows, why \in {"enable", "disable"} : StartSwitch(r, u, why)
  \/ SaveUser(r) \/ SwitchIdentity(r) \/ DeleteIdentity(r) \/ DropUser(r) \/ CompleteSignIn(r)

Next ==
  \/ HotelStep
  \/ \E r \in Requests : PartnerStep(r) \/ CreateStep(r) \/ AccessStep(r) \/ Crash(r)

Spec == Init /\ [][Next]_vars

-----------------------------------------------------------------------------
(* What always holds, however requests overlap *)

Holds(r, i) == requests[r] \in UserRequest /\ requests[r].copy.identity = i

\* Rows, accounts and requests keep their types.  The account a user row points
\* at answers to the username and the address of the row, whichever names were
\* refused on the way and whatever failed; and only a sign-in makes a user active:
\* the saves of create, resend, enable and disable, stale as their copy may be,
\* never claim a sign-in that did not happen.
RowsTellTheTruth ==
  /\ TypeOK
  /\ \A u \in Rows :
       /\ users[u].status = "active" => users[u].signedIn
       /\ users[u].identity \in Accounts =>
            /\ identities[users[u].identity].username = users[u].username
            /\ identities[users[u].identity].email = users[u].email

\* An account is one user's for good: the request that holds it, to record, block
\* or delete it, is about the very row that points at it, and about that row's
\* hotel.  So no interleaving, crash or late save locks out a user of another hotel.
AccountsHaveOneOwner ==
  \A i \in Identities : \A u \in Rows :
    users[u].identity = i =>
      /\ \A v \in Rows : users[v].identity = i => v = u
      /\ \A r \in Requests : Holds(r, i) =>
           requests[r].user = u /\ requests[r].hotel = users[u].hotel

\* A step that blocks, unblocks or deletes the account of a user is one of a request
\* about that user's hotel.
OtherHotelsAreLeftAlone ==
  [][\A i \in Accounts : \A u \in Rows :
       users[u].identity = i /\ identities'[i] # identities[i] =>
         \E r \in Requests :
           requests'[r] # requests[r] /\ Touches(requests[r], users[u].hotel)]_vars

-----------------------------------------------------------------------------
(* What holds when requests about one hotel do not overlap *)

\* No row is deleted while the account it points at lives: an account nobody
\* points at would hold its address hostage (release, archive, remove).  And when
\* archive commits, the hotel has given everything up: no access user, no live
\* grant, and the CVR free for the next registration.
ReleaseIsComplete ==
  [][/\ \A u \in Rows :
          users'[u] = NoRow /\ users[u].identity # NoIdentity
            => identities[users[u].identity] = Gone
     /\ \A r \in Requests :
          requests[r].pc = "closing" /\ requests[r].why = "archive" /\ requests'[r] = Idle =>
            LET h == requests[r].hotel IN
            hotels' # hotels =>
              /\ hotels'[h].status = "archived"
              /\ ~granted'[h]
              /\ \A u \in Users : users'[u] # NoRow => users'[u].hotel # h
              /\ \A g \in Hotels \ {h} : hotels'[g] = hotels[g]]_vars

\* A disabled user stays disabled until the enable route saves: neither a sign-in
\* nor a resend brings the user back.
DisabledStaysOut ==
  [][\A u \in Rows :
       users[u].status = "disabled" /\ users'[u] # NoRow /\ users'[u].status # "disabled" =>
         \E r \in Requests : requests[r].pc = "saving" /\ requests[r].user = u
                               /\ requests[r].why = "enable"]_vars

-----------------------------------------------------------------------------
(* What holds when, besides, nothing has crashed or timed out yet *)

AtRest(h) == \A r \in Requests : ~Touches(requests[r], h)

\* The rows and the provider agree, whichever of the writes to the two a step lies between.
\* Every account made for a hotel is recorded on a row or held by the request that will record
\* or delete it.  A reservation without an account belongs to the create still in flight: none
\* is left behind to occupy the hotel's only user row and its username.  And at rest, a user's
\* account lives and is blocked exactly when the user is disabled.
SystemsAgree ==
  faults = 0 =>
    /\ \A i \in Accounts :
         (\E u \in Rows : users[u].identity = i) \/ (\E r \in Requests : Holds(r, i))
    /\ \A u \in Rows :
         /\ users[u].identity = NoIdentity =>
              \E r \in Requests :
                requests[r] \in UserRequest /\ requests[r].user = u /\ requests[r].why = "create"
         /\ AtRest(users[u].hotel) =>
              /\ users[u].identity \in Accounts
              /\ identities[users[u].identity].blocked <=> users[u].status = "disabled"

-----------------------------------------------------------------------------
(* What a comment says and the code does not keep *)

\* createIdentityWithRetries never offers the provider a name it has refused.
NamesMoveOn ==
  \A r \in Requests : requests[r].pc = "offering" =>
    requests[r].copy.username \notin requests[r].refused

=============================================================================
