-------------------------- MODULE HotelAccessProofs --------------------------
(***************************************************************************)
(* Proofs about hotels' access users and the identity provider, for any    *)
(* hotels, users, identities, names and requests in flight.                *)
(*                                                                         *)
(* What a row or a copy of it says is kept apart from when it was read: it *)
(* claims no sign-in that did not happen, and the account it points at was *)
(* given out with its username and address and keeps them until it is      *)
(* deleted.  Both survive any step of any other request.                   *)
(***************************************************************************)
EXTENDS HotelAccess, NumberTheorems, TLAPS

(***************************************************************************)
(* The least of a set of numbers: the name a reservation takes.            *)
(***************************************************************************)

LEMMA LeastOfNaturals == ASSUME NEW S \in SUBSET Nat, S # {} PROVE Min(S) \in S
  BY HasLeast DEF Min

LEMMA FreeNameIsName ==
  ASSUME NEW rejected, FreeNames(rejected) # {}
  PROVE  Min(FreeNames(rejected)) \in Names
PROOF
  <1> PICK S : S = FreeNames(rejected)
    OBVIOUS
  <1>1. S \in SUBSET Nat /\ S # {} /\ S \subseteq Names
    BY NamesAssumption DEF FreeNames
  <1>2. Min(S) \in S
    BY <1>1, LeastOfNaturals
  <1> QED BY <1>1, <1>2

(***************************************************************************)
(* What rows and copies say.                                               *)
(***************************************************************************)

Truthful(row) == row.status = "active" => row.signedIn

Answers(row) ==
  row.identity # NoIdentity =>
    /\ identities[row.identity] # Unused
    /\ identities[row.identity] # Gone =>
         /\ identities[row.identity].username = row.username
         /\ identities[row.identity].email = row.email

Releasers == {"release", "archive", "remove"}

\* A request that reserves holds no account yet; one that releases was asked to.
Honest(q) ==
  /\ Truthful(q.copy) /\ Answers(q.copy)
  /\ q.pc \in {"offering", "renaming"} => q.copy.identity = NoIdentity
  /\ q.pc \in {"releasing", "dropping"} => q.why \in Releasers

HonestInv ==
  /\ TypeOK
  /\ \A u \in Rows : Truthful(users[u]) /\ Answers(users[u])
  /\ \A r \in Requests : requests[r] \in UserRequest => Honest(requests[r])

\* What becomes of an account: it keeps its name and address, and is not given out again.
Later ==
  \A i \in Identities : identities[i] # Unused =>
    /\ identities'[i] # Unused
    /\ identities'[i] # Gone =>
         /\ identities[i] # Gone
         /\ identities'[i].username = identities[i].username
         /\ identities'[i].email = identities[i].email

LEMMA AnswersLater ==
  ASSUME Later, NEW row \in User, Answers(row) PROVE Answers(row)'
  BY DEF Later, User, Answers

LEMMA UnchangedIsLater == UNCHANGED identities => Later
  BY DEF Later

Request == {Idle} \cup UserRequest \cup HotelRequest

\* A step of a request leaves the table with rows that say what is true, and itself with a copy that does.
LEMMA HonestStep ==
  ASSUME HonestInv, NEW r \in Requests, NEW n \in Request, requests' = [requests EXCEPT ![r] = n],
         n \in UserRequest => Honest(n)', Later,
         hotels' \in [Hotels -> Hotel \cup {NoRow}], granted' \in [Hotels -> BOOLEAN],
         booked' \in [Hotels -> BOOLEAN], foreign' = foreign, faults' \in 0..MaxFaults,
         identities' \in [Identities -> Account \cup {Unused, Gone}],
         users' = [u \in Users |-> users'[u]],
         \A u \in Users :
           \/ users'[u] = users[u]
           \/ users'[u] = NoRow
           \/ users'[u] \in User /\ Truthful(users'[u]) /\ Answers(users[u])'
  PROVE  HonestInv'
PROOF
  <1>1. requests' = [s \in Requests |-> IF s = r THEN n ELSE requests[s]]
    BY DEF HonestInv, TypeOK
  <1>2. requests' \in [Requests -> Request]
    BY <1>1 DEF HonestInv, TypeOK, Request
  <1>3. users \in [Users -> User \cup {NoRow}]
    BY DEF HonestInv, TypeOK
  <1>4. users' \in [Users -> User \cup {NoRow}]
    BY <1>3
  <1>5. TypeOK'
    BY <1>2, <1>4 DEF HonestInv, TypeOK, Request
  <1>6. ASSUME NEW u \in Users, users'[u] # NoRow PROVE Truthful(users'[u]) /\ Answers(users[u])'
    <2>1. CASE users'[u] = users[u]
      <3>1. users[u] \in User /\ Truthful(users[u]) /\ Answers(users[u])
        BY <1>3, <1>6, <2>1 DEF HonestInv, Rows
      <3> PICK row \in User : row = users[u]
        BY <3>1
      <3>2. Answers(row)'
        BY <3>1, AnswersLater
      <3> QED BY <2>1, <3>1, <3>2 DEF Answers
    <2> QED BY <1>6, <2>1
  <1>7. ASSUME NEW s \in Requests, requests'[s] \in UserRequest PROVE Honest(requests[s])'
    <2>1. CASE s = r
      BY <1>1, <1>7, <2>1 DEF Honest, Answers
    <2>2. CASE s # r
      <3> PICK q : q = requests[s]
        OBVIOUS
      <3>1. requests'[s] = q /\ q \in UserRequest /\ Honest(q)
        BY <1>1, <1>7, <2>2 DEF HonestInv
      <3> PICK row : row = q.copy
        OBVIOUS
      <3>2. row \in User
        BY <3>1 DEF UserRequest
      <3>3. Answers(row)'
        BY <3>1, <3>2, AnswersLater DEF Honest
      <3> QED BY <3>1, <3>3 DEF Honest, Answers
    <2> QED BY <2>1, <2>2
  <1> QED BY <1>5, <1>6, <1>7 DEF HonestInv, Rows, Truthful

(***************************************************************************)
(* The records of requests, and how they go on.                            *)
(***************************************************************************)

Stages == {"offering", "renaming", "undoing", "switching", "signingIn", "releasing", "dropping", "saving"}
Reasons == {"create", "resend", "enable", "disable", "signIn", "release", "archive", "remove"}

LEMMA UserStepTyped ==
  ASSUME NEW pc \in Stages, NEW u \in Users, NEW copy \in User, NEW why \in Reasons
  PROVE  /\ UserStep(pc, u, copy, why) \in UserRequest
         /\ UserStep(pc, u, copy, why).pc = pc /\ UserStep(pc, u, copy, why).copy = copy
         /\ UserStep(pc, u, copy, why).user = u /\ UserStep(pc, u, copy, why).hotel = copy.hotel
         /\ UserStep(pc, u, copy, why).why = why
PROOF
  <1>1. copy.hotel \in Hotels
    BY DEF User
  <1>2. 1 \in 1..Attempts
    BY AccessBoundsAssumption
  <1> QED BY <1>1, <1>2 DEF UserStep, UserRequest, Stages, Reasons

\* The request q at another stage, or with another copy.
Turned(q, pc, copy) ==
  [pc |-> pc, hotel |-> q.hotel, user |-> q.user, copy |-> copy, why |-> q.why,
   refused |-> q.refused, attempt |-> q.attempt]

LEMMA RequestTyped ==
  ASSUME NEW q \in UserRequest
  PROVE  /\ q.pc \in Stages /\ q.hotel \in Hotels /\ q.user \in Users /\ q.copy \in User
         /\ q.why \in Reasons /\ q.refused \in SUBSET Names /\ q.attempt \in 1..Attempts
         /\ q = Turned(q, q.pc, q.copy)
  BY DEF UserRequest, Turned, Stages, Reasons

LEMMA TurnedTyped ==
  ASSUME NEW q \in UserRequest, NEW pc \in Stages, NEW copy \in User
  PROVE  /\ Turned(q, pc, copy) \in UserRequest
         /\ Turned(q, pc, copy).pc = pc /\ Turned(q, pc, copy).copy = copy
         /\ Turned(q, pc, copy).user = q.user /\ Turned(q, pc, copy).hotel = q.hotel
         /\ Turned(q, pc, copy).why = q.why
  BY RequestTyped DEF Turned, UserRequest, Stages, Reasons

LEMMA TurnedIs ==
  ASSUME NEW q \in UserRequest, NEW pc, NEW copy
  PROVE  /\ [q EXCEPT !.pc = pc] = Turned(q, pc, q.copy)
         /\ [q EXCEPT !.pc = pc, !.copy = copy] = Turned(q, pc, copy)
PROOF
  <1>1. q = [pc |-> q.pc, hotel |-> q.hotel, user |-> q.user, copy |-> q.copy, why |-> q.why,
             refused |-> q.refused, attempt |-> q.attempt]
    BY RequestTyped DEF Turned
  <1>2. [q EXCEPT !.pc = pc] = Turned(q, pc, q.copy)
    BY <1>1 DEF Turned
  <1> PICK one : one = Turned(q, pc, q.copy)
    OBVIOUS
  <1>3. [one EXCEPT !.copy = copy] = Turned(q, pc, copy)
    BY DEF Turned
  <1>4. [q EXCEPT !.pc = pc, !.copy = copy] = [one EXCEPT !.copy = copy]
    BY <1>2
  <1> QED BY <1>2, <1>3, <1>4

\* The two together: a request at another stage is a request.
LEMMA StageTyped ==
  ASSUME NEW q \in UserRequest, NEW pc \in Stages
  PROVE  /\ [q EXCEPT !.pc = pc] \in UserRequest /\ [q EXCEPT !.pc = pc] \in Request
         /\ [q EXCEPT !.pc = pc].pc = pc /\ [q EXCEPT !.pc = pc].copy = q.copy
         /\ [q EXCEPT !.pc = pc].user = q.user /\ [q EXCEPT !.pc = pc].hotel = q.hotel
         /\ [q EXCEPT !.pc = pc].why = q.why
PROOF
  <1> PICK n : n = Turned(q, pc, q.copy)
    OBVIOUS
  <1>1. q.copy \in User
    BY RequestTyped
  <1>2. n \in UserRequest /\ n.pc = pc /\ n.copy = q.copy /\ n.user = q.user /\ n.hotel = q.hotel /\ n.why = q.why
    BY <1>1, TurnedTyped
  <1>3. [q EXCEPT !.pc = pc] = n
    BY TurnedIs
  <1> QED BY <1>2, <1>3 DEF Request

\* The copy with another name, account or status.
LEMMA UserFields ==
  ASSUME NEW row \in User, NEW name \in Names, NEW i \in Identities, NEW status \in UserStatuses
  PROVE  /\ [row EXCEPT !.username = name] \in User
         /\ [row EXCEPT !.username = name] =
              [hotel |-> row.hotel, username |-> name, email |-> row.email, identity |-> row.identity,
               status |-> row.status, signedIn |-> row.signedIn]
         /\ Recorded(row, i) \in User
         /\ Recorded(row, i) =
              [hotel |-> row.hotel, username |-> row.username, email |-> row.email, identity |-> i,
               status |-> row.status, signedIn |-> row.signedIn]
         /\ [row EXCEPT !.status = status] \in User
         /\ [row EXCEPT !.status = status] =
              [hotel |-> row.hotel, username |-> row.username, email |-> row.email,
               identity |-> row.identity, status |-> status, signedIn |-> row.signedIn]
PROOF
  <1>1. row = [hotel |-> row.hotel, username |-> row.username, email |-> row.email,
               identity |-> row.identity, status |-> row.status, signedIn |-> row.signedIn]
    BY DEF User
  <1>2. /\ row.hotel \in Hotels /\ row.username \in Names /\ row.email \in Emails
        /\ row.identity \in Identities \cup {NoIdentity} /\ row.status \in UserStatuses
        /\ row.signedIn \in BOOLEAN
    BY DEF User
  <1>3. [row EXCEPT !.username = name] =
              [hotel |-> row.hotel, username |-> name, email |-> row.email, identity |-> row.identity,
               status |-> row.status, signedIn |-> row.signedIn]
    BY <1>1
  <1>4. Recorded(row, i) =
              [hotel |-> row.hotel, username |-> row.username, email |-> row.email, identity |-> i,
               status |-> row.status, signedIn |-> row.signedIn]
    BY <1>1 DEF Recorded
  <1>5. [row EXCEPT !.status = status] =
              [hotel |-> row.hotel, username |-> row.username, email |-> row.email,
               identity |-> row.identity, status |-> status, signedIn |-> row.signedIn]
    BY <1>1
  <1>6. [row EXCEPT !.username = name] \in User
    BY <1>2, <1>3 DEF User
  <1>7. Recorded(row, i) \in User
    BY <1>2, <1>4 DEF User
  <1>8. [row EXCEPT !.status = status] \in User
    BY <1>2, <1>5 DEF User
  <1> QED BY <1>3, <1>4, <1>5, <1>6, <1>7, <1>8

\* The stage of a request tells its kind.
LEMMA KindOfRequest ==
  ASSUME NEW q \in Request
  PROVE  /\ q.pc \in Stages <=> q \in UserRequest
         /\ q.pc = "reserving" => q.hotel \in Hotels /\ q.email \in Emails /\ q.username \in Names
         /\ q.pc = "closing" => q.hotel \in Hotels /\ q.why \in {"archive", "remove"}
         /\ q.pc = "patching" => q.hotel \in Hotels /\ q.copy \in Hotel
         /\ q.pc = "idle" <=> q = Idle
         /\ q.pc \in Stages \cup {"reserving", "closing", "patching", "idle"}
  BY DEF Request, UserRequest, HotelRequest, Idle, Stages

LEMMA HotelRequestTyped ==
  ASSUME NEW h \in Hotels
  PROVE  /\ \A row \in Hotel : [pc |-> "patching", hotel |-> h, copy |-> row] \in Request \ UserRequest
         /\ \A why \in {"archive", "remove"} :
              [pc |-> "closing", hotel |-> h, why |-> why] \in Request \ UserRequest
         /\ \A email \in Emails, name \in Names :
              [pc |-> "reserving", hotel |-> h, email |-> email, username |-> name] \in Request \ UserRequest
  BY DEF Request, HotelRequest, UserRequest

LEMMA IdleTyped == Idle \in Request \ UserRequest
  BY DEF Request, UserRequest, Idle

\* A request that only goes on itself.
LEMMA HonestRequest ==
  ASSUME HonestInv, NEW r \in Requests, NEW n \in Request, Step(r, n) \/ Fault(r, n),
         UNCHANGED <<partner, users, tenant>>, n \in UserRequest => Honest(n)
  PROVE  HonestInv'
PROOF
  <1>1. requests' = [requests EXCEPT ![r] = n] /\ faults' \in 0..MaxFaults
    BY AccessBoundsAssumption DEF HonestInv, TypeOK, Step, Fault
  <1>2. UNCHANGED <<hotels, granted, booked, users, identities, foreign>>
    BY DEF partner, tenant
  <1>3. n \in UserRequest => Honest(n)'
    BY <1>2 DEF Honest, Answers
  <1>4. Later
    BY <1>2, UnchangedIsLater
  <1>5. /\ hotels \in [Hotels -> Hotel \cup {NoRow}] /\ granted \in [Hotels -> BOOLEAN]
        /\ booked \in [Hotels -> BOOLEAN] /\ users = [u \in Users |-> users[u]]
        /\ identities \in [Identities -> Account \cup {Unused, Gone}]
    BY DEF HonestInv, TypeOK
  <1> QED BY <1>1, <1>2, <1>3, <1>4, <1>5, HonestStep

\* A request that goes on and changes rows of access users.
LEMMA HonestUsers ==
  ASSUME HonestInv, NEW r \in Requests, NEW n \in Request, Step(r, n),
         UNCHANGED <<partner, tenant>>, n \in UserRequest => Honest(n),
         users' = [u \in Users |-> users'[u]],
         \A u \in Users :
           \/ users'[u] = users[u]
           \/ users'[u] = NoRow
           \/ users'[u] \in User /\ Truthful(users'[u]) /\ Answers(users'[u])
  PROVE  HonestInv'
PROOF
  <1>1. requests' = [requests EXCEPT ![r] = n] /\ faults' \in 0..MaxFaults
    BY DEF HonestInv, TypeOK, Step
  <1>2. UNCHANGED <<hotels, granted, booked, identities, foreign>>
    BY DEF partner, tenant
  <1>3. n \in UserRequest => Honest(n)'
    BY <1>2 DEF Honest, Answers
  <1>4. Later
    BY <1>2, UnchangedIsLater
  <1>5. /\ hotels \in [Hotels -> Hotel \cup {NoRow}] /\ granted \in [Hotels -> BOOLEAN]
        /\ booked \in [Hotels -> BOOLEAN] /\ identities \in [Identities -> Account \cup {Unused, Gone}]
    BY DEF HonestInv, TypeOK
  <1>6. \A u \in Users :
           \/ users'[u] = users[u]
           \/ users'[u] = NoRow
           \/ users'[u] \in User /\ Truthful(users'[u]) /\ Answers(users[u])'
    BY <1>2 DEF Answers
  <1> QED BY <1>1, <1>2, <1>3, <1>4, <1>5, <1>6, HonestStep

\* What a request reads of a row is what the row says.
LEMMA HonestReading ==
  ASSUME HonestInv, NEW u \in Rows, NEW why \in Reasons,
         NEW pc \in {"switching", "signingIn", "releasing", "saving"},
         pc = "releasing" => why \in Releasers
  PROVE  /\ UserStep(pc, u, users[u], why) \in Request
         /\ Honest(UserStep(pc, u, users[u], why))
PROOF
  <1>1. u \in Users /\ users[u] \in User
    BY DEF HonestInv, TypeOK, Rows
  <1>2. Truthful(users[u]) /\ Answers(users[u])
    BY DEF HonestInv
  <1>3. pc \in Stages /\ pc \notin {"offering", "renaming", "dropping"}
    BY DEF Stages
  <1> PICK n : n = UserStep(pc, u, users[u], why)
    OBVIOUS
  <1>4. n \in UserRequest /\ n.pc = pc /\ n.copy = users[u] /\ n.why = why
    BY <1>1, <1>3, UserStepTyped
  <1>5. n \in Request /\ Honest(n)
    BY <1>2, <1>3, <1>4 DEF Honest, Request
  <1> QED BY <1>5

LEMMA HotelsAreHonest ==
  ASSUME HonestInv, HotelStep PROVE HonestInv'
PROOF
  <1>1. UNCHANGED <<users, identities, foreign, requests, faults>>
    BY DEF HotelStep, CreateHotel, SetTours, Book, tenant, flight
  <1>2. /\ hotels' \in [Hotels -> Hotel \cup {NoRow}] /\ granted' \in [Hotels -> BOOLEAN]
        /\ booked' \in [Hotels -> BOOLEAN]
    BY DEF HonestInv, TypeOK, HotelStep, CreateHotel, SetTours, Book
  <1>3. TypeOK'
    BY <1>1, <1>2 DEF HonestInv, TypeOK
  <1> QED BY <1>1, <1>3 DEF HonestInv, Rows, Honest, Answers

LEMMA PartnersAreHonest ==
  ASSUME HonestInv, NEW r \in Requests, PartnerStep(r) PROVE HonestInv'
PROOF
  <1> PICK q \in Request : q = requests[r]
    BY DEF HonestInv, TypeOK, Request
  <1>1. ASSUME NEW h \in Hotels, StartPatch(r, h) PROVE HonestInv'
    <2>1. PICK row \in Hotel : Step(r, [pc |-> "patching", hotel |-> h, copy |-> row])
      BY <1>1 DEF StartPatch
    <2> PICK n : n = [pc |-> "patching", hotel |-> h, copy |-> row]
      OBVIOUS
    <2>2. n \in Request \ UserRequest /\ Step(r, n) /\ UNCHANGED <<partner, users, tenant>>
      BY <1>1, <2>1, HotelRequestTyped DEF StartPatch
    <2> QED BY <2>2, HonestRequest
  <1>2. ASSUME SavePatch(r) PROVE HonestInv'
    <2>1. q.hotel \in Hotels /\ q.copy \in Hotel
      BY <1>2, KindOfRequest DEF SavePatch
    <2>2. hotels' \in [Hotels -> Hotel \cup {NoRow}]
      BY <1>2, <2>1 DEF SavePatch, HonestInv, TypeOK
    <2>3. /\ UNCHANGED <<granted, booked, users, identities, foreign, faults>>
          /\ requests' = [requests EXCEPT ![r] = Idle]
      BY <1>2 DEF SavePatch, tenant, Step
    <2>4. Later /\ Idle \in Request \ UserRequest
      BY <2>3, UnchangedIsLater, IdleTyped
    <2>5. /\ granted' \in [Hotels -> BOOLEAN] /\ booked' \in [Hotels -> BOOLEAN]
          /\ users' = [u \in Users |-> users'[u]] /\ faults' \in 0..MaxFaults
          /\ identities' \in [Identities -> Account \cup {Unused, Gone}]
      BY <2>3 DEF HonestInv, TypeOK
    <2> QED BY <2>2, <2>3, <2>4, <2>5, HonestStep
  <1>3. ASSUME NEW h \in Hotels, NEW why \in {"archive", "remove"}, StartClosing(r, h, why) PROVE HonestInv'
    <2>1. ASSUME NEW u \in Rows, Step(r, UserStep("releasing", u, users[u], why)) PROVE HonestInv'
      <3> PICK n : n = UserStep("releasing", u, users[u], why)
        OBVIOUS
      <3>1. n \in Request /\ Honest(n)
        BY HonestReading DEF Reasons, Releasers
      <3> QED BY <1>3, <2>1, <3>1, HonestRequest DEF StartClosing
    <2>2. ASSUME Step(r, [pc |-> "closing", hotel |-> h, why |-> why]) PROVE HonestInv'
      <3> PICK n : n = [pc |-> "closing", hotel |-> h, why |-> why]
        OBVIOUS
      <3>1. n \in Request \ UserRequest
        BY HotelRequestTyped
      <3> QED BY <1>3, <2>2, <3>1, HonestRequest DEF StartClosing
    <2> QED BY <1>3, <2>1, <2>2 DEF StartClosing
  <1>4. ASSUME CloseHotel(r) PROVE HonestInv'
    <2>1. q.hotel \in Hotels
      BY <1>4, KindOfRequest DEF CloseHotel
    <2> PICK h \in Hotels : h = q.hotel
      BY <2>1
    <2>2. hotels' \in [Hotels -> Hotel \cup {NoRow}] /\ granted' \in [Hotels -> BOOLEAN]
      <3>1. hotels \in [Hotels -> Hotel \cup {NoRow}] /\ granted \in [Hotels -> BOOLEAN]
        BY DEF HonestInv, TypeOK
      <3>2. ASSUME hotels[h] # NoRow PROVE [hotels EXCEPT ![h].status = "archived"] \in [Hotels -> Hotel \cup {NoRow}]
        <4> PICK row \in Hotel : row = hotels[h]
          BY <3>1, <3>2
        <4>1. [row EXCEPT !.status = "archived"] \in Hotel
          BY DEF Hotel, HotelStatuses
        <4>2. [hotels EXCEPT ![h].status = "archived"] = [hotels EXCEPT ![h] = [row EXCEPT !.status = "archived"]]
          BY <3>1
        <4> QED BY <3>1, <4>1, <4>2
      <3> QED BY <1>4, <3>1, <3>2 DEF CloseHotel, GrantsRevoked
    <2>3. /\ UNCHANGED <<booked, identities, foreign, faults>> /\ requests' = [requests EXCEPT ![r] = Idle]
          /\ users' = [u \in Users |-> users'[u]]
          /\ \A u \in Users : users'[u] = users[u] \/ users'[u] = NoRow
      BY <1>4 DEF CloseHotel, tenant, Step, HonestInv, TypeOK
    <2>4. Later /\ Idle \in Request \ UserRequest
      BY <2>3, UnchangedIsLater, IdleTyped
    <2>5. /\ booked' \in [Hotels -> BOOLEAN] /\ faults' \in 0..MaxFaults
          /\ identities' \in [Identities -> Account \cup {Unused, Gone}]
      BY <2>3 DEF HonestInv, TypeOK
    <2> QED BY <2>2, <2>3, <2>4, <2>5, HonestStep
  <1> QED BY <1>1, <1>2, <1>3, <1>4 DEF PartnerStep

LEMMA CreatesAreHonest ==
  ASSUME HonestInv, NEW r \in Requests, CreateStep(r) PROVE HonestInv'
PROOF
  <1> PICK q \in Request : q = requests[r]
    BY DEF HonestInv, TypeOK, Request
  <1>k. q \in UserRequest => Honest(q)
    BY DEF HonestInv
  <1>i. Idle \in Request \ UserRequest
    BY IdleTyped
  <1>t. users \in [Users -> User \cup {NoRow}]
    BY DEF HonestInv, TypeOK
  <1>1. ASSUME NEW h \in Hotels, NEW email \in Emails, StartCreate(r, h, email) PROVE HonestInv'
    <2> PICK name : name = Min(FreeNames({}))
      OBVIOUS
    <2>1. name \in Names
      BY <1>1, FreeNameIsName DEF StartCreate
    <2> PICK n : n = [pc |-> "reserving", hotel |-> h, email |-> email, username |-> name]
      OBVIOUS
    <2>2. n \in Request \ UserRequest /\ Step(r, n) /\ UNCHANGED <<partner, users, tenant>>
      BY <1>1, <2>1, HotelRequestTyped DEF StartCreate
    <2> QED BY <2>2, HonestRequest
  <1>2. ASSUME Reserve(r) PROVE HonestInv'
    <2>1. q.hotel \in Hotels /\ q.email \in Emails /\ q.username \in Names
      BY <1>2, KindOfRequest DEF Reserve
    <2> PICK row : row = [hotel |-> q.hotel, username |-> q.username, email |-> q.email,
                          identity |-> NoIdentity, status |-> "invited", signedIn |-> FALSE]
      OBVIOUS
    <2>2. row \in User /\ Truthful(row) /\ Answers(row) /\ row.identity = NoIdentity
      BY <2>1 DEF User, UserStatuses, Truthful, Answers
    <2>3. PICK u \in Users :
            \/ users' = [users EXCEPT ![u] = row] /\ Step(r, UserStep("offering", u, row, "create"))
            \/ UNCHANGED users /\ Step(r, Idle)
      BY <1>2 DEF Reserve
    <2>4. UNCHANGED <<partner, tenant>>
      BY <1>2 DEF Reserve
    <2>5. CASE users' = [users EXCEPT ![u] = row] /\ Step(r, UserStep("offering", u, row, "create"))
      <3> PICK n : n = UserStep("offering", u, row, "create")
        OBVIOUS
      <3>1. n \in UserRequest /\ n.copy = row /\ n.pc = "offering"
        BY <2>2, UserStepTyped DEF Stages, Reasons
      <3>2. n \in Request /\ Honest(n)
        BY <2>2, <3>1 DEF Honest, Request
      <3>3. users' = [v \in Users |-> users'[v]] /\ \A v \in Users : users'[v] = users[v] \/ users'[v] = row
        BY <1>t, <2>5
      <3> QED BY <2>2, <2>4, <2>5, <3>2, <3>3, HonestUsers
    <2>6. CASE UNCHANGED users /\ Step(r, Idle)
      BY <1>i, <2>4, <2>6, HonestRequest
    <2> QED BY <2>3, <2>5, <2>6
  <1>3. ASSUME Offer(r) PROVE HonestInv'
    <2>1. q \in UserRequest /\ Honest(q) /\ q.copy \in User /\ q.pc = "offering" /\ UNCHANGED <<partner, users, foreign>>
      BY <1>3, <1>k, KindOfRequest, RequestTyped DEF Offer, Stages
    <2>2. q.copy.identity = NoIdentity /\ Truthful(q.copy)
      BY <2>1 DEF Honest
    <2> PICK copy \in User : copy = q.copy
      BY <2>1
    <2> PICK account : account = AccountFor(copy)
      OBVIOUS
    <2>3. account \in Account /\ account.username = copy.username /\ account.email = copy.email
      BY DEF AccountFor, Account, User
    <2> PICK undo : undo = [q EXCEPT !.pc = "undoing"]
      OBVIOUS
    <2>u. "undoing" \in Stages
      BY DEF Stages
    <2>4. undo \in UserRequest /\ undo \in Request /\ undo.pc = "undoing" /\ undo.copy = copy
      BY <2>1, <2>u, StageTyped, Zenon
    <2>5. Honest(undo) /\ Honest(undo)'
      BY <2>2, <2>4 DEF Honest, Answers
    <2>6. ASSUME NEW i \in Identities, identities[i] = Unused,
                 identities' = [identities EXCEPT ![i] = account],
                 \/ Step(r, [q EXCEPT !.pc = "saving", !.copy = Recorded(q.copy, i)])
                 \/ Fault(r, undo)
          PROVE  HonestInv'
      <3>1. identities \in [Identities -> Account \cup {Unused, Gone}]
        BY DEF HonestInv, TypeOK
      <3>2. /\ identities' \in [Identities -> Account \cup {Unused, Gone}]
            /\ identities'[i] = account
            /\ \A j \in Identities : j # i => identities'[j] = identities[j]
        BY <2>3, <2>6, <3>1
      <3>3. account # Unused /\ account # Gone
        BY <2>3, NothingAssumption
      <3>4. Later
        BY <2>6, <3>2, <3>3 DEF Later
      <3> PICK with \in User : with = Recorded(copy, i)
        BY UserFields, <2>1 DEF User
      <3>5. /\ with.identity = i /\ with.username = copy.username /\ with.email = copy.email
            /\ with.status = copy.status /\ with.signedIn = copy.signedIn
        <4>1. copy.username \in Names /\ copy.status \in UserStatuses
          BY DEF User
        <4>2. with = [hotel |-> copy.hotel, username |-> copy.username, email |-> copy.email, identity |-> i,
               status |-> copy.status, signedIn |-> copy.signedIn]
          BY <4>1, UserFields
        <4> QED BY <4>2
      <3>6. Truthful(with) /\ Answers(with)'
        BY <2>2, <2>3, <3>2, <3>3, <3>5 DEF Truthful, Answers
      <3> PICK save : save = [q EXCEPT !.pc = "saving", !.copy = with]
        OBVIOUS
      <3>7. save \in UserRequest /\ save.pc = "saving" /\ save.copy = with /\ save \in Request
        <4>1. "saving" \in Stages
          BY DEF Stages
        <4> PICK one : one = [q EXCEPT !.pc = "saving"]
          OBVIOUS
        <4>2. one = Turned(q, "saving", q.copy)
          BY <2>1, TurnedIs
        <4>3. save = [one EXCEPT !.copy = with]
          OBVIOUS
        <4>4. save = Turned(q, "saving", with)
          BY <4>2, <4>3 DEF Turned
        <4> QED BY <2>1, <4>1, <4>4, TurnedTyped DEF Request
      <3>8. Honest(save)'
        BY <3>6, <3>7 DEF Honest, Answers
      <3>9. PICK n \in Request : /\ requests' = [requests EXCEPT ![r] = n] /\ Honest(n)'
                                 /\ Step(r, n) \/ Fault(r, n)
        <4>1. CASE Step(r, [q EXCEPT !.pc = "saving", !.copy = Recorded(q.copy, i)])
          BY <3>7, <3>8, <4>1 DEF Step
        <4>2. CASE Fault(r, undo)
          <5>1. requests' = [requests EXCEPT ![r] = undo]
            BY <4>2 DEF Fault
          <5> QED BY <2>4, <2>5, <4>2, <5>1
        <4> QED BY <2>6, <4>1, <4>2
      <3>10. faults' \in 0..MaxFaults
        BY <3>9, AccessBoundsAssumption DEF HonestInv, TypeOK, Step, Fault
      <3>11. /\ hotels' \in [Hotels -> Hotel \cup {NoRow}] /\ granted' \in [Hotels -> BOOLEAN]
             /\ booked' \in [Hotels -> BOOLEAN] /\ users' = [u \in Users |-> users'[u]]
             /\ foreign' = foreign /\ \A u \in Users : users'[u] = users[u]
        BY <2>1 DEF HonestInv, TypeOK, partner
      <3> QED BY <3>2, <3>4, <3>9, <3>10, <3>11, HonestStep
    <2>7. ASSUME UNCHANGED identities, Fault(r, undo) PROVE HonestInv'
      BY <2>1, <2>4, <2>5, <2>7, HonestRequest DEF tenant
    <2>8. ASSUME UNCHANGED identities,
                 Step(r, IF q.attempt < Attempts /\ FreeNames({account.username}) # {}
                         THEN [q EXCEPT !.pc = "renaming", !.refused = @ \cup {account.username},
                                        !.copy.username = Min(FreeNames({account.username})),
                                        !.attempt = @ + 1]
                         ELSE undo)
          PROVE  HonestInv'
      <3>1. CASE q.attempt < Attempts /\ FreeNames({account.username}) # {}
        <4> PICK name \in Names : name = Min(FreeNames({account.username}))
          BY <3>1, FreeNameIsName
        <4> PICK n : n = [q EXCEPT !.pc = "renaming", !.refused = @ \cup {account.username},
                                   !.copy.username = name, !.attempt = @ + 1]
          OBVIOUS
        <4> PICK named \in User : named = [copy EXCEPT !.username = name]
          BY UserFields, <2>1 DEF User
        <4>1. named.status = copy.status /\ named.signedIn = copy.signedIn /\ named.identity = copy.identity
          BY DEF User
        <4>2. q = [pc |-> q.pc, hotel |-> q.hotel, user |-> q.user, copy |-> copy, why |-> q.why,
                   refused |-> q.refused, attempt |-> q.attempt]
          BY <2>1, RequestTyped DEF Turned
        <4>3. n = [pc |-> "renaming", hotel |-> q.hotel, user |-> q.user, copy |-> named, why |-> q.why,
                   refused |-> q.refused \cup {account.username}, attempt |-> q.attempt + 1]
          BY <4>2
        <4>4. q.attempt + 1 \in 1..Attempts
          BY <2>1, <3>1, RequestTyped, AccessBoundsAssumption
        <4>5. q.refused \cup {account.username} \in SUBSET Names
          BY <2>1, <2>3, RequestTyped DEF User
        <4>6. n \in UserRequest
          BY <2>1, <4>3, <4>4, <4>5, RequestTyped DEF UserRequest, Reasons
        <4>7. n \in Request /\ Honest(n)
          BY <2>2, <4>1, <4>3, <4>6 DEF Honest, Request, Truthful, Answers
        <4>8. Step(r, n)
          BY <2>8, <3>1
        <4> QED BY <2>1, <2>8, <4>7, <4>8, HonestRequest DEF tenant
      <3>2. CASE ~(q.attempt < Attempts /\ FreeNames({account.username}) # {})
        BY <2>1, <2>4, <2>5, <2>8, <3>2, HonestRequest DEF tenant
      <3> QED BY <3>1, <3>2
    <2> QED BY <1>3, <2>4, <2>6, <2>7, <2>8 DEF Offer
  <1>4. ASSUME Rename(r) PROVE HonestInv'
    <2>1. q \in UserRequest /\ Honest(q) /\ q.copy \in User /\ q.pc = "renaming" /\ q.user \in Users
      BY <1>4, <1>k, KindOfRequest, RequestTyped DEF Rename, Stages
    <2>2. PICK n \in Request : /\ n \in UserRequest /\ n.copy = q.copy /\ Step(r, n) /\ n.pc \in {"offering", "undoing"}
                               /\ UNCHANGED users \/ users' = [users EXCEPT ![q.user] = q.copy]
      <3>1. ASSUME NEW pc \in {"offering", "undoing"}
            PROVE [q EXCEPT !.pc = pc] \in UserRequest /\ [q EXCEPT !.pc = pc].copy = q.copy
                  /\ [q EXCEPT !.pc = pc] \in Request /\ [q EXCEPT !.pc = pc].pc = pc
        <4>1. pc \in Stages
          BY DEF Stages
        <4> QED BY <2>1, <4>1, StageTyped, Zenon
      <3> QED BY <1>4, <3>1 DEF Rename
    <2>3. Honest(n)
      BY <2>1, <2>2 DEF Honest
    <2>4. Truthful(q.copy) /\ Answers(q.copy)
      BY <2>1 DEF Honest
    <2>5. users' = [v \in Users |-> users'[v]] /\ \A v \in Users : users'[v] = users[v] \/ users'[v] = q.copy
      BY <1>t, <2>2
    <2>6. UNCHANGED <<partner, tenant>>
      BY <1>4 DEF Rename
    <2> QED BY <2>1, <2>2, <2>3, <2>4, <2>5, <2>6, HonestUsers
  <1>5. ASSUME Undo(r) PROVE HonestInv'
    <2>1. q \in UserRequest /\ q.user \in Users
      BY <1>5, KindOfRequest, RequestTyped DEF Undo, Stages
    <2>2. users' = [v \in Users |-> users'[v]] /\ \A v \in Users : users'[v] = users[v] \/ users'[v] = NoRow
      BY <1>5, <1>t, <2>1 DEF Undo, Deleted
    <2> QED BY <1>5, <1>i, <2>2, HonestUsers DEF Undo
  <1> QED BY <1>1, <1>2, <1>3, <1>4, <1>5 DEF CreateStep

\* An account that is blocked or unblocked stays what it was otherwise.
LEMMA BlockingKeeps ==
  ASSUME HonestInv, NEW i \in Accounts, NEW blocked \in BOOLEAN,
         identities' = [identities EXCEPT ![i].blocked = blocked]
  PROVE  /\ Later /\ identities' \in [Identities -> Account \cup {Unused, Gone}]
         /\ i \in Identities /\ identities'[i] \in Account /\ identities'[i].blocked = blocked
         /\ \A j \in Identities : j # i => identities'[j] = identities[j]
PROOF
  <1>1. identities \in [Identities -> Account \cup {Unused, Gone}] /\ i \in Identities /\ identities[i] \in Account
    BY DEF HonestInv, TypeOK, Accounts
  <1> PICK account \in Account : account = identities[i]
    BY <1>1
  <1> PICK new : new = [account EXCEPT !.blocked = blocked]
    OBVIOUS
  <1>2. new \in Account /\ new.username = account.username /\ new.email = account.email
        /\ new.blocked = blocked
    <2>1. account = [username |-> account.username, email |-> account.email, blocked |-> account.blocked]
          /\ account.username \in Names /\ account.email \in Emails
      BY DEF Account
    <2>2. new = [username |-> account.username, email |-> account.email, blocked |-> blocked]
      BY <2>1
    <2>3. new.username = account.username /\ new.email = account.email
      BY <2>2
    <2>4. new \in Account
      BY <2>1, <2>2 DEF Account
    <2>5. new.blocked = blocked
      BY <2>2, Zenon
    <2> QED BY <2>3, <2>4, <2>5
  <1>3. identities' = [identities EXCEPT ![i] = new]
    BY <1>1
  <1>4. identities' \in [Identities -> Account \cup {Unused, Gone}] /\ identities'[i] = new
        /\ \A j \in Identities : j # i => identities'[j] = identities[j]
    BY <1>1, <1>2, <1>3
  <1>5. new # Gone /\ new # Unused /\ account # Gone
    BY <1>2, NothingAssumption
  <1>6. Later
    BY <1>2, <1>4, <1>5 DEF Later
  <1>7. identities'[i].blocked = blocked
    BY <1>2, <1>4, Zenon
  <1>8. identities'[i] \in Account
    BY <1>2, <1>4
  <1> QED BY <1>1, <1>4, <1>6, <1>7, <1>8

LEMMA DeletingKeeps ==
  ASSUME HonestInv, NEW copy, identities' = [i \in Identities |-> IF i \in AccountsOf(copy) THEN Gone ELSE identities[i]]
  PROVE  /\ Later /\ identities' \in [Identities -> Account \cup {Unused, Gone}]
         /\ \A i \in Identities : IF i = copy.identity THEN identities'[i] = Gone ELSE identities'[i] = identities[i]
PROOF
  <1>1. identities \in [Identities -> Account \cup {Unused, Gone}]
    BY DEF HonestInv, TypeOK
  <1>2. identities' \in [Identities -> Account \cup {Unused, Gone}]
    BY <1>1
  <1>3. \A i \in Identities : IF i = copy.identity THEN identities'[i] = Gone ELSE identities'[i] = identities[i]
    BY NothingAssumption DEF AccountsOf
  <1>4. Later
    BY <1>3, NothingAssumption DEF Later
  <1> QED BY <1>2, <1>3, <1>4

\* What a sign-in writes of a row.
LEMMA SignInWrites ==
  ASSUME HonestInv, NEW u \in Rows,
         users' = [users EXCEPT ![u].status = "active", ![u].signedIn = TRUE]
  PROVE  /\ users[u] \in User /\ users'[u] \in User
         /\ users'[u].hotel = users[u].hotel /\ users'[u].username = users[u].username
         /\ users'[u].email = users[u].email /\ users'[u].identity = users[u].identity
         /\ users'[u].status = "active" /\ users'[u].signedIn = TRUE
         /\ users' = [v \in Users |-> users'[v]] /\ \A v \in Users \ {u} : users'[v] = users[v]
PROOF
  <1>1. users \in [Users -> User \cup {NoRow}] /\ u \in Users
    BY DEF HonestInv, TypeOK, Rows
  <1> PICK row \in User : row = users[u]
    BY <1>1 DEF Rows
  <1> PICK active : active = [hotel |-> row.hotel, username |-> row.username, email |-> row.email,
                              identity |-> row.identity, status |-> "active", signedIn |-> row.signedIn]
    OBVIOUS
  <1> PICK new : new = [hotel |-> row.hotel, username |-> row.username, email |-> row.email,
                        identity |-> row.identity, status |-> "active", signedIn |-> TRUE]
    OBVIOUS
  <1>2. [row EXCEPT !.status = "active"] = active
    BY DEF User
  <1>3. ASSUME NEW b
        PROVE  [active EXCEPT !.signedIn = b] =
                 [hotel |-> row.hotel, username |-> row.username, email |-> row.email,
                  identity |-> row.identity, status |-> "active", signedIn |-> b]
    OBVIOUS
  <1>4. [active EXCEPT !.signedIn = TRUE] = new
    BY <1>3, Zenon
  <1> PICK one : one = [users EXCEPT ![u].status = "active"]
    OBVIOUS
  <1>5. one = [users EXCEPT ![u] = active] /\ one[u] = active
    BY <1>1, <1>2
  <1>6. users' = [one EXCEPT ![u] = new]
    BY <1>4, <1>5
  <1>7. users' = [users EXCEPT ![u] = new]
    BY <1>1, <1>5, <1>6
  <1>8. users'[u] = new /\ users' = [v \in Users |-> users'[v]] /\ \A v \in Users \ {u} : users'[v] = users[v]
    BY <1>1, <1>7
  <1>9. new \in User /\ new.signedIn = TRUE /\ new.status = "active"
    BY DEF User, UserStatuses
  <1>10. new.hotel = row.hotel /\ new.username = row.username /\ new.email = row.email /\ new.identity = row.identity
    OBVIOUS
  <1> QED BY <1>8, <1>9, <1>10

LEMMA AccessIsHonest ==
  ASSUME HonestInv, NEW r \in Requests, AccessStep(r) PROVE HonestInv'
PROOF
  <1> PICK q \in Request : q = requests[r]
    BY DEF HonestInv, TypeOK, Request
  <1>k. q \in UserRequest => Honest(q) /\ q.copy \in User /\ q.user \in Users
    BY RequestTyped DEF HonestInv
  <1>i. Idle \in Request \ UserRequest
    BY IdleTyped
  <1>t. users \in [Users -> User \cup {NoRow}]
    BY DEF HonestInv, TypeOK
  <1>a. ASSUME NEW u \in Rows, NEW why \in Reasons, NEW pc \in {"switching", "signingIn", "releasing", "saving"},
               pc = "releasing" => why \in Releasers,
               Step(r, UserStep(pc, u, users[u], why)), UNCHANGED <<partner, users, tenant>>
        PROVE  HonestInv'
    <2> PICK n : n = UserStep(pc, u, users[u], why)
      OBVIOUS
    <2>1. n \in Request /\ Honest(n)
      BY <1>a, HonestReading
    <2> QED BY <1>a, <2>1, HonestRequest
  <1>1. ASSUME NEW u \in Rows, StartResend(r, u) PROVE HonestInv'
    BY <1>1, <1>a DEF StartResend, Reasons
  <1>2. ASSUME NEW u \in Rows, StartRelease(r, u) PROVE HonestInv'
    BY <1>2, <1>a DEF StartRelease, Reasons, Releasers
  <1>3. ASSUME NEW u \in Rows, StartSignIn(r, u) PROVE HonestInv'
    BY <1>3, <1>a DEF StartSignIn, Reasons
  <1>4. ASSUME NEW u \in Rows, NEW why \in {"enable", "disable"}, StartSwitch(r, u, why) PROVE HonestInv'
    BY <1>4, <1>a DEF StartSwitch, Reasons
  <1>5. ASSUME SaveUser(r) PROVE HonestInv'
    <2>1. q \in UserRequest
      BY <1>5, KindOfRequest DEF SaveUser, Stages
    <2>2. Truthful(q.copy) /\ Answers(q.copy)
      BY <1>k, <2>1 DEF Honest
    <2>3. users' = [v \in Users |-> users'[v]] /\ \A v \in Users : users'[v] = users[v] \/ users'[v] = q.copy
      BY <1>5, <1>k, <1>t, <2>1 DEF SaveUser
    <2> QED BY <1>5, <1>k, <1>i, <2>1, <2>2, <2>3, HonestUsers DEF SaveUser
  <1>6. ASSUME SwitchIdentity(r) PROVE HonestInv'
    <2>1. q \in UserRequest /\ Honest(q) /\ q.copy \in User /\ UNCHANGED <<partner, users, foreign>>
      BY <1>6, <1>k, KindOfRequest DEF SwitchIdentity, Stages
    <2> PICK copy \in User : copy = q.copy
      BY <2>1
    <2>2. Truthful(copy) /\ Answers(copy)
      BY <2>1 DEF Honest
    <2> PICK status \in UserStatuses : status = SwitchedStatus(q.why, copy)
      BY DEF SwitchedStatus, UserStatuses
    <2> PICK save : save = [q EXCEPT !.pc = "saving", !.copy.status = status]
      OBVIOUS
    <2> PICK switched \in User : switched = [copy EXCEPT !.status = status]
      BY UserFields, NamesAssumption DEF User
    <2>3. /\ switched.username = copy.username /\ switched.email = copy.email
          /\ switched.identity = copy.identity /\ switched.signedIn = copy.signedIn
          /\ switched.status = status
      BY DEF User
    <2>4. Truthful(switched) /\ Answers(switched)
      BY <2>2, <2>3 DEF Truthful, Answers, SwitchedStatus
    <2>5. save = Turned(q, "saving", switched)
      <3>1. q = [pc |-> q.pc, hotel |-> q.hotel, user |-> q.user, copy |-> copy, why |-> q.why,
                   refused |-> q.refused, attempt |-> q.attempt]
        BY <2>1, RequestTyped DEF Turned
      <3> QED BY <3>1 DEF Turned
    <2>6. save \in UserRequest /\ save \in Request /\ save.pc = "saving" /\ save.copy = switched
      BY <2>1, <2>5, TurnedTyped DEF Stages, Request
    <2>7. Honest(save)
      BY <2>4, <2>6 DEF Honest
    <2>8. CASE UNCHANGED identities /\ (Step(r, save) \/ Step(r, Idle))
      BY <1>i, <2>1, <2>6, <2>7, <2>8, HonestRequest DEF tenant
    <2>9. ASSUME NEW i \in Accounts, identities' = [identities EXCEPT ![i].blocked = Blocking(q.why)], Step(r, save)
          PROVE  HonestInv'
      <3> PICK blocked \in BOOLEAN : blocked = Blocking(q.why)
        BY DEF Blocking
      <3>4. identities' = [identities EXCEPT ![i].blocked = blocked]
        BY <2>9
      <3>6. Later /\ identities' \in [Identities -> Account \cup {Unused, Gone}]
        BY <3>4, BlockingKeeps
      <3>7. Answers(switched)'
        BY <2>4, <3>6, AnswersLater
      <3>8. Honest(save)'
        BY <2>4, <2>6, <3>7 DEF Honest, Answers
      <3>9. requests' = [requests EXCEPT ![r] = save] /\ faults' \in 0..MaxFaults
        BY <2>9 DEF Step, HonestInv, TypeOK
      <3>10. /\ hotels' \in [Hotels -> Hotel \cup {NoRow}] /\ granted' \in [Hotels -> BOOLEAN]
             /\ booked' \in [Hotels -> BOOLEAN] /\ users' = [u \in Users |-> users'[u]]
             /\ foreign' = foreign /\ \A u \in Users : users'[u] = users[u]
        BY <2>1 DEF HonestInv, TypeOK, partner
      <3> QED BY <2>6, <3>6, <3>8, <3>9, <3>10, HonestStep
    <2> QED BY <1>6, <2>8, <2>9 DEF SwitchIdentity
  <1>7. ASSUME DeleteIdentity(r) PROVE HonestInv'
    <2>1. q \in UserRequest /\ Honest(q) /\ UNCHANGED <<partner, users, foreign>>
      BY <1>7, <1>k, KindOfRequest DEF DeleteIdentity, Stages
    <2> PICK n : n = [q EXCEPT !.pc = "dropping"]
      OBVIOUS
    <2>d. "dropping" \in Stages
      BY DEF Stages
    <2>2. n \in UserRequest /\ n \in Request /\ n.pc = "dropping" /\ n.copy = q.copy /\ n.why = q.why
      BY <2>1, <2>d, StageTyped, Zenon
    <2>3. /\ identities' = [i \in Identities |-> IF i \in AccountsOf(q.copy) THEN Gone ELSE identities[i]]
          /\ requests' = [requests EXCEPT ![r] = n] /\ UNCHANGED faults
      BY <1>7 DEF DeleteIdentity, Step
    <2>6. Later /\ identities' \in [Identities -> Account \cup {Unused, Gone}]
      BY <2>3, DeletingKeeps
    <2>7. Answers(q.copy)'
      BY <1>k, <2>1, <2>6, AnswersLater DEF Honest
    <2>r. q.pc = "releasing"
      BY <1>7 DEF DeleteIdentity
    <2>8. Honest(n)'
      BY <2>1, <2>2, <2>7, <2>r DEF Honest, Answers
    <2>9. /\ hotels' \in [Hotels -> Hotel \cup {NoRow}] /\ granted' \in [Hotels -> BOOLEAN]
          /\ booked' \in [Hotels -> BOOLEAN] /\ users' = [u \in Users |-> users'[u]]
          /\ foreign' = foreign /\ (\A u \in Users : users'[u] = users[u]) /\ faults' \in 0..MaxFaults
      BY <2>1, <2>3 DEF HonestInv, TypeOK, partner
    <2> QED BY <2>2, <2>3, <2>6, <2>8, <2>9, HonestStep
  <1>8. ASSUME DropUser(r) PROVE HonestInv'
    <2>1. q \in UserRequest /\ q.user \in Users /\ q.hotel \in Hotels
      BY <1>8, KindOfRequest, RequestTyped DEF DropUser, Stages
    <2>2. users' = [v \in Users |-> users'[v]] /\ \A v \in Users : users'[v] = users[v] \/ users'[v] = NoRow
      BY <1>8, <1>t, <2>1 DEF DropUser
    <2>3. PICK n \in Request \ UserRequest : Step(r, n)
      <3>1. CASE q.why \in {"archive", "remove"}
        BY <1>8, <1>i, <2>1, <3>1, HotelRequestTyped DEF DropUser
      <3>2. CASE q.why = "release"
        BY <1>8, <1>i, <3>2 DEF DropUser
      <3>3. q.why \in Releasers
        BY <1>8, <1>k, <2>1 DEF DropUser, Honest
      <3> QED BY <3>1, <3>2, <3>3 DEF Releasers
    <2> QED BY <1>8, <2>2, <2>3, HonestUsers DEF DropUser
  <1>9. ASSUME CompleteSignIn(r) PROVE HonestInv'
    <2> PICK u : u = q.user
      OBVIOUS
    <2>1. u \in Users
      BY <1>9, <1>k, KindOfRequest DEF CompleteSignIn, Stages
    <2>2. CASE u \notin Rows
      BY <1>9, <1>i, <2>2, HonestRequest DEF CompleteSignIn
    <2>3. CASE u \in Rows
      <3>1. users' = [users EXCEPT ![u].status = "active", ![u].signedIn = TRUE]
        BY <1>9, <2>3 DEF CompleteSignIn
      <3> PICK row : row = users[u]
        OBVIOUS
      <3> PICK new : new = users'[u]
        OBVIOUS
      <3>2. /\ new \in User /\ new.username = row.username /\ new.email = row.email
            /\ new.identity = row.identity /\ new.signedIn = TRUE
        BY <2>3, <3>1, SignInWrites
      <3>3. users' = [v \in Users |-> users'[v]] /\ \A v \in Users : users'[v] = users[v] \/ users'[v] = new
        BY <2>3, <3>1, SignInWrites
      <3>4. Answers(row)
        BY <2>3 DEF HonestInv
      <3>5. Truthful(new) /\ Answers(new)
        BY <3>2, <3>4 DEF Truthful, Answers
      <3> QED BY <1>9, <1>i, <3>2, <3>3, <3>5, HonestUsers DEF CompleteSignIn
    <2> QED BY <2>2, <2>3
  <1> QED BY <1>1, <1>2, <1>3, <1>4, <1>5, <1>6, <1>7, <1>8, <1>9 DEF AccessStep

LEMMA HonestInit == Init => HonestInv
PROOF
  <1> SUFFICES ASSUME Init PROVE HonestInv
    OBVIOUS
  <1>1. 0 \in 0..MaxFaults
    BY AccessBoundsAssumption
  <1>2. TypeOK
    BY <1>1 DEF Init, TypeOK
  <1>3. Rows = {} /\ \A r \in Requests : requests[r] \notin UserRequest
    BY IdleTyped DEF Init, Rows
  <1> QED BY <1>2, <1>3 DEF HonestInv

LEMMA HonestNext == HonestInv /\ [Next]_vars => HonestInv'
PROOF
  <1> SUFFICES ASSUME HonestInv, [Next]_vars PROVE HonestInv'
    OBVIOUS
  <1>1. ASSUME NEW r \in Requests, Crash(r) PROVE HonestInv'
    BY <1>1, IdleTyped, HonestRequest DEF Crash
  <1>2. CASE UNCHANGED vars
    BY <1>2 DEF vars, HonestInv, TypeOK, Rows, Honest, Truthful, Answers
  <1> QED BY <1>1, <1>2, HotelsAreHonest, PartnersAreHonest, CreatesAreHonest, AccessIsHonest DEF Next

LEMMA HonestAlways == Spec => []HonestInv
PROOF
  <1> QED BY HonestInit, HonestNext, PTL DEF Spec

\* However requests overlap, processes die and answers get lost, a row says what is
\* true: its account answers to its username and its address, and only a sign-in
\* makes it active.
THEOREM RowsAreTruthful == Spec => []RowsTellTheTruth
PROOF
  <1>1. ASSUME HonestInv PROVE RowsTellTheTruth
    <2>1. ASSUME NEW u \in Rows
          PROVE  /\ users[u].status = "active" => users[u].signedIn
                 /\ users[u].identity \in Accounts =>
                      /\ identities[users[u].identity].username = users[u].username
                      /\ identities[users[u].identity].email = users[u].email
      <3> PICK row : row = users[u]
        OBVIOUS
      <3>1. Truthful(row) /\ Answers(row)
        BY <1>1 DEF HonestInv
      <3>2. row.identity \in Accounts => row.identity # NoIdentity
        BY NothingAssumption DEF Accounts
      <3> QED BY <3>1, <3>2 DEF Truthful, Answers, Accounts
    <2>2. TypeOK
      BY <1>1 DEF HonestInv
    <2> QED BY <2>1, <2>2 DEF RowsTellTheTruth
  <1> QED BY <1>1, HonestAlways, PTL

(***************************************************************************)
(* Whose an account is, however requests overlap.                          *)
(*                                                                         *)
(* A row or a request that has an account claims it for its user and its   *)
(* hotel.  The first claim comes with the account, from the request that   *)
(* has it made; every later one is read or written from an earlier one.    *)
(***************************************************************************)

Claim(u, h, i) ==
  \/ u \in Rows /\ users[u].hotel = h /\ users[u].identity = i
  \/ \E r \in Requests : Holds(r, i) /\ requests[r].user = u /\ requests[r].hotel = h

OwnedInv ==
  /\ \A r \in Requests : requests[r] \in UserRequest => requests[r].copy.hotel = requests[r].hotel
  /\ \A i \in Identities : \A u, v, g, h : Claim(u, g, i) /\ Claim(v, h, i) => u = v /\ g = h

\* An account not given out yet is nobody's.
LEMMA UnusedIsUnclaimed ==
  ASSUME HonestInv, NEW i \in Identities, identities[i] = Unused, NEW u, NEW h
  PROVE  ~Claim(u, h, i)
PROOF
  <1>1. i # NoIdentity
    BY NothingAssumption
  <1>2. ASSUME NEW v \in Rows, users[v].identity = i PROVE FALSE
    BY <1>1, <1>2 DEF HonestInv, Answers
  <1>3. ASSUME NEW r \in Requests, Holds(r, i) PROVE FALSE
    BY <1>1, <1>3 DEF HonestInv, Honest, Answers, Holds
  <1> QED BY <1>2, <1>3 DEF Claim

\* What a request goes on with: no account, one it or a row has, or one just given out.
Inherits(n) ==
  n \in UserRequest =>
    /\ n.copy.hotel = n.hotel
    /\ \/ n.copy.identity = NoIdentity
       \/ Claim(n.user, n.hotel, n.copy.identity)
       \/ n.copy.identity \in Identities /\ identities[n.copy.identity] = Unused

LEMMA OwnedStep ==
  ASSUME HonestInv, OwnedInv, NEW r \in Requests, NEW n, Inherits(n),
         requests' = [requests EXCEPT ![r] = n],
         \A u \in Users :
           \/ users'[u] = users[u]
           \/ users'[u] = NoRow
           \/ users'[u].identity = NoIdentity
           \/ Claim(u, users'[u].hotel, users'[u].identity)
  PROVE  OwnedInv'
PROOF
  <1>1. requests' = [s \in Requests |-> IF s = r THEN n ELSE requests[s]]
    BY DEF HonestInv, TypeOK
  <1>2. ASSUME NEW s \in Requests, requests'[s] \in UserRequest
        PROVE  requests'[s].copy.hotel = requests'[s].hotel
    BY <1>1, <1>2 DEF Inherits, OwnedInv
  <1>3. ASSUME NEW i \in Identities, NEW u, NEW h, Claim(u, h, i)'
        PROVE  \/ Claim(u, h, i)
               \/ identities[i] = Unused /\ u = n.user /\ h = n.hotel
    <2>1. i # NoIdentity
      BY NothingAssumption
    <2>2. CASE u \in Rows' /\ users'[u].hotel = h /\ users'[u].identity = i
      <3>1. u \in Users /\ users'[u] # NoRow
        BY <2>2 DEF Rows
      <3>2. CASE users'[u] = users[u]
        BY <2>2, <3>1, <3>2 DEF Claim, Rows
      <3> QED BY <2>1, <2>2, <3>1, <3>2
    <2>3. ASSUME NEW s \in Requests, Holds(s, i)', requests'[s].user = u, requests'[s].hotel = h
          PROVE  \/ Claim(u, h, i)
                 \/ identities[i] = Unused /\ u = n.user /\ h = n.hotel
      <3>1. CASE s = r
        BY <1>1, <2>1, <2>3, <3>1 DEF Holds, Inherits
      <3>2. CASE s # r
        BY <1>1, <2>3, <3>2 DEF Holds, Claim
      <3> QED BY <3>1, <3>2
    <2> QED BY <1>3, <2>2, <2>3 DEF Claim
  <1>4. ASSUME NEW i \in Identities, NEW u, NEW v, NEW g, NEW h, Claim(u, g, i)', Claim(v, h, i)'
        PROVE  u = v /\ g = h
    <2>1. CASE identities[i] = Unused
      BY <1>3, <1>4, <2>1, UnusedIsUnclaimed
    <2>2. CASE identities[i] # Unused
      BY <1>3, <1>4, <2>2 DEF OwnedInv
    <2> QED BY <2>1, <2>2
  <1> QED BY <1>2, <1>4 DEF OwnedInv

\* What a request has it may go on with.
LEMMA OwnClaim ==
  ASSUME HonestInv, OwnedInv, NEW r \in Requests, NEW q, q = requests[r], q \in UserRequest
  PROVE  /\ q.copy.hotel = q.hotel
         /\ Claim(q.user, q.hotel, q.copy.identity)
  BY DEF OwnedInv, Claim, Holds

LEMMA RowClaim ==
  ASSUME NEW u \in Rows PROVE Claim(u, users[u].hotel, users[u].identity)
  BY DEF Claim

\* A request that starts goes on with what it read of the row.
LEMMA ReadingInherits ==
  ASSUME HonestInv, NEW u \in Rows, NEW why \in Reasons, NEW pc \in Stages
  PROVE  Inherits(UserStep(pc, u, users[u], why))
PROOF
  <1>1. u \in Users /\ users[u] \in User
    BY DEF HonestInv, TypeOK, Rows
  <1> PICK n : n = UserStep(pc, u, users[u], why)
    OBVIOUS
  <1>2. n.copy = users[u] /\ n.user = u /\ n.hotel = users[u].hotel
    BY <1>1, UserStepTyped
  <1> QED BY <1>2, RowClaim DEF Inherits

LEMMA HotelsKeepOwners ==
  ASSUME HonestInv, OwnedInv, UNCHANGED <<users, requests>> PROVE OwnedInv'
  BY DEF OwnedInv, Claim, Holds, Rows

LEMMA PartnersKeepOwners ==
  ASSUME HonestInv, OwnedInv, NEW r \in Requests, PartnerStep(r) PROVE OwnedInv'
PROOF
  <1>i. Inherits(Idle)
    BY IdleTyped DEF Inherits
  <1>1. ASSUME NEW h \in Hotels, StartPatch(r, h) PROVE OwnedInv'
    <2>1. PICK row \in Hotel : Step(r, [pc |-> "patching", hotel |-> h, copy |-> row])
      BY <1>1 DEF StartPatch
    <2> PICK n : n = [pc |-> "patching", hotel |-> h, copy |-> row]
      OBVIOUS
    <2>2. Inherits(n)
      BY HotelRequestTyped DEF Inherits
    <2> QED BY <1>1, <2>1, <2>2, OwnedStep DEF StartPatch, Step
  <1>2. ASSUME SavePatch(r) PROVE OwnedInv'
    BY <1>2, <1>i, OwnedStep DEF SavePatch, Step
  <1>3. ASSUME NEW h \in Hotels, NEW why \in {"archive", "remove"}, StartClosing(r, h, why) PROVE OwnedInv'
    <2>1. ASSUME NEW u \in Rows, Step(r, UserStep("releasing", u, users[u], why)) PROVE OwnedInv'
      <3> PICK n : n = UserStep("releasing", u, users[u], why)
        OBVIOUS
      <3>1. Inherits(n)
        BY ReadingInherits DEF Reasons, Stages
      <3> QED BY <1>3, <2>1, <3>1, OwnedStep DEF StartClosing, Step
    <2>2. ASSUME Step(r, [pc |-> "closing", hotel |-> h, why |-> why]) PROVE OwnedInv'
      <3> PICK n : n = [pc |-> "closing", hotel |-> h, why |-> why]
        OBVIOUS
      <3>1. Inherits(n)
        BY HotelRequestTyped DEF Inherits
      <3> QED BY <1>3, <2>2, <3>1, OwnedStep DEF StartClosing, Step
    <2> QED BY <1>3, <2>1, <2>2 DEF StartClosing
  <1>4. ASSUME CloseHotel(r) PROVE OwnedInv'
    <2>1. requests' = [requests EXCEPT ![r] = Idle]
          /\ \A u \in Users : users'[u] = users[u] \/ users'[u] = NoRow
      BY <1>4 DEF CloseHotel, Step
    <2> QED BY <1>i, <2>1, OwnedStep
  <1> QED BY <1>1, <1>2, <1>3, <1>4 DEF PartnerStep

LEMMA CreatesKeepOwners ==
  ASSUME HonestInv, OwnedInv, NEW r \in Requests, CreateStep(r) PROVE OwnedInv'
PROOF
  <1> PICK q \in Request : q = requests[r]
    BY DEF HonestInv, TypeOK, Request
  <1>i. Inherits(Idle)
    BY IdleTyped DEF Inherits
  <1>t. users \in [Users -> User \cup {NoRow}]
    BY DEF HonestInv, TypeOK
  <1>s. ASSUME NEW pc \in Stages, q \in UserRequest
        PROVE  Inherits([q EXCEPT !.pc = pc])
    <2> PICK n : n = [q EXCEPT !.pc = pc]
      OBVIOUS
    <2>1. n.copy = q.copy /\ n.user = q.user /\ n.hotel = q.hotel
      BY <1>s, StageTyped, Zenon
    <2> QED BY <1>s, <2>1, OwnClaim DEF Inherits
  <1>1. ASSUME NEW h \in Hotels, NEW email \in Emails, StartCreate(r, h, email) PROVE OwnedInv'
    <2> PICK name : name = Min(FreeNames({}))
      OBVIOUS
    <2>1. name \in Names
      BY <1>1, FreeNameIsName DEF StartCreate
    <2> PICK n : n = [pc |-> "reserving", hotel |-> h, email |-> email, username |-> name]
      OBVIOUS
    <2>2. Inherits(n)
      BY <2>1, HotelRequestTyped DEF Inherits
    <2> QED BY <1>1, <2>2, OwnedStep DEF StartCreate, Step
  <1>2. ASSUME Reserve(r) PROVE OwnedInv'
    <2>1. q.hotel \in Hotels /\ q.email \in Emails /\ q.username \in Names
      BY <1>2, KindOfRequest DEF Reserve
    <2> PICK row : row = [hotel |-> q.hotel, username |-> q.username, email |-> q.email,
                          identity |-> NoIdentity, status |-> "invited", signedIn |-> FALSE]
      OBVIOUS
    <2>2. row \in User /\ row.identity = NoIdentity
      BY <2>1 DEF User, UserStatuses
    <2>3. PICK u \in Users :
            \/ users' = [users EXCEPT ![u] = row] /\ Step(r, UserStep("offering", u, row, "create"))
            \/ UNCHANGED users /\ Step(r, Idle)
      BY <1>2 DEF Reserve
    <2>4. CASE users' = [users EXCEPT ![u] = row] /\ Step(r, UserStep("offering", u, row, "create"))
      <3> PICK n : n = UserStep("offering", u, row, "create")
        OBVIOUS
      <3>1. n.copy = row /\ n.hotel = row.hotel
        BY <2>2, UserStepTyped DEF Stages, Reasons
      <3>2. Inherits(n)
        BY <2>2, <3>1 DEF Inherits
      <3>3. \A v \in Users : users'[v] = users[v] \/ users'[v] = row
        BY <1>t, <2>4
      <3> QED BY <2>2, <2>4, <3>2, <3>3, OwnedStep DEF Step
    <2>5. CASE UNCHANGED users /\ Step(r, Idle)
      BY <1>i, <2>5, OwnedStep DEF Step
    <2> QED BY <2>3, <2>4, <2>5
  <1>3. ASSUME Offer(r) PROVE OwnedInv'
    <2>1. q \in UserRequest /\ q.copy \in User /\ q.hotel \in Hotels /\ q.user \in Users /\ users' = users
          /\ q.copy.hotel = q.hotel /\ q.copy.identity = NoIdentity
      <3>1. q \in UserRequest /\ q.pc = "offering" /\ users' = users
        BY <1>3, KindOfRequest DEF Offer, Stages
      <3>2. Honest(q)
        BY <3>1 DEF HonestInv
      <3> QED BY <3>1, <3>2, RequestTyped, OwnClaim DEF Honest
    <2> PICK copy \in User : copy = q.copy
      BY <2>1
    <2> PICK undo : undo = [q EXCEPT !.pc = "undoing"]
      OBVIOUS
    <2>2. Inherits(undo)
      BY <1>s, <2>1 DEF Stages
    <2>3. ASSUME requests' = [requests EXCEPT ![r] = undo] PROVE OwnedInv'
      BY <2>1, <2>2, <2>3, OwnedStep
    <2>4. ASSUME NEW i \in Identities, identities[i] = Unused,
                 Step(r, [q EXCEPT !.pc = "saving", !.copy = Recorded(q.copy, i)])
          PROVE  OwnedInv'
      <3> PICK with : with = Recorded(copy, i)
        OBVIOUS
      <3> PICK save : save = [q EXCEPT !.pc = "saving", !.copy = with]
        OBVIOUS
      <3>1. with.identity = i /\ with.hotel = copy.hotel
        <4>1. copy.username \in Names /\ copy.status \in UserStatuses
          BY DEF User
        <4>2. with = [hotel |-> copy.hotel, username |-> copy.username, email |-> copy.email, identity |-> i,
               status |-> copy.status, signedIn |-> copy.signedIn]
          BY <4>1, UserFields
        <4> QED BY <4>2
      <3>2. save = Turned(q, "saving", with)
        <4> PICK one : one = [q EXCEPT !.pc = "saving"]
          OBVIOUS
        <4>1. one = Turned(q, "saving", q.copy)
          BY <2>1, TurnedIs
        <4>2. save = [one EXCEPT !.copy = with]
          OBVIOUS
        <4> QED BY <4>1, <4>2 DEF Turned
      <3>3. save.copy = with /\ save.hotel = q.hotel
        BY <3>2 DEF Turned
      <3>4. Inherits(save)
        BY <2>1, <2>4, <3>1, <3>3 DEF Inherits
      <3> QED BY <2>1, <2>4, <3>4, OwnedStep DEF Step
    <2>5. ASSUME NEW name, NEW refused, NEW attempt,
                 Step(r, [q EXCEPT !.pc = "renaming", !.refused = refused,
                                   !.copy.username = name, !.attempt = attempt])
          PROVE  OwnedInv'
      <3> PICK named : named = [copy EXCEPT !.username = name]
        OBVIOUS
      <3> PICK n : n = [q EXCEPT !.pc = "renaming", !.refused = refused,
                                 !.copy.username = name, !.attempt = attempt]
        OBVIOUS
      <3>1. named.hotel = copy.hotel /\ named.identity = copy.identity
        BY DEF User
      <3>2. q = [pc |-> q.pc, hotel |-> q.hotel, user |-> q.user, copy |-> copy, why |-> q.why,
                 refused |-> q.refused, attempt |-> q.attempt]
        BY <2>1, RequestTyped DEF Turned
      <3>3. n = [pc |-> "renaming", hotel |-> q.hotel, user |-> q.user, copy |-> named, why |-> q.why,
                 refused |-> refused, attempt |-> attempt]
        BY <3>2
      <3>4. Inherits(n)
        BY <2>1, <3>1, <3>3 DEF Inherits
      <3> QED BY <2>1, <2>5, <3>4, OwnedStep DEF Step
    <2> PICK name : name = AccountFor(q.copy).username
      OBVIOUS
    <2>6. \/ \E i \in Identities :
               identities[i] = Unused
                 /\ Step(r, [q EXCEPT !.pc = "saving", !.copy = Recorded(q.copy, i)])
          \/ Step(r, IF q.attempt < Attempts /\ FreeNames({name}) # {}
                     THEN [q EXCEPT !.pc = "renaming", !.refused = @ \cup {name},
                                    !.copy.username = Min(FreeNames({name})),
                                    !.attempt = @ + 1]
                     ELSE undo)
          \/ Fault(r, undo)
      BY <1>3 DEF Offer
    <2>7. Fault(r, undo) => requests' = [requests EXCEPT ![r] = undo]
      BY DEF Fault
    <2>8. Step(r, undo) => requests' = [requests EXCEPT ![r] = undo]
      BY DEF Step
    <2>9. CASE q.attempt < Attempts /\ FreeNames({name}) # {}
      BY <2>3, <2>4, <2>5, <2>6, <2>7, <2>9
    <2>10. CASE ~(q.attempt < Attempts /\ FreeNames({name}) # {})
      BY <2>3, <2>4, <2>6, <2>7, <2>8, <2>10
    <2> QED BY <2>9, <2>10
  <1>4. ASSUME Rename(r) PROVE OwnedInv'
    <2>1. q \in UserRequest /\ q.user \in Users /\ q.copy.hotel = q.hotel
          /\ Claim(q.user, q.hotel, q.copy.identity)
      <3>1. q \in UserRequest
        BY <1>4, KindOfRequest DEF Rename, Stages
      <3> QED BY <3>1, RequestTyped, OwnClaim
    <2>2. PICK pc \in {"offering", "undoing"} :
            /\ Step(r, [q EXCEPT !.pc = pc])
            /\ UNCHANGED users \/ users' = [users EXCEPT ![q.user] = q.copy]
      BY <1>4 DEF Rename
    <2> PICK n : n = [q EXCEPT !.pc = pc]
      OBVIOUS
    <2>3. Inherits(n)
      BY <1>s, <2>1 DEF Stages
    <2>4. \A v \in Users : users'[v] = users[v] \/ (v = q.user /\ users'[v] = q.copy)
      BY <1>t, <2>1, <2>2
    <2>5. \A v \in Users : users'[v] = users[v] \/ Claim(v, users'[v].hotel, users'[v].identity)
      BY <2>1, <2>4
    <2>6. requests' = [requests EXCEPT ![r] = n]
      BY <2>2 DEF Step
    <2> QED BY <2>3, <2>5, <2>6, OwnedStep
  <1>5. ASSUME Undo(r) PROVE OwnedInv'
    <2>1. \A v \in Users : users'[v] = users[v] \/ users'[v] = NoRow
      BY <1>5, <1>t DEF Undo, Deleted
    <2> QED BY <1>5, <1>i, <2>1, OwnedStep DEF Undo, Step
  <1> QED BY <1>1, <1>2, <1>3, <1>4, <1>5 DEF CreateStep

LEMMA AccessKeepsOwners ==
  ASSUME HonestInv, OwnedInv, NEW r \in Requests, AccessStep(r) PROVE OwnedInv'
PROOF
  <1> PICK q \in Request : q = requests[r]
    BY DEF HonestInv, TypeOK, Request
  <1>i. Inherits(Idle)
    BY IdleTyped DEF Inherits
  <1>t. users \in [Users -> User \cup {NoRow}]
    BY DEF HonestInv, TypeOK
  <1>k. q \in UserRequest =>
          /\ q.copy \in User /\ q.user \in Users /\ q.copy.hotel = q.hotel
          /\ Claim(q.user, q.hotel, q.copy.identity)
    BY RequestTyped, OwnClaim
  <1>a. ASSUME NEW u \in Rows, NEW why \in Reasons, NEW pc \in Stages,
               Step(r, UserStep(pc, u, users[u], why)), UNCHANGED users
        PROVE  OwnedInv'
    <2> PICK n : n = UserStep(pc, u, users[u], why)
      OBVIOUS
    <2>1. Inherits(n)
      BY <1>a, ReadingInherits
    <2> QED BY <1>a, <2>1, OwnedStep DEF Step
  <1>1. ASSUME NEW u \in Rows, StartResend(r, u) \/ StartRelease(r, u) \/ StartSignIn(r, u) PROVE OwnedInv'
    BY <1>1, <1>a DEF StartResend, StartRelease, StartSignIn, Reasons, Stages
  <1>2. ASSUME NEW u \in Rows, NEW why \in {"enable", "disable"}, StartSwitch(r, u, why) PROVE OwnedInv'
    BY <1>2, <1>a DEF StartSwitch, Reasons, Stages
  <1>3. ASSUME SaveUser(r) PROVE OwnedInv'
    <2>1. q \in UserRequest
      BY <1>3, KindOfRequest DEF SaveUser, Stages
    <2>2. \A v \in Users : users'[v] = users[v] \/ (v = q.user /\ users'[v] = q.copy)
      BY <1>3, <1>k, <1>t, <2>1 DEF SaveUser
    <2> QED BY <1>3, <1>k, <1>i, <2>1, <2>2, OwnedStep DEF SaveUser, Step
  <1>4. ASSUME SwitchIdentity(r) PROVE OwnedInv'
    <2>1. q \in UserRequest /\ users' = users
      BY <1>4, KindOfRequest DEF SwitchIdentity, Stages
    <2> PICK copy \in User : copy = q.copy
      BY <1>k, <2>1
    <2> PICK status : status = SwitchedStatus(q.why, copy)
      OBVIOUS
    <2> PICK switched : switched = [copy EXCEPT !.status = status]
      OBVIOUS
    <2> PICK save : save = [q EXCEPT !.pc = "saving", !.copy.status = status]
      OBVIOUS
    <2>2. switched.hotel = copy.hotel /\ switched.identity = copy.identity
      BY DEF User
    <2>3. save = Turned(q, "saving", switched)
      <3>1. q = [pc |-> q.pc, hotel |-> q.hotel, user |-> q.user, copy |-> copy, why |-> q.why,
                   refused |-> q.refused, attempt |-> q.attempt]
        BY <2>1, RequestTyped DEF Turned
      <3> QED BY <3>1 DEF Turned
    <2>4. Inherits(save)
      BY <1>k, <2>1, <2>2, <2>3 DEF Inherits, Turned
    <2>5. Step(r, save) \/ Step(r, Idle)
      BY <1>4 DEF SwitchIdentity
    <2> QED BY <1>i, <2>1, <2>4, <2>5, OwnedStep DEF Step
  <1>5. ASSUME DeleteIdentity(r) PROVE OwnedInv'
    <2>1. q \in UserRequest /\ users' = users /\ Step(r, [q EXCEPT !.pc = "dropping"])
      BY <1>5, KindOfRequest DEF DeleteIdentity, Stages
    <2> PICK n : n = [q EXCEPT !.pc = "dropping"]
      OBVIOUS
    <2>d. "dropping" \in Stages
      BY DEF Stages
    <2>2. n.copy = q.copy /\ n.user = q.user /\ n.hotel = q.hotel
      BY <2>1, <2>d, StageTyped, Zenon
    <2>3. Inherits(n)
      BY <1>k, <2>1, <2>2 DEF Inherits
    <2> QED BY <2>1, <2>3, OwnedStep DEF Step
  <1>6. ASSUME DropUser(r) PROVE OwnedInv'
    <2>1. q \in UserRequest /\ Honest(q) /\ q.hotel \in Hotels
      <3>1. q \in UserRequest
        BY <1>6, KindOfRequest DEF DropUser, Stages
      <3> QED BY <3>1, RequestTyped DEF HonestInv
    <2>2. \A v \in Users : users'[v] = users[v] \/ users'[v] = NoRow
      BY <1>6, <1>t DEF DropUser
    <2>3. PICK n \in Request \ UserRequest : Step(r, n)
      <3>1. CASE q.why \in {"archive", "remove"}
        BY <1>6, IdleTyped, <2>1, <3>1, HotelRequestTyped DEF DropUser
      <3>2. CASE q.why = "release"
        BY <1>6, IdleTyped, <3>2 DEF DropUser
      <3>3. q.why \in Releasers
        BY <1>6, <2>1 DEF DropUser, Honest
      <3> QED BY <3>1, <3>2, <3>3 DEF Releasers
    <2> QED BY <2>2, <2>3, OwnedStep DEF Step, Inherits
  <1>7. ASSUME CompleteSignIn(r) PROVE OwnedInv'
    <2> PICK u : u = q.user
      OBVIOUS
    <2>1. requests' = [requests EXCEPT ![r] = Idle]
      BY <1>7 DEF CompleteSignIn, Step
    <2>2. CASE u \notin Rows
      BY <1>7, <1>i, <2>1, <2>2, OwnedStep DEF CompleteSignIn
    <2>3. CASE u \in Rows
      <3>1. users' = [users EXCEPT ![u].status = "active", ![u].signedIn = TRUE]
        BY <1>7, <2>3 DEF CompleteSignIn
      <3>2. users'[u].hotel = users[u].hotel /\ users'[u].identity = users[u].identity
            /\ \A v \in Users \ {u} : users'[v] = users[v]
        BY <2>3, <3>1, SignInWrites
      <3>3. \A v \in Users : users'[v] = users[v] \/ Claim(v, users'[v].hotel, users'[v].identity)
        BY <2>3, <3>2, RowClaim
      <3> QED BY <1>i, <2>1, <3>3, OwnedStep
    <2> QED BY <2>2, <2>3
  <1> QED BY <1>1, <1>2, <1>3, <1>4, <1>5, <1>6, <1>7 DEF AccessStep

LEMMA OwnersAlways == Spec => []OwnedInv
PROOF
  <1>1. Init => OwnedInv
    <2> SUFFICES ASSUME Init PROVE OwnedInv
      OBVIOUS
    <2>1. Rows = {} /\ \A r \in Requests : requests[r] \notin UserRequest
      BY IdleTyped DEF Init, Rows
    <2> QED BY <2>1 DEF OwnedInv, Claim, Holds
  <1>2. HonestInv /\ OwnedInv /\ [Next]_vars => OwnedInv'
    <2> SUFFICES ASSUME HonestInv, OwnedInv, [Next]_vars PROVE OwnedInv'
      OBVIOUS
    <2>1. CASE UNCHANGED vars \/ HotelStep
      <3>1. UNCHANGED <<users, requests>>
        BY <2>1 DEF vars, HotelStep, CreateHotel, SetTours, Book, flight
      <3> QED BY <3>1, HotelsKeepOwners
    <2>2. ASSUME NEW r \in Requests, Crash(r) PROVE OwnedInv'
      <3>1. Inherits(Idle)
        BY IdleTyped DEF Inherits
      <3> QED BY <2>2, <3>1, OwnedStep DEF Crash, Fault
    <2> QED BY <2>1, <2>2, PartnersKeepOwners, CreatesKeepOwners, AccessKeepsOwners DEF Next
  <1> QED BY <1>1, <1>2, HonestAlways, PTL DEF Spec

\* Whatever overlaps, dies or saves late, the rows and the requests that have an account
\* are of one user and one hotel.
THEOREM AccountsAreOwned == Spec => []AccountsHaveOneOwner
PROOF
  <1>1. ASSUME OwnedInv PROVE AccountsHaveOneOwner
    <2> SUFFICES ASSUME NEW i \in Identities, NEW u \in Rows, users[u].identity = i
                 PROVE  /\ \A v \in Rows : users[v].identity = i => v = u
                        /\ \A r \in Requests : Holds(r, i) =>
                             requests[r].user = u /\ requests[r].hotel = users[u].hotel
      BY DEF AccountsHaveOneOwner
    <2>1. Claim(u, users[u].hotel, i)
      BY RowClaim
    <2>2. ASSUME NEW v \in Rows, users[v].identity = i PROVE v = u
      BY <1>1, <2>1, <2>2, RowClaim DEF OwnedInv
    <2>3. ASSUME NEW r \in Requests, Holds(r, i)
          PROVE  requests[r].user = u /\ requests[r].hotel = users[u].hotel
      <3>1. Claim(requests[r].user, requests[r].hotel, i)
        BY <2>3 DEF Claim
      <3> QED BY <1>1, <2>1, <3>1 DEF OwnedInv
    <2> QED BY <2>2, <2>3
  <1> QED BY <1>1, OwnersAlways, PTL

\* An account is blocked, unblocked or deleted by a step of a request that holds it.
LEMMA AccountWriters ==
  ASSUME HonestInv, [Next]_vars, NEW i \in Accounts, identities'[i] # identities[i]
  PROVE  \E r \in Requests : Holds(r, i) /\ requests'[r] # requests[r]
PROOF
  <1>1. i \in Identities /\ i # NoIdentity /\ identities[i] # Unused
    BY NothingAssumption DEF Accounts
  <1>2. PICK r \in Requests : Offer(r) \/ SwitchIdentity(r) \/ DeleteIdentity(r)
    <2>1. ASSUME UNCHANGED identities PROVE FALSE
      BY <2>1
    <2>2. ~UNCHANGED vars /\ ~HotelStep
      BY <2>1 DEF vars, HotelStep, CreateHotel, SetTours, Book, tenant
    <2>3. ASSUME NEW r \in Requests, PartnerStep(r) \/ Crash(r) PROVE FALSE
      BY <2>1, <2>3 DEF PartnerStep, Crash, StartPatch, SavePatch, StartClosing, CloseHotel, tenant
    <2>4. ASSUME NEW r \in Requests, CreateStep(r) PROVE Offer(r)
      BY <2>1, <2>4 DEF CreateStep, StartCreate, Reserve, Rename, Undo, tenant
    <2>5. ASSUME NEW r \in Requests, AccessStep(r) PROVE SwitchIdentity(r) \/ DeleteIdentity(r)
      BY <2>1, <2>5 DEF AccessStep, StartResend, StartRelease, StartSignIn, StartSwitch, SaveUser,
         DropUser, CompleteSignIn, tenant
    <2> QED BY <2>2, <2>3, <2>4, <2>5 DEF Next
  <1> PICK q \in Request : q = requests[r]
    BY DEF HonestInv, TypeOK, Request
  <1>3. q \in UserRequest /\ q.pc \in {"offering", "switching", "releasing"}
    BY <1>2, KindOfRequest DEF Offer, SwitchIdentity, DeleteIdentity, Stages
  <1>4. identities \in [Identities -> Account \cup {Unused, Gone}]
        /\ requests \in [Requests -> Request]
    BY DEF HonestInv, TypeOK, Request
  <1>5. ~Offer(r)
    <2>1. ASSUME NEW j \in Identities, identities[j] = Unused,
                 identities' = [identities EXCEPT ![j] = AccountFor(q.copy)]
          PROVE  FALSE
      BY <1>1, <1>4, <2>1
    <2> QED BY <2>1 DEF Offer
  <1>6. CASE SwitchIdentity(r)
    <2>1. q.pc = "switching" /\ q.copy.identity = i
      <3>1. ASSUME NEW j \in Accounts, j # i,
                   identities' = [identities EXCEPT ![j].blocked = Blocking(q.why)]
            PROVE  FALSE
        BY <1>1, <1>4, <3>1
      <3> QED BY <1>6, <3>1 DEF SwitchIdentity
    <2> DEFINE save == [q EXCEPT !.pc = "saving", !.copy.status = SwitchedStatus(q.why, q.copy)]
    <2>2. save.pc = "saving"
      <3>1. q = [pc |-> q.pc, hotel |-> q.hotel, user |-> q.user, copy |-> q.copy, why |-> q.why,
                 refused |-> q.refused, attempt |-> q.attempt]
        BY <1>3, RequestTyped DEF Turned
      <3> QED BY <3>1
    <2>3. Step(r, save) \/ Step(r, Idle)
      BY <1>6 DEF SwitchIdentity
    <2> HIDE DEF save
    <2>4. requests'[r] = save \/ requests'[r] = Idle
      BY <1>4, <2>3 DEF Step
    <2>5. requests'[r].pc # "switching"
      BY <2>2, <2>4 DEF Idle
    <2> QED BY <1>3, <2>1, <2>5 DEF Holds
  <1>7. CASE DeleteIdentity(r)
    <2>1. q.pc = "releasing" /\ q.copy.identity = i
      <3>1. identities'[i] = IF i \in AccountsOf(q.copy) THEN Gone ELSE identities[i]
        BY <1>1, <1>7 DEF DeleteIdentity
      <3>2. i \in AccountsOf(q.copy)
        BY <3>1
      <3> QED BY <1>7, <3>2 DEF AccountsOf, DeleteIdentity
    <2> PICK n : n = [q EXCEPT !.pc = "dropping"]
      OBVIOUS
    <2>2. "dropping" \in Stages
      BY DEF Stages
    <2>3. n.pc = "dropping"
      BY <1>3, <2>2, StageTyped, Zenon
    <2>4. requests'[r] = n
      BY <1>4, <1>7 DEF DeleteIdentity, Step
    <2> QED BY <1>3, <2>1, <2>3, <2>4 DEF Holds
  <1> QED BY <1>2, <1>5, <1>6, <1>7

\* A step that touches the account of a hotel's user is one of a request about that hotel.
THEOREM OtherHotelsStay == Spec => OtherHotelsAreLeftAlone
PROOF
  <1> DEFINE LeftAlone == \A i \in Accounts : \A u \in Rows :
               users[u].identity = i /\ identities'[i] # identities[i] =>
                 \E r \in Requests :
                   requests'[r] # requests[r] /\ Touches(requests[r], users[u].hotel)
  <1>1. HonestInv /\ OwnedInv /\ [Next]_vars => [LeftAlone]_vars
    <2> SUFFICES ASSUME HonestInv, OwnedInv, [Next]_vars,
                        NEW i \in Accounts, NEW u \in Rows, users[u].identity = i,
                        identities'[i] # identities[i]
                 PROVE  \E r \in Requests :
                          requests'[r] # requests[r] /\ Touches(requests[r], users[u].hotel)
      OBVIOUS
    <2>1. PICK r \in Requests : Holds(r, i) /\ requests'[r] # requests[r]
      BY AccountWriters
    <2>2. Claim(requests[r].user, requests[r].hotel, i) /\ Claim(u, users[u].hotel, i)
      BY <2>1, RowClaim DEF Claim
    <2>3. requests[r].hotel = users[u].hotel
      BY <2>2 DEF OwnedInv, Accounts
    <2>4. requests[r] # Idle
      BY <2>1, IdleTyped DEF Holds
    <2> QED BY <2>1, <2>3, <2>4 DEF Touches
  <1> HIDE DEF LeftAlone
  <1>2. OtherHotelsAreLeftAlone <=> [][LeftAlone]_vars
    BY PTL DEF OtherHotelsAreLeftAlone, LeftAlone
  <1> QED BY <1>1, <1>2, HonestAlways, OwnersAlways, PTL DEF Spec

(***************************************************************************)
(* Requests about one hotel that do not overlap.                           *)
(*                                                                         *)
(* A request then works on a row nobody else touches, and its copy differs *)
(* from the row in no more than the request is about to write.             *)
(***************************************************************************)

\* create, about to write the account down.
Recording(q) == q.pc = "saving" /\ q.why = "create"

\* What a request knows of the row it works on.
Fits(q, row) ==
  /\ row # NoRow /\ row.hotel = q.hotel /\ q.copy.hotel = q.hotel
  /\ q.copy.email = row.email
  /\ q.pc \notin {"renaming", "undoing"} => q.copy.username = row.username
  /\ ~Recording(q) => q.copy.identity = row.identity
  /\ q.pc \in {"offering", "renaming", "undoing"} => q.why = "create"
  /\ q.why = "create" =>
       row.identity = NoIdentity /\ row.status = "invited" /\ q.copy.status = "invited"
  /\ Recording(q) => q.copy.identity \in Identities
  /\ q.pc = "signingIn" => q.why = "signIn"
  /\ q.why \in {"resend", "signIn"} => row.status # "disabled" /\ q.copy.status = row.status
  /\ q.pc = "switching" => q.why \in {"enable", "disable"}
  /\ q.pc = "saving" => q.why \in {"create", "resend", "enable", "disable"}
  /\ q.pc = "saving" /\ q.why \in {"enable", "disable"} =>
       q.copy.status = SwitchedStatus(q.why, q.copy)
  /\ q.pc = "dropping" => q.copy.identity = NoIdentity \/ identities[q.copy.identity] = Gone

Apart ==
  \A r, s \in Requests :
    r # s /\ requests[r] # Idle /\ requests[s] # Idle => requests[r].hotel # requests[s].hotel

Differ(a, b) ==
  /\ a.hotel # b.hotel /\ a.username # b.username /\ a.email # b.email
  /\ a.identity = NoIdentity \/ b.identity # a.identity

RowsDiffer == \A u, v \in Rows : u # v => Differ(users[u], users[v])

RowsHaveHotel == \A u \in Rows : hotels[users[u].hotel] # NoRow

\* A hotel that is closed has no access user.
Emptied(q) == q.pc = "closing" => \A u \in Rows : users[u].hotel # q.hotel

\* The account a create is about to write down is nobody else's.
Fresh(r) ==
  LET i == requests[r].copy.identity IN
  /\ \A v \in Rows : users[v].identity # i
  /\ \A s \in Requests \ {r} : requests[s] \in UserRequest => requests[s].copy.identity # i

OrderInv ==
  /\ HonestInv /\ Apart /\ RowsDiffer /\ RowsHaveHotel
  /\ \A r \in Requests : Emptied(requests[r])
  /\ \A r \in Requests : requests[r] \in UserRequest => Fits(requests[r], users[requests[r].user])
  /\ \A r \in Requests : requests[r] \in UserRequest /\ Recording(requests[r]) => Fresh(r)

\* No other request is about the hotel of n.
Mine(r, n) ==
  n # Idle => \A s \in Requests \ {r} : requests[s] # Idle => requests[s].hotel # n.hotel

\* Where a request may have an account from.
From(r, i) ==
  \/ i = NoIdentity
  \/ \E u \in Rows : users[u].identity = i
  \/ requests[r] \in UserRequest /\ requests[r].copy.identity = i
  \/ i \in Identities /\ identities[i] = Unused

LEMMA FitsLater ==
  ASSUME Later, NEW q \in UserRequest, NEW row, Fits(q, row)
  PROVE  Fits(q, row)'
PROOF
  <1>1. q.copy.identity \in Identities \cup {NoIdentity}
    BY DEF UserRequest, User
  <1>2. q.pc = "dropping" => q.copy.identity = NoIdentity \/ identities'[q.copy.identity] = Gone
    BY <1>1, NothingAssumption DEF Fits, Later
  <1> QED BY <1>2 DEF Fits

\* The account of a create is not one another request comes by.
LEMMA FreshStays ==
  ASSUME OrderInv, NEW r \in Requests, NEW s \in Requests, r # s, requests[s] \in UserRequest,
         Recording(requests[s]), NEW i, From(r, i)
  PROVE  i # requests[s].copy.identity
PROOF
  <1> PICK q : q = requests[s]
    OBVIOUS
  <1>1. Honest(q) /\ Fits(q, users[q.user]) /\ Fresh(s)
    BY DEF OrderInv, HonestInv
  <1>2. q.copy.identity \in Identities /\ q.copy.identity # NoIdentity
    BY <1>1, NothingAssumption DEF Fits
  <1>3. identities[q.copy.identity] # Unused
    BY <1>1, <1>2 DEF Honest, Answers
  <1> QED BY <1>1, <1>2, <1>3 DEF From, Fresh

\* A step of one request that keeps to its own hotel and its own row.
LEMMA OrderStep ==
  ASSUME OrderInv, HonestInv', NEW r \in Requests, NEW n \in Request,
         requests' = [requests EXCEPT ![r] = n], Mine(r, n), Later,
         \A s \in Requests \ {r} : requests[s] \in UserRequest =>
           users'[requests[s].user] = users[requests[s].user],
         \A s \in Requests \ {r} : requests[s].pc = "closing" =>
           \A u \in Users : users'[u] # users[u] /\ users'[u] # NoRow => users'[u].hotel # requests[s].hotel,
         RowsDiffer', RowsHaveHotel', Emptied(n)',
         \A u \in Users : users'[u] = users[u] \/ users'[u] = NoRow \/ From(r, users'[u].identity),
         n \in UserRequest => From(r, n.copy.identity) /\ Fits(n, users[n.user])',
         n \in UserRequest /\ Recording(n) =>
           users' = users /\ n.copy.identity \in Identities /\ identities[n.copy.identity] = Unused
  PROVE  OrderInv'
PROOF
  <1>1. requests' = [s \in Requests |-> IF s = r THEN n ELSE requests[s]]
    BY DEF OrderInv, HonestInv, TypeOK
  <1>2. requests'[r] = n /\ \A s \in Requests \ {r} : requests'[s] = requests[s]
    BY <1>1
  <1>3. Apart'
    BY <1>2 DEF OrderInv, Apart, Mine
  <1>4. ASSUME NEW s \in Requests PROVE Emptied(requests[s])'
    <2>1. CASE s = r
      BY <1>2, <2>1 DEF Emptied, Rows
    <2>2. CASE s # r
      <3> PICK q : q = requests[s]
        OBVIOUS
      <3>1. requests'[s] = q /\ Emptied(q)
        BY <1>2, <2>2 DEF OrderInv
      <3>2. ASSUME q.pc = "closing", NEW u \in Users, users'[u] # NoRow PROVE users'[u].hotel # q.hotel
        BY <2>2, <3>1, <3>2 DEF Emptied, Rows
      <3> QED BY <3>1, <3>2 DEF Emptied, Rows
    <2> QED BY <2>1, <2>2
  <1>5. ASSUME NEW s \in Requests, requests'[s] \in UserRequest PROVE Fits(requests[s], users[requests[s].user])'
    <2>1. CASE s = r
      BY <1>2, <1>5, <2>1 DEF Fits
    <2>2. CASE s # r
      <3> PICK q : q = requests[s]
        OBVIOUS
      <3> PICK row : row = users[q.user]
        OBVIOUS
      <3>1. requests'[s] = q /\ q \in UserRequest /\ Fits(q, row) /\ users'[q.user] = row
        BY <1>2, <1>5, <2>2 DEF OrderInv
      <3>2. Fits(q, row)'
        BY <3>1, FitsLater
      <3> QED BY <3>1, <3>2 DEF Fits
    <2> QED BY <2>1, <2>2
  <1>6. ASSUME NEW s \in Requests, requests'[s] \in UserRequest, Recording(requests'[s]) PROVE Fresh(s)'
    <2>1. CASE s = r
      <3> PICK i \in Identities : i = n.copy.identity
        BY <1>2, <1>6, <2>1
      <3>1. identities[i] = Unused /\ users' = users /\ i # NoIdentity
        BY <1>2, <1>6, <2>1, NothingAssumption
      <3>2. ASSUME NEW v \in Rows PROVE users[v].identity # i
        <4>1. Answers(users[v])
          BY DEF OrderInv, HonestInv
        <4> QED BY <3>1, <4>1 DEF Answers
      <3>3. ASSUME NEW t \in Requests \ {r}, requests[t] \in UserRequest PROVE requests[t].copy.identity # i
        <4> PICK row : row = requests[t].copy
          OBVIOUS
        <4>1. Answers(row)
          BY <3>3 DEF OrderInv, HonestInv, Honest
        <4> QED BY <3>1, <4>1 DEF Answers
      <3> QED BY <1>2, <2>1, <3>1, <3>2, <3>3 DEF Fresh, Rows
    <2>2. CASE s # r
      <3> PICK i : i = requests[s].copy.identity
        OBVIOUS
      <3>1. requests'[s] = requests[s] /\ requests[s] \in UserRequest /\ Recording(requests[s])
        BY <1>2, <1>6, <2>2
      <3>2. Fresh(s) /\ (\A j : From(r, j) => j # i)
        BY <2>2, <3>1, FreshStays DEF OrderInv
      <3>3. ASSUME NEW v \in Users, users'[v] # NoRow PROVE users'[v].identity # i
        BY <3>2, <3>3 DEF Fresh, Rows
      <3>4. ASSUME NEW t \in Requests \ {s}, requests'[t] \in UserRequest PROVE requests'[t].copy.identity # i
        BY <1>2, <3>2, <3>4 DEF Fresh
      <3> QED BY <3>1, <3>3, <3>4 DEF Fresh, Rows
    <2> QED BY <2>1, <2>2
  <1> QED BY <1>3, <1>4, <1>5, <1>6 DEF OrderInv

\* A request that begins alone, or goes on about its hotel, is alone with it.
LEMMA StartIsMine ==
  ASSUME Exclusive, NEW r \in Requests, NEW n, MayStart(r, n.hotel) PROVE Mine(r, n)
  BY DEF MayStart, Alone, Touches, Mine

LEMMA GoesOnMine ==
  ASSUME OrderInv, NEW r \in Requests, requests[r] # Idle, NEW n, n # Idle => n.hotel = requests[r].hotel
  PROVE  Mine(r, n)
  BY DEF OrderInv, Apart, Mine

\* A request has its row, and no other request has it.
LEMMA OwnRow ==
  ASSUME OrderInv, NEW r \in Requests, requests[r] \in UserRequest
  PROVE  /\ requests[r].user \in Rows /\ requests[r] # Idle
         /\ Fits(requests[r], users[requests[r].user]) /\ Honest(requests[r])
         /\ \A s \in Requests \ {r} : requests[s] \in UserRequest => requests[s].user # requests[r].user
PROOF
  <1>1. \A s \in Requests : requests[s] \in UserRequest =>
          /\ requests[s] # Idle /\ requests[s].user \in Users /\ Fits(requests[s], users[requests[s].user])
    BY IdleTyped, RequestTyped DEF OrderInv
  <1>2. \A s \in Requests : requests[s] \in UserRequest =>
          users[requests[s].user] # NoRow /\ users[requests[s].user].hotel = requests[s].hotel
    BY <1>1 DEF Fits
  <1>3. \A s \in Requests \ {r} : requests[s] \in UserRequest => requests[s].hotel # requests[r].hotel
    BY <1>1 DEF OrderInv, Apart
  <1> QED BY <1>1, <1>2, <1>3 DEF Rows, OrderInv, HonestInv

\* A request that goes on without a change of rows.
LEMMA OrderRequest ==
  ASSUME OrderInv, HonestInv', NEW r \in Requests, NEW n \in Request, Step(r, n) \/ Fault(r, n),
         UNCHANGED <<partner, users>>, Mine(r, n), Later, Emptied(n),
         n \in UserRequest => From(r, n.copy.identity) /\ Fits(n, users[n.user])',
         n \in UserRequest /\ Recording(n) => n.copy.identity \in Identities /\ identities[n.copy.identity] = Unused
  PROVE  OrderInv'
PROOF
  <1>1. requests' = [requests EXCEPT ![r] = n] /\ UNCHANGED <<hotels, users>>
    BY DEF Step, Fault, partner
  <1>2. RowsDiffer' /\ RowsHaveHotel' /\ Emptied(n)'
    BY <1>1 DEF OrderInv, RowsDiffer, RowsHaveHotel, Rows, Emptied
  <1> QED BY <1>1, <1>2, OrderStep

\* A request that ends, or that is not about a row, without a change of rows.
LEMMA OrderIdle ==
  ASSUME OrderInv, HonestInv', NEW r \in Requests, NEW n \in Request \ UserRequest, Step(r, n) \/ Fault(r, n),
         UNCHANGED <<partner, users, tenant>>, Mine(r, n), Emptied(n)
  PROVE  OrderInv'
  BY OrderRequest, UnchangedIsLater DEF tenant

LEMMA IdleIsMine == \A r \in Requests : Mine(r, Idle) /\ Emptied(Idle)
  BY DEF Mine, Emptied, Idle

\* A request that reads a row, when no other is about its hotel.
LEMMA OrderReading ==
  ASSUME Exclusive, OrderInv, HonestInv', NEW r \in Requests, NEW u \in Rows, NEW why \in Reasons,
         NEW pc \in {"switching", "signingIn", "releasing", "saving"},
         Step(r, UserStep(pc, u, users[u], why)), UNCHANGED <<partner, users, tenant>>,
         MayStart(r, users[u].hotel), why # "create",
         pc = "signingIn" <=> why = "signIn", pc = "switching" <=> why \in {"enable", "disable"},
         pc = "saving" <=> why = "resend",
         why \in {"resend", "signIn"} => users[u].status # "disabled"
  PROVE  OrderInv'
PROOF
  <1> PICK row : row = users[u]
    OBVIOUS
  <1> PICK n : n = UserStep(pc, u, row, why)
    OBVIOUS
  <1>1. row \in User /\ u \in Users /\ pc \in Stages /\ row # NoRow
    BY DEF OrderInv, HonestInv, TypeOK, Rows, Stages
  <1>2. /\ n \in UserRequest /\ n.pc = pc /\ n.copy = row /\ n.user = u /\ n.hotel = row.hotel /\ n.why = why
    BY <1>1, UserStepTyped
  <1>3. n \in Request /\ Emptied(n) /\ ~Recording(n)
    BY <1>2 DEF Request, Emptied, Recording
  <1>4. Mine(r, n)
    BY <1>2, StartIsMine
  <1>5. Fits(n, row)
    BY <1>1, <1>2, <1>3 DEF Fits
  <1>6. UNCHANGED identities
    BY DEF tenant
  <1>7. Later
    BY <1>6, UnchangedIsLater
  <1>8. Fits(n, row)'
    BY <1>2, <1>5, <1>7, FitsLater
  <1>9. Fits(n, users[n.user])'
    BY <1>2, <1>8 DEF Fits
  <1>10. From(r, n.copy.identity)
    BY <1>2 DEF From
  <1>11. Step(r, n)
    BY DEF Step
  <1> QED BY <1>3, <1>4, <1>7, <1>9, <1>10, <1>11, OrderRequest

LEMMA HotelsInOrder ==
  ASSUME OrderInv, HonestInv', HotelStep PROVE OrderInv'
PROOF
  <1>1. UNCHANGED <<users, identities, requests>>
    BY DEF HotelStep, CreateHotel, SetTours, Book, tenant, flight
  <1>2. \A h \in Hotels : hotels[h] # NoRow => hotels'[h] # NoRow
    BY NothingAssumption DEF HotelStep, CreateHotel, SetTours, Book, OrderInv, HonestInv, TypeOK
  <1>3. RowsHaveHotel'
    <2>1. \A u \in Rows : users[u].hotel \in Hotels
      BY DEF OrderInv, HonestInv, TypeOK, Rows, User
    <2> QED BY <1>1, <1>2, <2>1 DEF OrderInv, RowsHaveHotel, Rows
  <1> QED BY <1>1, <1>3 DEF OrderInv, Apart, RowsDiffer, Emptied, Fits, Fresh, Rows

\* The rows of a hotel that is being closed are none, so closing it leaves every row as it is.
LEMMA ClosingKeepsRows ==
  ASSUME OrderInv, NEW r \in Requests, CloseHotel(r)
  PROVE  /\ users' = users /\ requests[r] \in Request /\ requests[r].hotel \in Hotels
         /\ \A u \in Rows : users[u].hotel # requests[r].hotel
         /\ \A g \in Hotels : g # requests[r].hotel => hotels'[g] = hotels[g]
PROOF
  <1> PICK q \in Request : q = requests[r]
    BY DEF OrderInv, HonestInv, TypeOK, Request
  <1>1. q.pc = "closing" /\ q.hotel \in Hotels
    BY KindOfRequest DEF CloseHotel
  <1>2. \A u \in Rows : users[u].hotel # q.hotel
    BY <1>1 DEF OrderInv, Emptied
  <1>3. users' = users
    <2>1. users = [u \in Users |-> users[u]]
      BY DEF OrderInv, HonestInv, TypeOK
    <2> QED BY <1>2, <2>1 DEF CloseHotel
  <1>4. \A g \in Hotels : g # q.hotel => hotels'[g] = hotels[g]
    <2>1. hotels \in [Hotels -> Hotel \cup {NoRow}]
      BY DEF OrderInv, HonestInv, TypeOK
    <2> QED BY <2>1 DEF CloseHotel
  <1> QED BY <1>1, <1>2, <1>3, <1>4

LEMMA PartnersInOrder ==
  ASSUME Exclusive, OrderInv, HonestInv', NEW r \in Requests, PartnerStep(r) PROVE OrderInv'
PROOF
  <1> PICK q \in Request : q = requests[r]
    BY DEF OrderInv, HonestInv, TypeOK, Request
  <1>1. ASSUME NEW h \in Hotels, StartPatch(r, h) PROVE OrderInv'
    <2>1. PICK row \in Hotel : Step(r, [pc |-> "patching", hotel |-> h, copy |-> row])
      BY <1>1 DEF StartPatch
    <2> PICK n : n = [pc |-> "patching", hotel |-> h, copy |-> row]
      OBVIOUS
    <2>2. n \in Request \ UserRequest /\ Step(r, n) /\ UNCHANGED <<partner, users, tenant>> /\ n.hotel = h
      BY <1>1, <2>1, HotelRequestTyped DEF StartPatch
    <2>3. Mine(r, n) /\ Emptied(n)
      BY <1>1, <2>2, StartIsMine DEF StartPatch, Emptied
    <2> QED BY <2>2, <2>3, OrderIdle
  <1>2. ASSUME SavePatch(r) PROVE OrderInv'
    <2>1. q.hotel \in Hotels /\ q.copy \in Hotel
      BY <1>2, KindOfRequest DEF SavePatch
    <2>2. UNCHANGED <<users, identities>> /\ requests' = [requests EXCEPT ![r] = Idle]
      BY <1>2 DEF SavePatch, tenant, Step
    <2>3. \A h \in Hotels : hotels[h] # NoRow => hotels'[h] # NoRow
      BY <1>2, <2>1, NothingAssumption DEF SavePatch, OrderInv, HonestInv, TypeOK
    <2>4. RowsHaveHotel'
      <3>1. \A u \in Rows : users[u].hotel \in Hotels
        BY DEF OrderInv, HonestInv, TypeOK, Rows, User
      <3> QED BY <2>2, <2>3, <3>1 DEF OrderInv, RowsHaveHotel, Rows
    <2>5. RowsDiffer' /\ Emptied(Idle)' /\ Mine(r, Idle)
      BY <2>2, IdleIsMine DEF OrderInv, RowsDiffer, Rows, Emptied, Idle
    <2>6. Later
      BY <2>2, UnchangedIsLater
    <2> QED BY <2>2, <2>4, <2>5, <2>6, IdleTyped, OrderStep
  <1>3. ASSUME NEW h \in Hotels, NEW why \in {"archive", "remove"}, StartClosing(r, h, why) PROVE OrderInv'
    <2>1. MayStart(r, h) /\ UNCHANGED <<partner, users, tenant>>
      BY <1>3 DEF StartClosing
    <2>2. ASSUME NEW u \in Rows, users[u].hotel = h, Step(r, UserStep("releasing", u, users[u], why)) PROVE OrderInv'
      BY <2>1, <2>2, OrderReading DEF Reasons
    <2>3. ASSUME \A u \in Rows : users[u].hotel # h, Step(r, [pc |-> "closing", hotel |-> h, why |-> why])
          PROVE  OrderInv'
      <3> PICK n : n = [pc |-> "closing", hotel |-> h, why |-> why]
        OBVIOUS
      <3>1. n \in Request \ UserRequest /\ n.hotel = h
        BY HotelRequestTyped
      <3>2. Mine(r, n) /\ Emptied(n)
        BY <2>1, <2>3, <3>1, StartIsMine DEF Emptied
      <3> QED BY <2>1, <2>3, <3>1, <3>2, OrderIdle
    <2> QED BY <1>3, <2>2, <2>3 DEF StartClosing
  <1>4. ASSUME CloseHotel(r) PROVE OrderInv'
    <2>1. users' = users /\ \A u \in Rows : users[u].hotel \in Hotels /\ hotels'[users[u].hotel] = hotels[users[u].hotel]
      <3>1. \A u \in Rows : users[u].hotel \in Hotels
        BY DEF OrderInv, HonestInv, TypeOK, Rows, User
      <3> QED BY <1>4, <3>1, ClosingKeepsRows
    <2>2. UNCHANGED identities /\ requests' = [requests EXCEPT ![r] = Idle]
      BY <1>4 DEF CloseHotel, tenant, Step
    <2>3. RowsHaveHotel'
      BY <2>1 DEF OrderInv, RowsHaveHotel, Rows
    <2>4. RowsDiffer' /\ Emptied(Idle)' /\ Mine(r, Idle)
      BY <2>1, IdleIsMine DEF OrderInv, RowsDiffer, Rows, Emptied, Idle
    <2>5. Later
      BY <2>2, UnchangedIsLater
    <2> QED BY <2>1, <2>2, <2>3, <2>4, <2>5, IdleTyped, OrderStep
  <1> QED BY <1>1, <1>2, <1>3, <1>4 DEF PartnerStep

\* A row that may be saved differs from the others.
LEMMA SavedInOrder ==
  ASSUME OrderInv, NEW u \in Users, NEW row, CanSave(u, row), users' = [users EXCEPT ![u] = row], hotels' = hotels
  PROVE  /\ RowsDiffer' /\ RowsHaveHotel'
         /\ users'[u] = row /\ \A v \in Users \ {u} : users'[v] = users[v]
PROOF
  <1>1. users'[u] = row /\ \A v \in Users \ {u} : users'[v] = users[v]
    BY DEF OrderInv, HonestInv, TypeOK
  <1>2. \A v \in Rows \ {u} : Differ(users[v], row) /\ Differ(row, users[v])
    BY DEF CanSave, Differ
  <1>3. RowsDiffer'
    BY <1>1, <1>2 DEF OrderInv, RowsDiffer, Rows, Differ
  <1>4. RowsHaveHotel'
    BY <1>1 DEF OrderInv, RowsHaveHotel, Rows, CanSave
  <1> QED BY <1>1, <1>3, <1>4

\* A request that writes or deletes its own row and goes on.
LEMMA OrderOwnRow ==
  ASSUME OrderInv, HonestInv', NEW r \in Requests, requests[r] \in UserRequest, NEW n \in Request,
         Step(r, n), UNCHANGED <<partner, tenant>>, n # Idle => n.hotel = requests[r].hotel,
         \A u \in Users : u # requests[r].user => users'[u] = users[u],
         RowsDiffer', RowsHaveHotel', Emptied(n)',
         LET row == users'[requests[r].user] IN row # NoRow => row.hotel = requests[r].hotel /\ From(r, row.identity),
         n \in UserRequest => From(r, n.copy.identity) /\ Fits(n, users[n.user])' /\ ~Recording(n)
  PROVE  OrderInv'
PROOF
  <1>1. requests' = [requests EXCEPT ![r] = n] /\ UNCHANGED identities
    BY DEF Step, tenant
  <1>2. requests[r] # Idle
    BY OwnRow
  <1>3. Mine(r, n) /\ Later
    BY <1>1, <1>2, GoesOnMine, UnchangedIsLater
  <1>4. ASSUME NEW s \in Requests \ {r}, requests[s] \in UserRequest
        PROVE  users'[requests[s].user] = users[requests[s].user]
    <2>1. requests[s].user \in Users /\ requests[s].user # requests[r].user
      BY <1>4, OwnRow, RequestTyped
    <2> QED BY <2>1
  <1>5. ASSUME NEW s \in Requests \ {r}, requests[s].pc = "closing", NEW u \in Users,
               users'[u] # users[u], users'[u] # NoRow
        PROVE  users'[u].hotel # requests[s].hotel
    <2>1. requests[s] # Idle
      BY <1>5 DEF Idle
    <2>2. requests[s].hotel # requests[r].hotel
      BY <1>2, <2>1 DEF OrderInv, Apart
    <2> QED BY <1>5, <2>2
  <1>6. \A u \in Users : users'[u] = users[u] \/ users'[u] = NoRow \/ From(r, users'[u].identity)
    OBVIOUS
  <1> QED BY <1>1, <1>3, <1>4, <1>5, <1>6, OrderStep

\* A deleted row leaves the others apart.
LEMMA DeletedInOrder ==
  ASSUME OrderInv, NEW u \in Users, users' = [users EXCEPT ![u] = NoRow], hotels' = hotels
  PROVE  /\ RowsDiffer' /\ RowsHaveHotel'
         /\ users'[u] = NoRow /\ \A v \in Users \ {u} : users'[v] = users[v]
PROOF
  <1>1. users'[u] = NoRow /\ \A v \in Users \ {u} : users'[v] = users[v]
    BY DEF OrderInv, HonestInv, TypeOK
  <1>2. RowsDiffer' /\ RowsHaveHotel'
    BY <1>1 DEF OrderInv, RowsDiffer, RowsHaveHotel, Rows, Differ
  <1> QED BY <1>1, <1>2

LEMMA CreatesInOrder ==
  ASSUME Exclusive, OrderInv, HonestInv', NEW r \in Requests, CreateStep(r) PROVE OrderInv'
PROOF
  <1> PICK q \in Request : q = requests[r]
    BY DEF OrderInv, HonestInv, TypeOK, Request
  <1>i. Idle \in Request \ UserRequest /\ Mine(r, Idle) /\ Emptied(Idle) /\ Emptied(Idle)'
    BY IdleTyped, IdleIsMine DEF Emptied, Idle
  <1>o. q \in UserRequest =>
          /\ q # Idle /\ Fits(q, users[q.user]) /\ Honest(q) /\ q.user \in Rows /\ q.copy \in User
          /\ q.user \in Users
    BY OwnRow, RequestTyped
  <1>1. ASSUME NEW h \in Hotels, NEW email \in Emails, StartCreate(r, h, email) PROVE OrderInv'
    <2> PICK name : name = Min(FreeNames({}))
      OBVIOUS
    <2>1. name \in Names
      BY <1>1, FreeNameIsName DEF StartCreate
    <2> PICK n : n = [pc |-> "reserving", hotel |-> h, email |-> email, username |-> name]
      OBVIOUS
    <2>2. n \in Request \ UserRequest /\ Step(r, n) /\ UNCHANGED <<partner, users, tenant>> /\ n.hotel = h
      BY <1>1, <2>1, HotelRequestTyped DEF StartCreate
    <2>3. Mine(r, n) /\ Emptied(n)
      BY <1>1, <2>2, StartIsMine DEF StartCreate, Emptied
    <2> QED BY <2>2, <2>3, OrderIdle
  <1>2. ASSUME Reserve(r) PROVE OrderInv'
    <2>1. q.hotel \in Hotels /\ q.email \in Emails /\ q.username \in Names /\ q # Idle
      BY <1>2, KindOfRequest DEF Reserve, Idle
    <2> PICK row : row = [hotel |-> q.hotel, username |-> q.username, email |-> q.email,
                          identity |-> NoIdentity, status |-> "invited", signedIn |-> FALSE]
      OBVIOUS
    <2>v. row \in User
      BY <2>1 DEF User, UserStatuses
    <2>2. row \in User /\ row.identity = NoIdentity /\ row.hotel = q.hotel /\ row.status = "invited" /\ row # NoRow
      BY <2>v, NothingAssumption
    <2>3. PICK u \in Users \ Rows :
            \/ CanSave(u, row) /\ users' = [users EXCEPT ![u] = row] /\ Step(r, UserStep("offering", u, row, "create"))
            \/ UNCHANGED users /\ Step(r, Idle)
      BY <1>2 DEF Reserve
    <2>4. UNCHANGED <<partner, tenant>>
      BY <1>2 DEF Reserve
    <2>5. CASE CanSave(u, row) /\ users' = [users EXCEPT ![u] = row] /\ Step(r, UserStep("offering", u, row, "create"))
      <3> PICK n : n = UserStep("offering", u, row, "create")
        OBVIOUS
      <3>1. /\ n \in UserRequest /\ n.copy = row /\ n.pc = "offering" /\ n.why = "create"
            /\ n.user = u /\ n.hotel = q.hotel
        BY <2>2, UserStepTyped DEF Stages, Reasons
      <3>2. n \in Request /\ ~Recording(n) /\ requests' = [requests EXCEPT ![r] = n]
        BY <2>5, <3>1 DEF Request, Recording, Step
      <3>3. UNCHANGED identities /\ hotels' = hotels
        BY <2>4 DEF tenant, partner
      <3>4. Later /\ Mine(r, n)
        BY <2>1, <3>1, <3>3, UnchangedIsLater, GoesOnMine
      <3>5. RowsDiffer' /\ RowsHaveHotel' /\ users'[u] = row /\ \A v \in Users \ {u} : users'[v] = users[v]
        BY <2>5, <3>3, SavedInOrder
      <3>6. Fits(n, row)
        BY <2>2, <3>1, <3>2 DEF Fits
      <3>7. Fits(n, row)'
        BY <3>1, <3>4, <3>6, FitsLater
      <3>8. Fits(n, users[n.user])'
        BY <3>1, <3>5, <3>7 DEF Fits
      <3>9. From(r, NoIdentity) /\ Emptied(n)'
        BY <3>1 DEF From, Emptied
      <3>10. ASSUME NEW s \in Requests \ {r}, requests[s] \in UserRequest
             PROVE  users'[requests[s].user] = users[requests[s].user]
        <4>1. requests[s].user \in Rows
          BY <3>10, OwnRow
        <4> QED BY <3>5, <4>1 DEF Rows
      <3>11. ASSUME NEW s \in Requests \ {r}, requests[s].pc = "closing", NEW v \in Users,
                    users'[v] # users[v], users'[v] # NoRow
             PROVE  users'[v].hotel # requests[s].hotel
        <4>1. requests[s] # Idle
          BY <3>11 DEF Idle
        <4>2. requests[s].hotel # q.hotel
          BY <2>1, <4>1 DEF OrderInv, Apart
        <4> QED BY <2>2, <3>5, <3>11, <4>2
      <3>12. \A v \in Users : users'[v] = users[v] \/ users'[v] = NoRow \/ From(r, users'[v].identity)
        BY <2>2, <3>5, <3>9
      <3> QED BY <2>2, <3>1, <3>2, <3>4, <3>5, <3>8, <3>9, <3>10, <3>11, <3>12, OrderStep
    <2>6. CASE UNCHANGED users /\ Step(r, Idle)
      BY <1>i, <2>4, <2>6, OrderIdle
    <2> QED BY <2>3, <2>5, <2>6
  <1>3. ASSUME Offer(r) PROVE OrderInv'
    <2>1. q \in UserRequest /\ q.pc = "offering" /\ UNCHANGED <<partner, users, foreign>>
      BY <1>3, KindOfRequest DEF Offer, Stages
    <2> PICK copy \in User : copy = q.copy
      BY <1>o, <2>1
    <2> PICK row : row = users[q.user]
      OBVIOUS
    <2>2. copy.identity = NoIdentity /\ Fits(q, row) /\ q.why = "create" /\ q # Idle /\ copy.status = "invited"
      BY <1>o, <2>1 DEF Honest, Fits
    <2>3. Later
      <3>1. identities \in [Identities -> Account \cup {Unused, Gone}]
        BY DEF OrderInv, HonestInv, TypeOK
      <3>2. \/ UNCHANGED identities
            \/ \E i \in Identities : \E account : identities[i] = Unused /\ identities' = [identities EXCEPT ![i] = account]
        BY <1>3 DEF Offer
      <3>3. ASSUME NEW i \in Identities, NEW account, identities[i] = Unused, identities' = [identities EXCEPT ![i] = account]
            PROVE  Later
        <4>1. \A j \in Identities : identities[j] # Unused => identities'[j] = identities[j]
          BY <3>1, <3>3
        <4> QED BY <4>1 DEF Later
      <3> QED BY <3>2, <3>3, UnchangedIsLater
    <2>4. ASSUME NEW n \in UserRequest, Step(r, n) \/ Fault(r, n), n.hotel = q.hotel, n.user = q.user, n.why = "create",
                 n.pc \in {"renaming", "undoing", "saving"}, From(r, n.copy.identity),
                 n.copy.hotel = copy.hotel, n.copy.email = copy.email, n.copy.status = copy.status,
                 n.pc = "saving" => n.copy.username = copy.username /\ n.copy.identity \in Identities
                                      /\ identities[n.copy.identity] = Unused,
                 n.pc # "saving" => n.copy.identity = NoIdentity
          PROVE  OrderInv'
      <3>1. n \in Request /\ Emptied(n) /\ Mine(r, n) /\ users'[n.user] = row
        BY <2>1, <2>2, <2>4, GoesOnMine DEF Request, Emptied
      <3>2. Recording(n) <=> n.pc = "saving"
        BY <2>4 DEF Recording
      <3>3. Fits(n, row)
        BY <2>1, <2>2, <2>4, <3>2 DEF Fits, Recording
      <3>4. Fits(n, row)'
        BY <2>3, <2>4, <3>3, FitsLater
      <3>5. Fits(n, users[n.user])'
        BY <3>1, <3>4 DEF Fits
      <3> QED BY <2>1, <2>3, <2>4, <3>1, <3>2, <3>5, OrderRequest
    <2>n. From(r, NoIdentity)
      BY DEF From
    <2> PICK undo : undo = [q EXCEPT !.pc = "undoing"]
      OBVIOUS
    <2>u. "undoing" \in Stages
      BY DEF Stages
    <2>5. /\ undo \in UserRequest /\ undo.pc = "undoing" /\ undo.copy = copy /\ undo.user = q.user
          /\ undo.hotel = q.hotel /\ undo.why = q.why
      BY <2>1, <2>u, StageTyped, Zenon
    <2>6. ASSUME Step(r, undo) \/ Fault(r, undo) PROVE OrderInv'
      BY <2>2, <2>4, <2>5, <2>6, <2>n
    <2>7. ASSUME NEW i \in Identities, identities[i] = Unused,
                 Step(r, [q EXCEPT !.pc = "saving", !.copy = Recorded(q.copy, i)])
          PROVE  OrderInv'
      <3> PICK with : with = Recorded(copy, i)
        OBVIOUS
      <3>1. /\ with \in User /\ with.identity = i /\ with.username = copy.username /\ with.email = copy.email
            /\ with.status = copy.status /\ with.hotel = copy.hotel
        <4>1. copy.username \in Names /\ copy.status \in UserStatuses
          BY DEF User
        <4>2. with \in User /\
              with = [hotel |-> copy.hotel, username |-> copy.username, email |-> copy.email, identity |-> i,
               status |-> copy.status, signedIn |-> copy.signedIn]
          BY <4>1, UserFields
        <4> QED BY <4>2
      <3> PICK save : save = [q EXCEPT !.pc = "saving", !.copy = with]
        OBVIOUS
      <3>2. save = Turned(q, "saving", with)
        <4> PICK one : one = [q EXCEPT !.pc = "saving"]
          OBVIOUS
        <4>2. one = Turned(q, "saving", q.copy)
          BY <2>1, TurnedIs
        <4>3. save = [one EXCEPT !.copy = with]
          OBVIOUS
        <4> QED BY <4>2, <4>3 DEF Turned
      <3>3. /\ save \in UserRequest /\ save.pc = "saving" /\ save.copy = with /\ save.user = q.user
            /\ save.hotel = q.hotel /\ save.why = q.why
        BY <2>1, <3>1, <3>2, TurnedTyped DEF Stages
      <3>4. Step(r, save)
        BY <2>7
      <3>5. From(r, i)
        BY <2>7 DEF From
      <3> QED BY <2>2, <2>4, <2>7, <3>1, <3>3, <3>4, <3>5
    <2>8. ASSUME NEW name \in Names, NEW refused \in SUBSET Names, q.attempt < Attempts,
                 Step(r, [q EXCEPT !.pc = "renaming", !.refused = refused, !.copy.username = name, !.attempt = @ + 1])
          PROVE  OrderInv'
      <3> PICK n : n = [q EXCEPT !.pc = "renaming", !.refused = refused, !.copy.username = name, !.attempt = @ + 1]
        OBVIOUS
      <3> PICK named : named = [copy EXCEPT !.username = name]
        OBVIOUS
      <3>1. /\ named \in User /\ named.status = copy.status /\ named.identity = copy.identity
            /\ named.email = copy.email /\ named.hotel = copy.hotel
        BY DEF User
      <3>2. q = [pc |-> q.pc, hotel |-> q.hotel, user |-> q.user, copy |-> copy, why |-> q.why,
                 refused |-> q.refused, attempt |-> q.attempt]
        BY <2>1, RequestTyped DEF Turned
      <3>3. n = [pc |-> "renaming", hotel |-> q.hotel, user |-> q.user, copy |-> named, why |-> q.why,
                 refused |-> refused, attempt |-> q.attempt + 1]
        BY <3>2
      <3>4. q.attempt + 1 \in 1..Attempts
        BY <2>1, <2>8, RequestTyped, AccessBoundsAssumption
      <3>5. n \in UserRequest
        BY <2>1, <3>1, <3>3, <3>4, RequestTyped DEF UserRequest, Reasons
      <3>6. Step(r, n)
        BY <2>8
      <3>7. /\ n.pc = "renaming" /\ n.hotel = q.hotel /\ n.user = q.user /\ n.copy = named /\ n.why = q.why
        BY <3>3
      <3>8. n.copy.identity = NoIdentity /\ From(r, n.copy.identity)
        BY <2>2, <2>n, <3>1, <3>7
      <3>9. n.copy.hotel = copy.hotel /\ n.copy.email = copy.email /\ n.copy.status = copy.status
        BY <3>1, <3>7
      <3>10. n.why = "create" /\ n.pc # "saving" /\ n.pc \in {"renaming", "undoing", "saving"}
        BY <2>2, <3>7
      <3> QED BY <2>4, <3>5, <3>6, <3>7, <3>8, <3>9, <3>10
    <2> PICK name : name = Min(FreeNames({AccountFor(copy).username}))
      OBVIOUS
    <2> PICK refused : refused = q.refused \cup {AccountFor(copy).username}
      OBVIOUS
    <2>9. FreeNames({AccountFor(copy).username}) # {} => name \in Names
      BY FreeNameIsName
    <2>10. refused \in SUBSET Names
      BY <2>1, RequestTyped DEF AccountFor, User
    <2> QED BY <1>3, <2>6, <2>7, <2>8, <2>9, <2>10 DEF Offer
  <1>4. ASSUME Rename(r) PROVE OrderInv'
    <2>1. q \in UserRequest /\ q.pc = "renaming" /\ UNCHANGED <<partner, tenant>>
      BY <1>4, KindOfRequest DEF Rename, Stages
    <2> PICK row : row = users[q.user]
      OBVIOUS
    <2>2. /\ q.copy.identity = NoIdentity /\ Fits(q, row) /\ q.why = "create" /\ q # Idle /\ q.copy.status = "invited"
          /\ q.copy # NoRow
      BY <1>o, <2>1, NothingAssumption DEF Honest, Fits
    <2>3. UNCHANGED identities /\ hotels' = hotels
      BY <2>1 DEF tenant, partner
    <2>4. Later /\ From(r, NoIdentity)
      BY <2>3, UnchangedIsLater DEF From
    <2>5. CASE CanSave(q.user, q.copy)
      <3> PICK n : n = [q EXCEPT !.pc = "offering"]
        OBVIOUS
      <3>s. "offering" \in Stages
        BY DEF Stages
      <3>1. /\ n \in UserRequest /\ n \in Request /\ n.pc = "offering" /\ n.copy = q.copy /\ n.user = q.user
            /\ n.hotel = q.hotel /\ n.why = q.why
        BY <2>1, <3>s, StageTyped, Zenon
      <3>2. users' = [users EXCEPT ![q.user] = q.copy] /\ Step(r, n)
        BY <1>4, <2>5 DEF Rename
      <3>3. /\ RowsDiffer' /\ RowsHaveHotel' /\ users'[q.user] = q.copy
            /\ \A v \in Users \ {q.user} : users'[v] = users[v]
        BY <1>o, <2>1, <2>3, <2>5, <3>2, SavedInOrder
      <3>4. Fits(n, q.copy) /\ ~Recording(n) /\ Emptied(n)'
        BY <2>2, <3>1 DEF Fits, Recording, Emptied
      <3> PICK copy : copy = q.copy
        OBVIOUS
      <3>5. Fits(n, copy)'
        BY <2>4, <3>1, <3>4, FitsLater
      <3>6. Fits(n, users[n.user])'
        BY <3>1, <3>3, <3>5 DEF Fits
      <3>7. q.copy.hotel = q.hotel
        BY <2>2 DEF Fits
      <3>8. requests[r] \in UserRequest /\ n.hotel = requests[r].hotel /\ users'[requests[r].user] = q.copy
            /\ q.copy.hotel = requests[r].hotel /\ From(r, q.copy.identity) /\ From(r, n.copy.identity)
        BY <2>1, <2>2, <2>4, <3>1, <3>3, <3>7
      <3>9. \A u \in Users : u # requests[r].user => users'[u] = users[u]
        BY <3>3
      <3> QED BY <2>1, <3>1, <3>2, <3>3, <3>4, <3>6, <3>8, <3>9, OrderOwnRow
    <2>6. CASE ~CanSave(q.user, q.copy)
      <3> PICK n : n = [q EXCEPT !.pc = "undoing"]
        OBVIOUS
      <3>s. "undoing" \in Stages
        BY DEF Stages
      <3>1. /\ n \in UserRequest /\ n \in Request /\ n.pc = "undoing" /\ n.copy = q.copy /\ n.user = q.user
            /\ n.hotel = q.hotel /\ n.why = q.why
        BY <2>1, <3>s, StageTyped, Zenon
      <3>2. UNCHANGED users /\ Step(r, n)
        BY <1>4, <2>6 DEF Rename
      <3>m. Mine(r, n)
        BY <2>2, <3>1, GoesOnMine
      <3>3. Fits(n, row) /\ ~Recording(n) /\ Emptied(n) /\ Mine(r, n)
        BY <2>1, <2>2, <3>1, <3>m DEF Fits, Recording, Emptied
      <3>4. Fits(n, row)'
        BY <2>4, <3>1, <3>3, FitsLater
      <3>5. Fits(n, users[n.user])'
        BY <3>1, <3>2, <3>4 DEF Fits
      <3> QED BY <2>1, <2>2, <2>4, <3>1, <3>2, <3>3, <3>5, OrderRequest
    <2> QED BY <2>5, <2>6
  <1>5. ASSUME Undo(r) PROVE OrderInv'
    <2>1. q \in UserRequest /\ UNCHANGED <<partner, tenant>> /\ users' = [users EXCEPT ![q.user] = NoRow] /\ Step(r, Idle)
      BY <1>5, KindOfRequest DEF Undo, Stages, Deleted
    <2>2. hotels' = hotels
      BY <2>1 DEF partner
    <2>3. RowsDiffer' /\ RowsHaveHotel' /\ users'[q.user] = NoRow /\ \A v \in Users \ {q.user} : users'[v] = users[v]
      BY <1>o, <2>1, <2>2, DeletedInOrder
    <2> QED BY <1>i, <2>1, <2>3, OrderOwnRow
  <1> QED BY <1>1, <1>2, <1>3, <1>4, <1>5 DEF CreateStep

LEMMA AccessInOrderStep ==
  ASSUME Exclusive, OrderInv, HonestInv', NEW r \in Requests, AccessStep(r) PROVE OrderInv'
PROOF
  <1> PICK q \in Request : q = requests[r]
    BY DEF OrderInv, HonestInv, TypeOK, Request
  <1>i. Idle \in Request \ UserRequest /\ Mine(r, Idle) /\ Emptied(Idle) /\ Emptied(Idle)'
    BY IdleTyped, IdleIsMine DEF Emptied, Idle
  <1>o. q \in UserRequest =>
          /\ q # Idle /\ Fits(q, users[q.user]) /\ Honest(q) /\ q.user \in Rows /\ q.copy \in User
          /\ q.user \in Users
    BY OwnRow, RequestTyped
  <1>h. HonestInv
    BY DEF OrderInv
  <1>1. ASSUME NEW u \in Rows, StartResend(r, u) PROVE OrderInv'
    BY <1>1, OrderReading DEF StartResend, Reasons
  <1>2. ASSUME NEW u \in Rows, StartRelease(r, u) PROVE OrderInv'
    BY <1>2, OrderReading DEF StartRelease, Reasons
  <1>3. ASSUME NEW u \in Rows, StartSignIn(r, u) PROVE OrderInv'
    BY <1>3, OrderReading DEF StartSignIn, MaySignIn, Reasons
  <1>4. ASSUME NEW u \in Rows, NEW why \in {"enable", "disable"}, StartSwitch(r, u, why) PROVE OrderInv'
    BY <1>4, OrderReading DEF StartSwitch, Reasons
  <1>5. ASSUME SaveUser(r) PROVE OrderInv'
    <2>1. q \in UserRequest /\ UNCHANGED <<partner, tenant>> /\ Step(r, Idle)
      BY <1>5, KindOfRequest DEF SaveUser, Stages
    <2>2. CASE CanSave(q.user, q.copy)
      <3>1. users' = [users EXCEPT ![q.user] = q.copy] /\ hotels' = hotels
        BY <1>5, <2>2 DEF SaveUser, partner
      <3>2. /\ RowsDiffer' /\ RowsHaveHotel' /\ users'[q.user] = q.copy
            /\ \A v \in Users \ {q.user} : users'[v] = users[v]
        BY <1>o, <2>1, <2>2, <3>1, SavedInOrder
      <3>3. q.copy.hotel = q.hotel /\ From(r, q.copy.identity)
        BY <1>o, <2>1 DEF Fits, From
      <3> QED BY <1>i, <2>1, <3>2, <3>3, OrderOwnRow
    <2>3. CASE ~CanSave(q.user, q.copy)
      <3>1. users' = users
        BY <1>5, <2>3 DEF SaveUser
      <3> QED BY <1>i, <2>1, <3>1, OrderIdle
    <2> QED BY <2>2, <2>3
  <1>6. ASSUME SwitchIdentity(r) PROVE OrderInv'
    <2>1. q \in UserRequest /\ q.pc = "switching" /\ UNCHANGED <<partner, users, foreign>>
      BY <1>6, KindOfRequest DEF SwitchIdentity, Stages
    <2> PICK copy \in User : copy = q.copy
      BY <1>o, <2>1
    <2> PICK row : row = users[q.user]
      OBVIOUS
    <2> PICK status \in UserStatuses : status = SwitchedStatus(q.why, copy)
      BY DEF SwitchedStatus, UserStatuses
    <2>p. PICK save : save = [q EXCEPT !.pc = "saving", !.copy.status = status]
      OBVIOUS
    <2> PICK switched \in User : switched = [copy EXCEPT !.status = status]
      BY UserFields, NamesAssumption DEF User
    <2>3. /\ switched.username = copy.username /\ switched.email = copy.email /\ switched.hotel = copy.hotel
          /\ switched.identity = copy.identity /\ switched.signedIn = copy.signedIn
          /\ switched.status = status
      BY DEF User
    <2>4. SwitchedStatus(q.why, switched) = status
      BY <2>3 DEF SwitchedStatus
    <2>5. save = Turned(q, "saving", switched)
      <3>1. q = [pc |-> q.pc, hotel |-> q.hotel, user |-> q.user, copy |-> copy, why |-> q.why,
                   refused |-> q.refused, attempt |-> q.attempt]
        BY <2>1, RequestTyped DEF Turned
      <3> QED BY <2>p, <3>1 DEF Turned
    <2>6. /\ save \in UserRequest /\ save.pc = "saving" /\ save.copy = switched
          /\ save.user = q.user /\ save.hotel = q.hotel /\ save.why = q.why
      <3> PICK pc \in Stages : pc = "saving"
        BY DEF Stages
      <3>1. Turned(q, pc, switched) = save
        BY <2>5
      <3> QED BY <2>1, <3>1, TurnedTyped
    <2>7. Fits(q, row) /\ q # Idle /\ q.why \in {"enable", "disable"}
      BY <1>o, <2>1 DEF Fits
    <2>8. ~Recording(save) /\ ~Recording(q)
      BY <2>1, <2>6, <2>7 DEF Recording
    <2>s. save.copy.status = SwitchedStatus(save.why, save.copy)
      BY <2>3, <2>4, <2>6
    <2>t. /\ row # NoRow /\ row.hotel = save.hotel /\ save.copy.hotel = save.hotel
          /\ save.copy.email = row.email /\ save.copy.username = row.username
          /\ save.copy.identity = row.identity
      BY <2>1, <2>3, <2>6, <2>7, <2>8 DEF Fits
    <2>9. Fits(save, row)
      BY <2>6, <2>7, <2>8, <2>s, <2>t DEF Fits
    <2>10. ASSUME Later, Step(r, save) PROVE OrderInv'
      <3>1. Fits(save, row)'
        BY <2>6, <2>9, <2>10, FitsLater
      <3>2. users'[save.user] = row
        BY <2>1, <2>6
      <3>3. Fits(save, users[save.user])'
        BY <3>1, <3>2 DEF Fits
      <3>m. Mine(r, save)
        BY <2>6, <2>7, GoesOnMine
      <3>4. Mine(r, save) /\ From(r, copy.identity) /\ save \in Request
        BY <2>1, <2>6, <3>m DEF From, Request
      <3>5. Emptied(save) /\ From(r, save.copy.identity)
        BY <2>3, <2>6, <3>4 DEF Emptied
      <3> QED BY <2>1, <2>8, <2>10, <3>3, <3>4, <3>5, OrderRequest
    <2>11. CASE UNCHANGED identities /\ Step(r, save)
      BY <2>10, <2>11, UnchangedIsLater
    <2>12. CASE UNCHANGED identities /\ Step(r, Idle)
      BY <1>i, <2>1, <2>12, OrderIdle DEF tenant
    <2>13. ASSUME NEW i \in Accounts, identities' = [identities EXCEPT ![i].blocked = Blocking(q.why)], Step(r, save)
          PROVE  OrderInv'
      <3> PICK blocked \in BOOLEAN : blocked = Blocking(q.why)
        BY DEF Blocking
      <3>1. identities' = [identities EXCEPT ![i].blocked = blocked]
        BY <2>13
      <3> QED BY <1>h, <2>10, <2>13, <3>1, BlockingKeeps
    <2> QED BY <1>6, <2>p, <2>11, <2>12, <2>13 DEF SwitchIdentity
  <1>7. ASSUME DeleteIdentity(r) PROVE OrderInv'
    <2>1. q \in UserRequest /\ q.pc = "releasing" /\ UNCHANGED <<partner, users, foreign>>
      BY <1>7, KindOfRequest DEF DeleteIdentity, Stages
    <2> PICK row : row = users[q.user]
      OBVIOUS
    <2> PICK n : n = [q EXCEPT !.pc = "dropping"]
      OBVIOUS
    <2>d. "dropping" \in Stages
      BY DEF Stages
    <2>2. /\ n \in UserRequest /\ n \in Request /\ n.pc = "dropping" /\ n.copy = q.copy /\ n.why = q.why
          /\ n.user = q.user /\ n.hotel = q.hotel
      BY <2>1, <2>d, StageTyped, Zenon
    <2> PICK copy : copy = q.copy
      OBVIOUS
    <2>3. /\ identities' = [i \in Identities |-> IF i \in AccountsOf(copy) THEN Gone ELSE identities[i]]
          /\ Step(r, n)
      BY <1>7 DEF DeleteIdentity
    <2>4. Later /\ (copy.identity \in Identities => identities'[copy.identity] = Gone)
      BY <1>h, <2>3, DeletingKeeps
    <2>5. copy.identity \in Identities \cup {NoIdentity}
      BY <1>o, <2>1 DEF User
    <2>6. Fits(q, row) /\ q # Idle
      BY <1>o, <2>1
    <2>7. Fits(n, row)'
      BY <2>1, <2>2, <2>4, <2>5, <2>6 DEF Fits, Recording
    <2>8. users'[n.user] = row
      BY <2>1, <2>2
    <2>9. Fits(n, users[n.user])'
      BY <2>7, <2>8 DEF Fits
    <2>10. Mine(r, n) /\ From(r, n.copy.identity) /\ Emptied(n) /\ ~Recording(n)
      BY <2>1, <2>2, <2>6, GoesOnMine DEF From, Emptied, Recording
    <2> QED BY <2>1, <2>2, <2>3, <2>4, <2>9, <2>10, OrderRequest
  <1>8. ASSUME DropUser(r) PROVE OrderInv'
    <2>1. q \in UserRequest /\ UNCHANGED <<partner, tenant>> /\ users' = [users EXCEPT ![q.user] = NoRow] /\ q.pc = "dropping"
      BY <1>8, KindOfRequest DEF DropUser, Stages
    <2>2. hotels' = hotels
      BY <2>1 DEF partner
    <2>3. RowsDiffer' /\ RowsHaveHotel' /\ users'[q.user] = NoRow /\ \A v \in Users \ {q.user} : users'[v] = users[v]
      BY <1>o, <2>1, <2>2, DeletedInOrder
    <2>4. q.hotel \in Hotels /\ users[q.user].hotel = q.hotel
      BY <1>o, <2>1, RequestTyped DEF Fits
    <2>5. \A v \in Users : users'[v] # NoRow => users'[v].hotel # q.hotel
      BY <1>o, <2>1, <2>3, <2>4 DEF OrderInv, RowsDiffer, Differ, Rows
    <2>6. PICK n \in Request \ UserRequest : Step(r, n) /\ (n # Idle => n.hotel = q.hotel)
      <3>1. CASE q.why \in {"archive", "remove"}
        <4> PICK n : n = [pc |-> "closing", hotel |-> q.hotel, why |-> q.why]
          OBVIOUS
        <4>1. n \in Request \ UserRequest /\ n.hotel = q.hotel
          BY <2>4, <3>1, HotelRequestTyped
        <4>2. Step(r, n)
          BY <1>8, <3>1 DEF DropUser
        <4> QED BY <4>1, <4>2
      <3>2. CASE q.why = "release"
        BY <1>8, <1>i, <3>2 DEF DropUser
      <3>3. q.why \in Releasers
        BY <1>o, <2>1 DEF Honest
      <3> QED BY <3>1, <3>2, <3>3 DEF Releasers
    <2>7. Emptied(n)'
      BY <1>i, <2>5, <2>6 DEF Emptied, Rows
    <2> QED BY <2>1, <2>3, <2>6, <2>7, OrderOwnRow
  <1>9. ASSUME CompleteSignIn(r) PROVE OrderInv'
    <2>1. q \in UserRequest /\ UNCHANGED <<partner, tenant>> /\ Step(r, Idle) /\ q.user \in Rows
      BY <1>9, <1>o, KindOfRequest DEF CompleteSignIn, Stages
    <2> PICK u \in Users : u = q.user
      BY <1>o, <2>1
    <2> PICK row : row = users[u]
      OBVIOUS
    <2> PICK new : new = users'[u]
      OBVIOUS
    <2>2. users' = [users EXCEPT ![u].status = "active", ![u].signedIn = TRUE]
      BY <1>9, <2>1 DEF CompleteSignIn
    <2>3. /\ new.hotel = row.hotel /\ new.username = row.username
          /\ new.email = row.email /\ new.identity = row.identity
      BY <1>h, <2>1, <2>2, SignInWrites
    <2>4. users'[u] = new /\ \A v \in Users \ {u} : users'[v] = users[v]
      BY <1>h, <2>1, <2>2, SignInWrites
    <2>5. RowsDiffer' /\ RowsHaveHotel'
      <3>1. hotels' = hotels
        BY <2>1 DEF partner
      <3>2. \A v \in Rows \ {u} : Differ(users[v], new) /\ Differ(new, users[v])
        BY <2>1, <2>3 DEF OrderInv, RowsDiffer, Differ
      <3>3. RowsDiffer'
        BY <2>4, <3>2 DEF OrderInv, RowsDiffer, Rows, Differ
      <3>4. RowsHaveHotel'
        BY <2>1, <2>3, <2>4, <3>1 DEF OrderInv, RowsHaveHotel, Rows
      <3> QED BY <3>3, <3>4
    <2>6. new.hotel = q.hotel /\ From(r, new.identity)
      BY <1>o, <2>1, <2>3 DEF Fits, From
    <2> QED BY <1>i, <2>1, <2>4, <2>5, <2>6, OrderOwnRow
  <1> QED BY <1>1, <1>2, <1>3, <1>4, <1>5, <1>6, <1>7, <1>8, <1>9 DEF AccessStep

LEMMA OrderInit == Init => OrderInv
PROOF
  <1> SUFFICES ASSUME Init PROVE OrderInv
    OBVIOUS
  <1>1. HonestInv
    BY HonestInit
  <1>2. Rows = {} /\ \A r \in Requests : requests[r] = Idle
    BY DEF Init, Rows
  <1>3. Idle \notin UserRequest /\ Emptied(Idle)
    BY IdleTyped, IdleIsMine DEF Emptied, Idle
  <1> QED BY <1>1, <1>2, <1>3 DEF OrderInv, Apart, RowsDiffer, RowsHaveHotel

LEMMA OrderNext == Exclusive /\ OrderInv /\ [Next]_vars => OrderInv'
PROOF
  <1> SUFFICES ASSUME Exclusive, OrderInv, [Next]_vars PROVE OrderInv'
    OBVIOUS
  <1>1. HonestInv'
    BY HonestNext DEF OrderInv
  <1>2. ASSUME NEW r \in Requests, Crash(r) PROVE OrderInv'
    BY <1>1, <1>2, IdleTyped, IdleIsMine, OrderIdle DEF Crash
  <1>3. CASE UNCHANGED vars
    BY <1>1, <1>3 DEF vars, OrderInv, Apart, RowsDiffer, RowsHaveHotel, Emptied, Fits, Fresh, Rows
  <1>4. CASE HotelStep
    BY <1>1, <1>4, HotelsInOrder
  <1>5. ASSUME NEW r \in Requests, PartnerStep(r) \/ CreateStep(r) \/ AccessStep(r) PROVE OrderInv'
    BY <1>1, <1>5, PartnersInOrder, CreatesInOrder, AccessInOrderStep
  <1> QED BY <1>2, <1>3, <1>4, <1>5 DEF Next

LEMMA OrderAlways == Exclusive => (Spec => []OrderInv)
PROOF
  <1>1. ASSUME Exclusive PROVE OrderInv /\ [Next]_vars => OrderInv'
    BY <1>1, OrderNext
  <1>2. ASSUME Exclusive PROVE Spec => []OrderInv
    BY <1>1, <1>2, OrderInit, PTL DEF Spec
  <1> QED BY <1>2

(***************************************************************************)
(* What one step may do to a row.                                          *)
(***************************************************************************)

\* A step writes no row, reserves one, or does to the row of its request what the request is about.
LEMMA StepsOnRows ==
  ASSUME OrderInv, [Next]_vars, NEW u \in Rows, users'[u] # users[u]
  PROVE  \E r \in Requests :
           /\ requests[r] \in UserRequest /\ requests[r].user = u
           /\ Fits(requests[r], users[u]) /\ Honest(requests[r]) /\ UNCHANGED <<identities, hotels>>
           /\ \/ Rename(r) /\ requests[r].why = "create" /\ users'[u] = requests[r].copy
              \/ Undo(r) /\ requests[r].why = "create" /\ users'[u] = NoRow
              \/ SaveUser(r) /\ CanSave(u, requests[r].copy) /\ users'[u] = requests[r].copy
              \/ DropUser(r) /\ users'[u] = NoRow
              \/ /\ CompleteSignIn(r)
                 /\ users' = [users EXCEPT ![u].status = "active", ![u].signedIn = TRUE]
PROOF
  <1>1. users' # users /\ u \in Users /\ users[u] # NoRow
    BY DEF Rows
  <1>2. users \in [Users -> User \cup {NoRow}] /\ HonestInv
    BY DEF OrderInv, HonestInv, TypeOK
  <1>3. PICK r \in Requests :
          CloseHotel(r) \/ Reserve(r) \/ Rename(r) \/ Undo(r) \/ SaveUser(r) \/ DropUser(r) \/ CompleteSignIn(r)
    BY <1>1 DEF Next, HotelStep, PartnerStep, CreateStep, AccessStep, Crash, CreateHotel, SetTours, Book,
         StartPatch, SavePatch, StartClosing, StartCreate, Offer, StartResend, StartSwitch, StartRelease,
         StartSignIn, SwitchIdentity, DeleteIdentity, vars
  <1> PICK q : q = requests[r]
    OBVIOUS
  <1>4. ~CloseHotel(r)
    BY <1>1, ClosingKeepsRows
  <1>5. ~Reserve(r)
    <2>1. ASSUME NEW v \in Users \ Rows, NEW row, users' = [users EXCEPT ![v] = row] PROVE FALSE
      BY <1>1, <1>2, <2>1 DEF Rows
    <2> QED BY <1>1, <2>1 DEF Reserve
  <1>6. q \in UserRequest
    <2>1. q \in Request
      BY <1>2 DEF HonestInv, TypeOK, Request
    <2>2. q.pc \in Stages
      BY <1>3, <1>4, <1>5 DEF Rename, Undo, SaveUser, DropUser, CompleteSignIn, Stages
    <2> QED BY <2>1, <2>2, KindOfRequest
  <1>7. q.user \in Rows /\ q.user \in Users /\ Fits(q, users[q.user]) /\ Honest(q)
    BY <1>6, OwnRow, RequestTyped
  <1>8. UNCHANGED <<identities, hotels>>
    BY <1>3, <1>4, <1>5 DEF Rename, Undo, SaveUser, DropUser, CompleteSignIn, partner, tenant
  <1>9. Rename(r) \/ Undo(r) => q.why = "create"
    BY <1>7 DEF Rename, Undo, Fits
  <1>10. CASE Rename(r)
    <2>1. users' = [users EXCEPT ![q.user] = q.copy]
      BY <1>1, <1>10 DEF Rename
    <2>2. q.user = u /\ users'[u] = q.copy
      BY <1>1, <1>2, <1>7, <2>1
    <2> QED BY <1>6, <1>7, <1>8, <1>9, <1>10, <2>2
  <1>11. CASE Undo(r)
    <2>1. users' = [users EXCEPT ![q.user] = NoRow]
      BY <1>11 DEF Undo, Deleted
    <2>2. q.user = u /\ users'[u] = NoRow
      BY <1>1, <1>2, <1>7, <2>1
    <2> QED BY <1>6, <1>7, <1>8, <1>9, <1>11, <2>2
  <1>12. CASE SaveUser(r)
    <2>1. users' = [users EXCEPT ![q.user] = q.copy] /\ CanSave(q.user, q.copy)
      BY <1>1, <1>12 DEF SaveUser
    <2>2. q.user = u /\ users'[u] = q.copy
      BY <1>1, <1>2, <1>7, <2>1
    <2> QED BY <1>6, <1>7, <1>8, <1>12, <2>1, <2>2
  <1>13. CASE DropUser(r)
    <2>1. users' = [users EXCEPT ![q.user] = NoRow]
      BY <1>13 DEF DropUser
    <2>2. q.user = u /\ users'[u] = NoRow
      BY <1>1, <1>2, <1>7, <2>1
    <2> QED BY <1>6, <1>7, <1>8, <1>13, <2>2
  <1>14. CASE CompleteSignIn(r)
    <2> PICK w : w = q.user
      OBVIOUS
    <2>1. users' = [users EXCEPT ![w].status = "active", ![w].signedIn = TRUE] /\ w \in Rows
      BY <1>7, <1>14 DEF CompleteSignIn
    <2>2. \A v \in Users \ {w} : users'[v] = users[v]
      BY <1>2, <2>1, SignInWrites
    <2>3. w = u
      BY <1>1, <2>2
    <2> QED BY <1>6, <1>7, <1>8, <1>14, <2>1, <2>3
  <1> QED BY <1>3, <1>4, <1>5, <1>10, <1>11, <1>12, <1>13, <1>14

\* Where requests about one hotel do not overlap, a disabled user is brought back by the save of an
\* enable request and by nothing else.
THEOREM DisabledUsersStayOut == Exclusive => (Spec => DisabledStaysOut)
PROOF
  <1> DEFINE Stay == \A u \in Rows :
               users[u].status = "disabled" /\ users'[u] # NoRow /\ users'[u].status # "disabled" =>
                 \E r \in Requests : requests[r].pc = "saving" /\ requests[r].user = u
                                       /\ requests[r].why = "enable"
  <1>1. OrderInv /\ [Next]_vars => Stay
    <2> SUFFICES ASSUME OrderInv, [Next]_vars, NEW u \in Rows, users[u].status = "disabled",
                        users'[u] # NoRow, users'[u].status # "disabled"
                 PROVE  \E r \in Requests : requests[r].pc = "saving" /\ requests[r].user = u
                                              /\ requests[r].why = "enable"
      OBVIOUS
    <2>1. PICK r \in Requests :
            /\ requests[r] \in UserRequest /\ requests[r].user = u /\ Fits(requests[r], users[u])
            /\ \/ requests[r].why = "create"
               \/ SaveUser(r) /\ users'[u] = requests[r].copy
               \/ CompleteSignIn(r)
      BY StepsOnRows
    <2> PICK q : q = requests[r]
      OBVIOUS
    <2>2. q.why # "create" /\ q.why \notin {"resend", "signIn"}
      BY <2>1 DEF Fits
    <2>3. ~CompleteSignIn(r)
      BY <2>1, <2>2 DEF CompleteSignIn, Fits
    <2>4. q.pc = "saving" /\ q.why \in {"enable", "disable"} /\ q.copy.status = SwitchedStatus(q.why, q.copy)
      BY <2>1, <2>2, <2>3 DEF SaveUser, Fits
    <2>5. q.why # "disable"
      BY <2>1, <2>2, <2>3, <2>4 DEF SwitchedStatus
    <2> QED BY <2>1, <2>4, <2>5
  <1> HIDE DEF Stay
  <1>2. DisabledStaysOut <=> [][Stay]_vars
    BY PTL DEF DisabledStaysOut, Stay
  <1>3. OrderInv /\ [Next]_vars => [Stay]_vars
    BY <1>1
  <1>4. ASSUME Exclusive PROVE Spec => []OrderInv
    BY <1>4, OrderAlways
  <1>5. ASSUME Exclusive PROVE Spec => DisabledStaysOut
    BY <1>2, <1>3, <1>4, <1>5, PTL DEF Spec
  <1> QED BY <1>5

\* Where requests about one hotel do not overlap, a row goes only after its account; and a hotel that
\* archive closes has given up its access user, its grants and its company number.
THEOREM ReleasesAreComplete == Exclusive => (Spec => ReleaseIsComplete)
PROOF
  <1> DEFINE Emptying == \A u \in Rows :
               users'[u] = NoRow /\ users[u].identity # NoIdentity => identities[users[u].identity] = Gone
             Given(h) == hotels' # hotels =>
               /\ hotels'[h].status = "archived"
               /\ ~granted'[h]
               /\ \A u \in Users : users'[u] # NoRow => users'[u].hotel # h
               /\ \A g \in Hotels \ {h} : hotels'[g] = hotels[g]
             Giving == \A r \in Requests :
               requests[r].pc = "closing" /\ requests[r].why = "archive" /\ requests'[r] = Idle =>
                 LET h == requests[r].hotel IN
                 hotels' # hotels =>
                   /\ hotels'[h].status = "archived"
                   /\ ~granted'[h]
                   /\ \A u \in Users : users'[u] # NoRow => users'[u].hotel # h
                   /\ \A g \in Hotels \ {h} : hotels'[g] = hotels[g]
  <1>1. ASSUME OrderInv, [Next]_vars PROVE Emptying
    <2> SUFFICES ASSUME NEW u \in Rows, users'[u] = NoRow, users[u].identity # NoIdentity
                 PROVE  identities[users[u].identity] = Gone
      OBVIOUS
    <2>1. users'[u] # users[u]
      BY DEF Rows
    <2>2. PICK r \in Requests :
            /\ requests[r] \in UserRequest /\ Fits(requests[r], users[u])
            /\ \/ requests[r].why = "create"
               \/ users'[u] = requests[r].copy
               \/ DropUser(r)
               \/ users' = [users EXCEPT ![u].status = "active", ![u].signedIn = TRUE]
      BY <1>1, <2>1, StepsOnRows
    <2> PICK q : q = requests[r]
      OBVIOUS
    <2>3. q.why # "create"
      BY <2>2 DEF Fits
    <2>4. users'[u] # q.copy
      BY <2>2, RequestTyped, NothingAssumption
    <2>5. users' # [users EXCEPT ![u].status = "active", ![u].signedIn = TRUE]
      <3>1. HonestInv
        BY <1>1 DEF OrderInv
      <3> QED BY <3>1, SignInWrites, NothingAssumption
    <2>6. q.pc = "dropping" /\ ~Recording(q)
      BY <2>2, <2>3, <2>4, <2>5 DEF DropUser, Recording
    <2> QED BY <2>2, <2>6 DEF Fits
  <1>2. ASSUME OrderInv, [Next]_vars PROVE Giving
    <2> SUFFICES ASSUME NEW r \in Requests, requests[r].pc = "closing", requests[r].why = "archive",
                        requests'[r] = Idle, hotels' # hotels
                 PROVE  Given(requests[r].hotel)
      OBVIOUS
    <2>1. requests[r] # Idle /\ requests \in [Requests -> Request]
      BY <1>2 DEF Idle, OrderInv, HonestInv, TypeOK, Request
    <2>2. ASSUME NEW s \in Requests, NEW n, requests' = [requests EXCEPT ![s] = n] PROVE s = r
      BY <2>1, <2>2
    <2>3. CloseHotel(r)
      <3>1. PICK s \in Requests : SavePatch(s) \/ CloseHotel(s)
        BY <1>2, <2>1 DEF Next, HotelStep, PartnerStep, CreateStep, AccessStep, Crash, CreateHotel, SetTours, Book,
         StartPatch, StartClosing, StartCreate, Reserve, Offer, Rename, Undo, StartResend, StartSwitch, StartRelease,
         StartSignIn, SaveUser, SwitchIdentity, DeleteIdentity, DropUser, CompleteSignIn, vars, partner, flight
      <3>2. s = r
        BY <2>2, <3>1 DEF SavePatch, CloseHotel, Step
      <3> QED BY <3>1, <3>2 DEF SavePatch
    <2> PICK h : h = requests[r].hotel
      OBVIOUS
    <2>4. /\ users' = users /\ h \in Hotels /\ \A u \in Rows : users[u].hotel # h
          /\ \A g \in Hotels : g # h => hotels'[g] = hotels[g]
      BY <1>2, <2>3, ClosingKeepsRows
    <2>5. /\ hotels' = IF hotels[h] = NoRow THEN hotels ELSE [hotels EXCEPT ![h].status = "archived"]
          /\ granted' = [granted EXCEPT ![h] = FALSE]
      BY <2>3 DEF CloseHotel, GrantsRevoked
    <2>6. hotels \in [Hotels -> Hotel \cup {NoRow}] /\ granted \in [Hotels -> BOOLEAN]
      BY <1>2 DEF OrderInv, HonestInv, TypeOK
    <2>7. hotels'[h].status = "archived"
      <3> PICK row \in Hotel : row = hotels[h]
        BY <2>4, <2>5, <2>6
      <3>1. hotels' = [hotels EXCEPT ![h] = [row EXCEPT !.status = "archived"]]
        BY <2>5, <2>6
      <3>2. hotels'[h] = [row EXCEPT !.status = "archived"]
        BY <2>4, <2>6, <3>1
      <3> QED BY <3>2 DEF Hotel
    <2>8. ~granted'[h]
      BY <2>4, <2>5, <2>6
    <2> QED BY <2>4, <2>7, <2>8 DEF Rows
  <1> HIDE DEF Emptying, Giving
  <1>3. ReleaseIsComplete <=> [][Emptying /\ Giving]_vars
    BY PTL DEF ReleaseIsComplete, Emptying, Giving
  <1>4. OrderInv /\ [Next]_vars => [Emptying /\ Giving]_vars
    BY <1>1, <1>2
  <1>5. ASSUME Exclusive PROVE Spec => []OrderInv
    BY <1>5, OrderAlways
  <1>6. ASSUME Exclusive PROVE Spec => ReleaseIsComplete
    BY <1>3, <1>4, <1>5, <1>6, PTL DEF Spec
  <1> QED BY <1>6

(***************************************************************************)
(* Until something fails, the rows and the provider agree.                 *)
(***************************************************************************)

\* A row nobody works on: its account lives, and is blocked exactly when the user is disabled.
Sound(row) ==
  /\ row.identity \in Accounts
  /\ identities[row.identity].blocked <=> row.status = "disabled"

\* What a request knows of the account of the row it works on.
Agrees(q, row) ==
  /\ q.pc \in {"switching", "signingIn", "releasing"} \/ q.why = "resend" => Sound(row)
  /\ Recording(q) =>
       q.copy.identity \in Accounts /\ ~identities[q.copy.identity].blocked
  /\ q.pc = "saving" /\ q.why \in {"enable", "disable"} =>
       /\ q.copy.identity \in Accounts
       /\ identities[q.copy.identity].blocked <=> q.why = "disable"
  /\ q.pc = "dropping" => q.copy.identity # NoIdentity

WorkedOn(u) == \E r \in Requests : requests[r] \in UserRequest /\ requests[r].user = u

\* On a row, or about to be written to one.
KeptTrackOf(i) ==
  \/ \E u \in Rows : users[u].identity = i
  \/ \E r \in Requests : requests[r] \in UserRequest /\ Recording(requests[r]) /\ requests[r].copy.identity = i

Agreement ==
  /\ \A u \in Rows : Sound(users[u]) \/ WorkedOn(u)
  /\ \A r \in Requests : requests[r] \in UserRequest => Agrees(requests[r], users[requests[r].user])
  /\ \A i \in Accounts : KeptTrackOf(i)

AgreeInv == OrderInv /\ (faults = 0 => Agreement)

\* An account no other request and no other row points at.
OwnAccount(r, i) ==
  /\ \A s \in Requests \ {r} : requests[s] \in UserRequest => requests[s].copy.identity # i
  /\ \A v \in Rows : users[v].identity = i => requests[r] \in UserRequest /\ requests[r].user = v

\* A step of one request that keeps to its own row and its own account.
LEMMA AgreeStep ==
  ASSUME OrderInv, Agreement, OrderInv', NEW r \in Requests, NEW n \in Request,
         requests' = [requests EXCEPT ![r] = n],
         \A s \in Requests \ {r} : requests[s] \in UserRequest =>
           users'[requests[s].user] = users[requests[s].user],
         \A i \in Identities : identities'[i] = identities[i] \/ OwnAccount(r, i),
         \A u \in Users : users'[u] # NoRow =>
           \/ users'[u] = users[u] /\ ~(requests[r] \in UserRequest /\ requests[r].user = u)
           \/ Sound(users[u])'
           \/ n \in UserRequest /\ n.user = u,
         n \in UserRequest => Agrees(n, users[n.user])',
         \A u \in Rows :
           \/ users'[u] # NoRow /\ users'[u].identity = users[u].identity
           \/ users[u].identity \notin Accounts',
         requests[r] \in UserRequest /\ Recording(requests[r]) =>
           \E u \in Users : users'[u] # NoRow /\ users'[u].identity = requests[r].copy.identity,
         \A i \in Accounts' : i \in Accounts \/ (n \in UserRequest /\ Recording(n) /\ n.copy.identity = i)
  PROVE  Agreement'
PROOF
  <1>1. requests' = [s \in Requests |-> IF s = r THEN n ELSE requests[s]]
    BY DEF OrderInv, HonestInv, TypeOK
  <1>2. requests'[r] = n /\ \A s \in Requests \ {r} : requests'[s] = requests[s]
    BY <1>1
  <1>3. ASSUME NEW u \in Users, users'[u] # NoRow PROVE Sound(users[u])' \/ WorkedOn(u)'
    <2>1. CASE users'[u] = users[u] /\ ~(requests[r] \in UserRequest /\ requests[r].user = u)
      <3>1. CASE WorkedOn(u)
        <4>1. PICK s \in Requests \ {r} : requests[s] \in UserRequest /\ requests[s].user = u
          BY <2>1, <3>1 DEF WorkedOn
        <4> QED BY <1>2, <4>1 DEF WorkedOn
      <3>2. CASE Sound(users[u])
        <4> PICK row : row = users[u]
          OBVIOUS
        <4> PICK i : i = row.identity
          OBVIOUS
        <4>1. u \in Rows /\ i \in Identities
          BY <1>3, <2>1, <3>2 DEF Rows, Sound, Accounts
        <4>2. identities'[i] = identities[i]
          BY <2>1, <4>1 DEF OwnAccount
        <4>3. Sound(row)
          BY <3>2
        <4>4. i \in Accounts' /\ identities'[i].blocked = identities[i].blocked
          BY <4>2, <4>3 DEF Sound, Accounts
        <4>5. Sound(row)'
          BY <4>3, <4>4 DEF Sound
        <4> QED BY <2>1, <4>5 DEF Sound
      <3>3. Sound(users[u]) \/ WorkedOn(u)
        BY <1>3, <2>1 DEF Agreement, Rows
      <3> QED BY <3>1, <3>2, <3>3
    <2>2. CASE n \in UserRequest /\ n.user = u
      BY <1>2, <2>2 DEF WorkedOn
    <2> QED BY <1>3, <2>1, <2>2
  <1>4. ASSUME NEW s \in Requests, requests'[s] \in UserRequest PROVE Agrees(requests[s], users[requests[s].user])'
    <2>1. CASE s = r
      BY <1>2, <1>4, <2>1 DEF Agrees, Sound
    <2>2. CASE s # r
      <3> PICK q : q = requests[s]
        OBVIOUS
      <3> PICK row : row = users[q.user]
        OBVIOUS
      <3> PICK i : i = q.copy.identity
        OBVIOUS
      <3>1. requests'[s] = q /\ q \in UserRequest /\ Agrees(q, row) /\ Fits(q, row) /\ users'[q.user] = row
        BY <1>2, <1>4, <2>2 DEF OrderInv, Agreement
      <3>2. i \in Identities => identities'[i] = identities[i]
        BY <2>2, <3>1 DEF OwnAccount
      <3>3. i \in Accounts => i \in Accounts' /\ identities'[i].blocked = identities[i].blocked
        BY <3>2 DEF Accounts
      <3>4. Sound(row) /\ ~Recording(q) => Sound(row)'
        BY <3>1, <3>3 DEF Sound, Fits
      <3>5. q.pc \in {"switching", "signingIn", "releasing"} \/ q.why = "resend" => ~Recording(q)
        BY DEF Recording
      <3>6. Agrees(q, row)'
        BY <3>1, <3>3, <3>4, <3>5 DEF Agrees, Recording
      <3> QED BY <3>1, <3>6 DEF Agrees, Sound
    <2> QED BY <2>1, <2>2
  <1>5. ASSUME NEW i \in Accounts' PROVE KeptTrackOf(i)'
    <2>1. CASE n \in UserRequest /\ Recording(n) /\ n.copy.identity = i
      BY <1>2, <2>1 DEF KeptTrackOf, Recording
    <2>2. CASE i \in Accounts
      <3>1. CASE \E u \in Rows : users[u].identity = i
        <4>1. PICK u \in Rows : users[u].identity = i
          BY <3>1
        <4>2. users'[u] # NoRow /\ users'[u].identity = i /\ u \in Users
          BY <1>5, <4>1 DEF Rows
        <4> QED BY <4>2 DEF KeptTrackOf, Rows
      <3>2. ASSUME NEW s \in Requests, requests[s] \in UserRequest, Recording(requests[s]), requests[s].copy.identity = i
            PROVE  KeptTrackOf(i)'
        <4>1. CASE s = r
          BY <3>2, <4>1 DEF KeptTrackOf, Rows
        <4>2. CASE s # r
          BY <1>2, <3>2, <4>2 DEF KeptTrackOf, Recording
        <4> QED BY <4>1, <4>2
      <3> QED BY <2>2, <3>1, <3>2 DEF Agreement, KeptTrackOf
    <2> QED BY <1>5, <2>1, <2>2
  <1> QED BY <1>3, <1>4, <1>5 DEF Agreement, Rows

\* A step of a request that is not about a row.
LEMMA AgreeAside ==
  ASSUME OrderInv, Agreement, OrderInv', NEW r \in Requests, NEW n \in Request, Step(r, n),
         UNCHANGED <<users, identities>>, requests[r] \notin UserRequest,
         n \in UserRequest => Agrees(n, users[n.user]) /\ ~Recording(n)
  PROVE  Agreement'
PROOF
  <1>1. requests' = [requests EXCEPT ![r] = n]
    BY DEF Step
  <1>2. \A u \in Rows : users'[u] # NoRow /\ users'[u].identity = users[u].identity
    BY DEF Rows
  <1>3. \A i \in Accounts' : i \in Accounts
    BY DEF Accounts
  <1>4. n \in UserRequest => Agrees(n, users[n.user])'
    BY DEF Agrees, Sound, Accounts
  <1> QED BY <1>1, <1>2, <1>3, <1>4, AgreeStep

\* A row is at rest when nobody is about its hotel: nobody works on it.
LEMMA AloneIsSound ==
  ASSUME OrderInv, Agreement, NEW u \in Rows, \A s \in Requests : ~Touches(requests[s], users[u].hotel)
  PROVE  Sound(users[u])
PROOF
  <1>1. ASSUME NEW s \in Requests, requests[s] \in UserRequest PROVE requests[s].user # u
    <2>1. Fits(requests[s], users[requests[s].user]) /\ requests[s] # Idle
      BY <1>1, OwnRow
    <2> QED BY <2>1 DEF Fits, Touches
  <1> QED BY <1>1 DEF Agreement, WorkedOn

LEMMA AgreeReading ==
  ASSUME Exclusive, OrderInv, Agreement, OrderInv', NEW r \in Requests, NEW u \in Rows, NEW why \in Reasons,
         NEW pc \in {"switching", "signingIn", "releasing", "saving"},
         Step(r, UserStep(pc, u, users[u], why)), UNCHANGED <<users, identities>>,
         MayStart(r, users[u].hotel), pc = "saving" => why = "resend"
  PROVE  Agreement'
PROOF
  <1> PICK row : row = users[u]
    OBVIOUS
  <1> PICK n : n = UserStep(pc, u, row, why)
    OBVIOUS
  <1>1. row \in User /\ u \in Users /\ pc \in Stages
    BY DEF OrderInv, HonestInv, TypeOK, Rows, Stages
  <1>2. n \in UserRequest /\ n.pc = pc /\ n.copy = row /\ n.user = u /\ n.why = why
    BY <1>1, UserStepTyped
  <1>3. Sound(row)
    BY AloneIsSound DEF MayStart, Alone
  <1>4. Agrees(n, row) /\ ~Recording(n) /\ n \in Request
    BY <1>2, <1>3 DEF Agrees, Recording, Request
  <1>5. requests[r] \notin UserRequest /\ Step(r, n)
    BY IdleTyped DEF MayStart
  <1> QED BY <1>2, <1>4, <1>5, AgreeAside

\* Where requests do not overlap, a save is never refused.
LEMMA SavesSucceed ==
  ASSUME OrderInv, NEW r \in Requests, requests[r] \in UserRequest, requests[r].pc = "saving"
  PROVE  CanSave(requests[r].user, requests[r].copy)
PROOF
  <1> PICK q : q = requests[r]
    OBVIOUS
  <1>1. q.user \in Rows /\ Fits(q, users[q.user])
    BY OwnRow
  <1> PICK row : row = users[q.user]
    OBVIOUS
  <1>2. q.copy.hotel = row.hotel /\ q.copy.email = row.email /\ q.copy.username = row.username
    BY <1>1 DEF Fits
  <1>3. hotels[q.copy.hotel] # NoRow
    BY <1>1, <1>2 DEF OrderInv, RowsHaveHotel
  <1>4. ASSUME NEW v \in Rows \ {q.user}
        PROVE  /\ users[v].hotel # q.copy.hotel /\ users[v].username # q.copy.username
               /\ users[v].email # q.copy.email
               /\ q.copy.identity = NoIdentity \/ users[v].identity # q.copy.identity
    <2>1. Differ(row, users[v])
      BY <1>1 DEF OrderInv, RowsDiffer
    <2>2. CASE Recording(q)
      <3>1. Fresh(r)
        BY <2>2 DEF OrderInv
      <3> QED BY <1>2, <2>1, <3>1 DEF Fresh, Differ
    <2>3. CASE ~Recording(q)
      BY <1>1, <1>2, <2>1, <2>3 DEF Fits, Differ
    <2> QED BY <2>2, <2>3
  <1> QED BY <1>3, <1>4 DEF CanSave

\* The account a request read with its row is nobody else's.
LEMMA ReadAccountIsOwn ==
  ASSUME OrderInv, NEW r \in Requests, requests[r] \in UserRequest, ~Recording(requests[r]),
         requests[r].copy.identity # NoIdentity
  PROVE  OwnAccount(r, requests[r].copy.identity)
PROOF
  <1> PICK q : q = requests[r]
    OBVIOUS
  <1> PICK i : i = q.copy.identity
    OBVIOUS
  <1>1. q.user \in Rows /\ Fits(q, users[q.user]) /\ users[q.user].identity = i /\ i # NoIdentity
    BY OwnRow DEF Fits
  <1>2. \A v \in Rows : v # q.user => users[v].identity # i
    BY <1>1 DEF OrderInv, RowsDiffer, Differ
  <1>3. ASSUME NEW s \in Requests \ {r}, requests[s] \in UserRequest PROVE requests[s].copy.identity # i
    <2>1. CASE Recording(requests[s])
      <3>1. Fresh(s)
        BY <1>3, <2>1 DEF OrderInv
      <3> QED BY <3>1 DEF Fresh
    <2>2. CASE ~Recording(requests[s])
      <3>1. requests[s].user \in Rows /\ Fits(requests[s], users[requests[s].user])
        BY <1>3, OwnRow
      <3>2. requests[s].user # q.user
        BY <1>3, OwnRow
      <3> QED BY <1>2, <2>2, <3>1, <3>2 DEF Fits
    <2> QED BY <2>1, <2>2
  <1> QED BY <1>2, <1>3 DEF OwnAccount

\* A request about a row that changes its own row, if any, and no account.
LEMMA AgreeOwnRow ==
  ASSUME OrderInv, Agreement, OrderInv', NEW r \in Requests, requests[r] \in UserRequest, NEW n \in Request,
         Step(r, n), UNCHANGED identities, NEW w, w = requests[r].user,
         \A u \in Users : u # w => users'[u] = users[u],
         users'[w] = NoRow \/ Sound(users[w])' \/ (n \in UserRequest /\ n.user = w),
         (users'[w] # NoRow /\ users'[w].identity = users[w].identity) \/ users[w].identity \notin Accounts,
         Recording(requests[r]) => users'[w] # NoRow /\ users'[w].identity = requests[r].copy.identity,
         n \in UserRequest => Agrees(n, users[n.user])'
  PROVE  Agreement'
PROOF
  <1>1. requests' = [requests EXCEPT ![r] = n]
    BY DEF Step
  <1>2. Accounts' = Accounts
    BY DEF Accounts
  <1>3. requests[r].user \in Users
    BY RequestTyped
  <1>4. \A s \in Requests \ {r} : requests[s] \in UserRequest =>
          users'[requests[s].user] = users[requests[s].user]
    BY OwnRow, RequestTyped
  <1>5. \A u \in Rows :
          \/ users'[u] # NoRow /\ users'[u].identity = users[u].identity
          \/ users[u].identity \notin Accounts'
    BY <1>2 DEF Rows
  <1>6. requests[r] \in UserRequest /\ Recording(requests[r]) =>
           \E u \in Users : users'[u] # NoRow /\ users'[u].identity = requests[r].copy.identity
    BY <1>3
  <1>7. \A u \in Users : users'[u] # NoRow =>
           \/ users'[u] = users[u] /\ ~(requests[r] \in UserRequest /\ requests[r].user = u)
           \/ Sound(users[u])'
           \/ n \in UserRequest /\ n.user = u
    <2> TAKE u \in Users
    <2>1. CASE u = w
      BY <2>1 DEF Sound
    <2>2. CASE u # w
      BY <2>2
    <2> QED BY <2>1, <2>2
  <1> QED BY <1>1, <1>2, <1>4, <1>5, <1>6, <1>7, AgreeStep

\* A request about a row that changes an account of its own, and no row.
LEMMA AgreeOwnAccount ==
  ASSUME OrderInv, Agreement, OrderInv', NEW r \in Requests, requests[r] \in UserRequest,
         ~Recording(requests[r]), NEW n \in UserRequest, n.user = requests[r].user, Step(r, n),
         users' = users, NEW i, OwnAccount(r, i),
         \A j \in Identities : j # i => identities'[j] = identities[j],
         Agrees(n, users[n.user])',
         i \in Accounts' => i \in Accounts \/ (Recording(n) /\ n.copy.identity = i)
  PROVE  Agreement'
PROOF
  <1>1. requests' = [requests EXCEPT ![r] = n] /\ n \in Request
    BY DEF Step, Request
  <1>2. \A j \in Identities : identities'[j] = identities[j] \/ OwnAccount(r, j)
    OBVIOUS
  <1>3. \A j \in Accounts' : j \in Accounts \/ (n \in UserRequest /\ Recording(n) /\ n.copy.identity = j)
    <2> TAKE j \in Accounts'
    <2>1. CASE j = i
      BY <2>1
    <2>2. CASE j # i
      BY <2>2 DEF Accounts
    <2> QED BY <2>1, <2>2
  <1>4. \A u \in Rows :
          \/ users'[u] # NoRow /\ users'[u].identity = users[u].identity
          \/ users[u].identity \notin Accounts'
    BY DEF Rows
  <1>5. \A u \in Users : users'[u] # NoRow =>
          \/ users'[u] = users[u] /\ ~(requests[r] \in UserRequest /\ requests[r].user = u)
          \/ Sound(users[u])'
          \/ n \in UserRequest /\ n.user = u
    OBVIOUS
  <1>6. \A s \in Requests \ {r} : requests[s] \in UserRequest =>
          users'[requests[s].user] = users[requests[s].user]
    OBVIOUS
  <1> QED BY <1>1, <1>2, <1>3, <1>4, <1>5, <1>6, AgreeStep

LEMMA PartnersAgree ==
  ASSUME Exclusive, OrderInv, Agreement, OrderInv', NEW r \in Requests, PartnerStep(r) PROVE Agreement'
PROOF
  <1> PICK q \in Request : q = requests[r]
    BY DEF OrderInv, HonestInv, TypeOK, Request
  <1>1. ASSUME NEW h \in Hotels, StartPatch(r, h) PROVE Agreement'
    <2>1. PICK row \in Hotel : Step(r, [pc |-> "patching", hotel |-> h, copy |-> row])
      BY <1>1 DEF StartPatch
    <2> PICK n : n = [pc |-> "patching", hotel |-> h, copy |-> row]
      OBVIOUS
    <2>2. n \in Request \ UserRequest /\ Step(r, n) /\ UNCHANGED <<users, identities>> /\ requests[r] = Idle
      BY <1>1, <2>1, HotelRequestTyped DEF StartPatch, MayStart, tenant
    <2> QED BY <2>2, IdleTyped, AgreeAside
  <1>2. ASSUME SavePatch(r) \/ CloseHotel(r) PROVE Agreement'
    <2>1. q \notin UserRequest
      BY <1>2, KindOfRequest DEF SavePatch, CloseHotel, Stages
    <2>2. UNCHANGED <<users, identities>> /\ Step(r, Idle)
      BY <1>2, ClosingKeepsRows DEF SavePatch, CloseHotel, tenant
    <2> QED BY <2>1, <2>2, IdleTyped, AgreeAside
  <1>3. ASSUME NEW h \in Hotels, NEW why \in {"archive", "remove"}, StartClosing(r, h, why) PROVE Agreement'
    <2>1. MayStart(r, h) /\ UNCHANGED <<users, identities>> /\ requests[r] = Idle
      BY <1>3 DEF StartClosing, tenant, MayStart
    <2>2. ASSUME NEW u \in Rows, users[u].hotel = h, Step(r, UserStep("releasing", u, users[u], why)) PROVE Agreement'
      BY <2>1, <2>2, AgreeReading DEF Reasons
    <2>3. ASSUME Step(r, [pc |-> "closing", hotel |-> h, why |-> why]) PROVE  Agreement'
      <3> PICK n : n = [pc |-> "closing", hotel |-> h, why |-> why]
        OBVIOUS
      <3>1. n \in Request \ UserRequest /\ Step(r, n)
        BY <2>3, HotelRequestTyped
      <3> QED BY <2>1, <3>1, IdleTyped, AgreeAside
    <2> QED BY <1>3, <2>2, <2>3 DEF StartClosing
  <1> QED BY <1>1, <1>2, <1>3 DEF PartnerStep

LEMMA CreatesAgree ==
  ASSUME Exclusive, OrderInv, Agreement, OrderInv', faults' = 0, NEW r \in Requests, CreateStep(r)
  PROVE  Agreement'
PROOF
  <1> PICK q \in Request : q = requests[r]
    BY DEF OrderInv, HonestInv, TypeOK, Request
  <1>i. Idle \in Request \ UserRequest
    BY IdleTyped
  <1>f. faults \in Nat
    BY AccessBoundsAssumption DEF OrderInv, HonestInv, TypeOK
  <1>o. q \in UserRequest =>
          /\ q # Idle /\ Fits(q, users[q.user]) /\ Honest(q) /\ q.user \in Rows /\ q.copy \in User
          /\ q.user \in Users
    BY OwnRow, RequestTyped
  <1>1. ASSUME NEW h \in Hotels, NEW email \in Emails, StartCreate(r, h, email) PROVE Agreement'
    <2> PICK name : name = Min(FreeNames({}))
      OBVIOUS
    <2>1. name \in Names
      BY <1>1, FreeNameIsName DEF StartCreate
    <2> PICK n : n = [pc |-> "reserving", hotel |-> h, email |-> email, username |-> name]
      OBVIOUS
    <2>2. n \in Request \ UserRequest /\ Step(r, n) /\ UNCHANGED <<users, identities>> /\ requests[r] = Idle
      BY <1>1, <2>1, HotelRequestTyped DEF StartCreate, tenant, MayStart
    <2> QED BY <1>i, <2>2, AgreeAside
  <1>2. ASSUME Reserve(r) PROVE Agreement'
    <2>1. q.hotel \in Hotels /\ q.email \in Emails /\ q.username \in Names /\ q \notin UserRequest
      BY <1>2, KindOfRequest DEF Reserve, Stages
    <2> PICK row : row = [hotel |-> q.hotel, username |-> q.username, email |-> q.email,
                          identity |-> NoIdentity, status |-> "invited", signedIn |-> FALSE]
      OBVIOUS
    <2>v. row \in User
      BY <2>1 DEF User, UserStatuses
    <2>3. PICK u \in Users \ Rows :
            \/ users' = [users EXCEPT ![u] = row] /\ Step(r, UserStep("offering", u, row, "create"))
            \/ UNCHANGED users /\ Step(r, Idle)
      BY <1>2 DEF Reserve
    <2>4. UNCHANGED identities
      BY <1>2 DEF Reserve, tenant
    <2>5. CASE users' = [users EXCEPT ![u] = row] /\ Step(r, UserStep("offering", u, row, "create"))
      <3> PICK n : n = UserStep("offering", u, row, "create")
        OBVIOUS
      <3>1. n \in UserRequest /\ n.pc = "offering" /\ n.why = "create" /\ n.user = u
        BY <2>v, UserStepTyped DEF Stages, Reasons
      <3>2. n \in Request /\ requests' = [requests EXCEPT ![r] = n] /\ Agrees(n, users[n.user])'
        BY <2>5, <3>1 DEF Request, Recording, Step, Agrees
      <3>3. \A v \in Users \ {u} : users'[v] = users[v]
        BY <2>5 DEF OrderInv, HonestInv, TypeOK
      <3>4. ASSUME NEW s \in Requests \ {r}, requests[s] \in UserRequest
             PROVE  users'[requests[s].user] = users[requests[s].user]
        <4>1. requests[s].user \in Rows
          BY <3>4, OwnRow
        <4> QED BY <3>3, <4>1 DEF Rows
      <3>5. \A v \in Users : users'[v] # NoRow =>
              \/ users'[v] = users[v] /\ ~(requests[r] \in UserRequest /\ requests[r].user = v)
              \/ Sound(users[v])'
              \/ n \in UserRequest /\ n.user = v
        BY <2>1, <3>1, <3>3
      <3>6. \A v \in Rows :
              \/ users'[v] # NoRow /\ users'[v].identity = users[v].identity
              \/ users[v].identity \notin Accounts'
        BY <3>3 DEF Rows
      <3>7. Accounts' = Accounts /\ requests[r] \notin UserRequest
        BY <2>1, <2>4 DEF Accounts
      <3>8. /\ \A i \in Identities : identities'[i] = identities[i] \/ OwnAccount(r, i)
            /\ \A i \in Accounts' : i \in Accounts \/ (n \in UserRequest /\ Recording(n) /\ n.copy.identity = i)
        BY <2>4, <3>7
      <3> QED BY <3>2, <3>4, <3>5, <3>6, <3>7, <3>8, AgreeStep
    <2>6. CASE UNCHANGED users /\ Step(r, Idle)
      BY <1>i, <2>1, <2>4, <2>6, AgreeAside
    <2> QED BY <2>3, <2>5, <2>6
  <1>3. ASSUME Offer(r) PROVE Agreement'
    <2>1. q \in UserRequest /\ q.pc = "offering" /\ UNCHANGED users
      BY <1>3, KindOfRequest DEF Offer, Stages
    <2> PICK copy \in User : copy = q.copy
      BY <1>o, <2>1
    <2> PICK w \in Users : w = q.user
      BY <1>o, <2>1
    <2>2. users[w] # NoRow /\ q.why = "create" /\ ~Recording(q)
      BY <1>o, <2>1 DEF Fits, Recording
    <2>3. ~Fault(r, [q EXCEPT !.pc = "undoing"])
      BY <1>f DEF Fault
    <2>4. ASSUME NEW n \in UserRequest, Step(r, n), UNCHANGED identities, n.user = w, n.why = "create",
                 n.pc \in {"renaming", "undoing"}
          PROVE  Agreement'
      <3>1. n \in Request /\ Agrees(n, users[n.user])'
        BY <2>4 DEF Agrees, Recording, Request
      <3> QED BY <2>1, <2>2, <2>4, <3>1, AgreeOwnRow
    <2> PICK undo : undo = [q EXCEPT !.pc = "undoing"]
      OBVIOUS
    <2>u. "undoing" \in Stages
      BY DEF Stages
    <2>5. undo \in UserRequest /\ undo.pc = "undoing" /\ undo.user = q.user /\ undo.why = q.why
      BY <2>1, <2>u, StageTyped, Zenon
    <2>6. ASSUME UNCHANGED identities, Step(r, undo) PROVE Agreement'
      BY <2>2, <2>4, <2>5, <2>6
    <2>7. ASSUME NEW i \in Identities, identities[i] = Unused,
                 identities' = [identities EXCEPT ![i] = AccountFor(copy)],
                 Step(r, [q EXCEPT !.pc = "saving", !.copy = Recorded(q.copy, i)])
          PROVE  Agreement'
      <3> PICK with : with = Recorded(copy, i)
        OBVIOUS
      <3>1. with \in User /\ with.identity = i
        <4>1. copy.username \in Names /\ copy.status \in UserStatuses
          BY DEF User
        <4>2. with \in User /\
              with = [hotel |-> copy.hotel, username |-> copy.username, email |-> copy.email, identity |-> i,
               status |-> copy.status, signedIn |-> copy.signedIn]
          BY <4>1, UserFields
        <4> QED BY <4>2
      <3>p. PICK save : save = [q EXCEPT !.pc = "saving", !.copy = with]
        OBVIOUS
      <3>2. save = Turned(q, "saving", with)
        <4> PICK one : one = [q EXCEPT !.pc = "saving"]
          OBVIOUS
        <4>2. one = Turned(q, "saving", q.copy)
          BY <2>1, TurnedIs
        <4>3. save = [one EXCEPT !.copy = with]
          BY <3>p
        <4> QED BY <4>2, <4>3 DEF Turned
      <3>3. save \in UserRequest /\ save.pc = "saving" /\ save.copy = with /\ save.user = q.user /\ save.why = q.why
        <4> PICK pc \in Stages : pc = "saving"
          BY DEF Stages
        <4>1. Turned(q, pc, with) = save
          BY <3>2
        <4> QED BY <2>1, <3>1, <4>1, TurnedTyped
      <3>4. requests' = [requests EXCEPT ![r] = save] /\ save \in Request /\ Recording(save)
        BY <2>2, <2>7, <3>p, <3>3 DEF Step, Request, Recording
      <3>5. identities \in [Identities -> Account \cup {Unused, Gone}]
        BY DEF OrderInv, HonestInv, TypeOK
      <3> PICK account \in Account : account = AccountFor(copy)
        BY DEF AccountFor, Account, User
      <3>6. identities'[i] = account /\ \A j \in Identities \ {i} : identities'[j] = identities[j]
        BY <2>7, <3>5
      <3>7. ~account.blocked
        <4>1. account.blocked = FALSE
          BY DEF AccountFor
        <4> QED BY <4>1
      <3>8. account # Unused /\ account # Gone
        BY NothingAssumption
      <3>9. i \in Accounts' /\ ~identities'[i].blocked
        BY <3>6, <3>7, <3>8 DEF Accounts
      <3>10. Agrees(save, users[save.user])'
        BY <2>2, <3>1, <3>3, <3>4, <3>9 DEF Agrees, Recording
      <3>11. OwnAccount(r, i)
        <4>1. ASSUME NEW v \in Rows PROVE users[v].identity # i
          <5>1. Answers(users[v])
            BY DEF OrderInv, HonestInv
          <5>2. i # NoIdentity
            BY NothingAssumption
          <5> QED BY <2>7, <5>1, <5>2 DEF Answers
        <4>2. ASSUME NEW t \in Requests \ {r}, requests[t] \in UserRequest PROVE requests[t].copy.identity # i
          <5> PICK row : row = requests[t].copy
            OBVIOUS
          <5>1. Answers(row)
            BY <4>2 DEF OrderInv, HonestInv, Honest
          <5>2. i # NoIdentity
            BY NothingAssumption
          <5> QED BY <2>7, <5>1, <5>2 DEF Answers
        <4> QED BY <4>1, <4>2 DEF OwnAccount
      <3>12. requests[r] \in UserRequest /\ ~Recording(requests[r]) /\ save.user = requests[r].user /\ Step(r, save)
        BY <2>1, <2>2, <2>7, <3>p, <3>3
      <3>13. Recording(save) /\ save.copy.identity = i
        BY <3>1, <3>3, <3>4
      <3>14. \A j \in Identities : j # i => identities'[j] = identities[j]
        BY <3>6
      <3> QED BY <2>1, <3>3, <3>10, <3>11, <3>12, <3>13, <3>14, AgreeOwnAccount
    <2>8. ASSUME NEW name, NEW refused \in SUBSET Names, name \in Names, UNCHANGED identities, q.attempt < Attempts,
                 Step(r, [q EXCEPT !.pc = "renaming", !.refused = refused, !.copy.username = name, !.attempt = @ + 1])
          PROVE  Agreement'
      <3> PICK n : n = [q EXCEPT !.pc = "renaming", !.refused = refused, !.copy.username = name, !.attempt = @ + 1]
        OBVIOUS
      <3> PICK named : named = [copy EXCEPT !.username = name]
        OBVIOUS
      <3>1. named \in User
        BY <2>8 DEF User
      <3>2. q = [pc |-> q.pc, hotel |-> q.hotel, user |-> q.user, copy |-> copy, why |-> q.why,
                 refused |-> q.refused, attempt |-> q.attempt]
        BY <2>1, RequestTyped DEF Turned
      <3>3. n = [pc |-> "renaming", hotel |-> q.hotel, user |-> q.user, copy |-> named, why |-> q.why,
                 refused |-> refused, attempt |-> q.attempt + 1]
        BY <3>2
      <3>4. q.attempt + 1 \in 1..Attempts
        BY <2>1, <2>8, RequestTyped, AccessBoundsAssumption
      <3>5. n \in UserRequest
        BY <2>1, <3>1, <3>3, <3>4, RequestTyped DEF UserRequest, Reasons
      <3>6. Step(r, n)
        BY <2>8
      <3>7. n.pc = "renaming" /\ n.user = q.user /\ n.why = q.why
        BY <3>3
      <3> QED BY <2>2, <2>4, <2>8, <3>5, <3>6, <3>7
    <2> PICK name : name = Min(FreeNames({AccountFor(copy).username}))
      OBVIOUS
    <2> PICK refused : refused = q.refused \cup {AccountFor(copy).username}
      OBVIOUS
    <2>9. FreeNames({AccountFor(copy).username}) # {} => name \in Names
      BY FreeNameIsName
    <2>10. refused \in SUBSET Names
      BY <2>1, RequestTyped DEF AccountFor, User
    <2> QED BY <1>3, <2>3, <2>6, <2>7, <2>8, <2>9, <2>10 DEF Offer
  <1>4. ASSUME Rename(r) PROVE Agreement'
    <2>1. q \in UserRequest /\ q.pc = "renaming" /\ UNCHANGED identities
      BY <1>4, KindOfRequest DEF Rename, Stages, tenant
    <2> PICK w \in Users : w = q.user
      BY <1>o, <2>1
    <2>2. /\ q.copy.identity = NoIdentity /\ q.why = "create" /\ users[w].identity = NoIdentity
          /\ q.copy # NoRow /\ users[w] # NoRow /\ ~Recording(q)
      BY <1>o, <2>1, NothingAssumption DEF Honest, Fits, Recording
    <2>3. PICK n \in UserRequest :
            /\ n \in Request /\ n.user = w /\ n.why = "create" /\ n.pc \in {"offering", "undoing"} /\ Step(r, n)
            /\ users' = users \/ users' = [users EXCEPT ![w] = q.copy]
      <3>1. ASSUME NEW pc \in {"offering", "undoing"}
            PROVE  /\ [q EXCEPT !.pc = pc] \in UserRequest /\ [q EXCEPT !.pc = pc] \in Request
                   /\ [q EXCEPT !.pc = pc].pc = pc /\ [q EXCEPT !.pc = pc].user = w
                   /\ [q EXCEPT !.pc = pc].why = "create"
        <4>1. pc \in Stages
          BY DEF Stages
        <4> QED BY <2>1, <2>2, <4>1, StageTyped, Zenon
      <3> QED BY <1>4, <3>1 DEF Rename
    <2>4. /\ \A u \in Users : u # w => users'[u] = users[u]
          /\ users'[w] # NoRow /\ users'[w].identity = users[w].identity
      BY <2>2, <2>3 DEF OrderInv, HonestInv, TypeOK
    <2>5. Agrees(n, users[n.user])'
      BY <2>3 DEF Agrees, Recording
    <2> QED BY <2>1, <2>2, <2>3, <2>4, <2>5, AgreeOwnRow
  <1>5. ASSUME Undo(r) PROVE Agreement'
    <2>1. q \in UserRequest /\ q.pc = "undoing" /\ UNCHANGED identities /\ users' = [users EXCEPT ![q.user] = NoRow]
          /\ Step(r, Idle)
      BY <1>5, KindOfRequest DEF Undo, Stages, Deleted, tenant
    <2> PICK w \in Users : w = q.user
      BY <1>o, <2>1
    <2>2. users'[w] = NoRow /\ \A u \in Users : u # w => users'[u] = users[u]
      BY <2>1 DEF OrderInv, HonestInv, TypeOK
    <2>3. users[w].identity \notin Accounts /\ ~Recording(q)
      BY <1>o, <2>1, NothingAssumption DEF Fits, Accounts, Recording
    <2> QED BY <1>i, <2>1, <2>2, <2>3, AgreeOwnRow
  <1> QED BY <1>1, <1>2, <1>3, <1>4, <1>5 DEF CreateStep

LEMMA AccessAgrees ==
  ASSUME Exclusive, OrderInv, Agreement, OrderInv', NEW r \in Requests, AccessStep(r)
  PROVE Agreement'
PROOF
  <1> PICK q \in Request : q = requests[r]
    BY DEF OrderInv, HonestInv, TypeOK, Request
  <1>i. Idle \in Request \ UserRequest
    BY IdleTyped
  <1>h. HonestInv /\ users \in [Users -> User \cup {NoRow}]
    BY DEF OrderInv, HonestInv, TypeOK
  <1>o. q \in UserRequest =>
          /\ q # Idle /\ Fits(q, users[q.user]) /\ Honest(q) /\ q.user \in Rows /\ q.copy \in User
          /\ q.user \in Users /\ Agrees(q, users[q.user])
    BY OwnRow, RequestTyped DEF Agreement
  <1>1. ASSUME NEW u \in Rows, StartResend(r, u) PROVE Agreement'
    BY <1>1, AgreeReading DEF StartResend, Reasons, tenant
  <1>2. ASSUME NEW u \in Rows, StartRelease(r, u) PROVE Agreement'
    BY <1>2, AgreeReading DEF StartRelease, Reasons, tenant
  <1>3. ASSUME NEW u \in Rows, StartSignIn(r, u) PROVE Agreement'
    BY <1>3, AgreeReading DEF StartSignIn, Reasons, tenant
  <1>4. ASSUME NEW u \in Rows, NEW why \in {"enable", "disable"}, StartSwitch(r, u, why) PROVE Agreement'
    BY <1>4, AgreeReading DEF StartSwitch, Reasons, tenant
  <1>5. ASSUME SaveUser(r) PROVE Agreement'
    <2>1. q \in UserRequest /\ UNCHANGED identities /\ Step(r, Idle) /\ q.pc = "saving"
      BY <1>5, KindOfRequest DEF SaveUser, Stages, tenant
    <2> PICK w \in Users : w = q.user
      BY <1>o, <2>1
    <2> PICK row : row = users[w]
      OBVIOUS
    <2> PICK copy \in User : copy = q.copy
      BY <1>o, <2>1
    <2>2. CanSave(w, copy)
      BY <2>1, SavesSucceed
    <2>3. users' = [users EXCEPT ![w] = copy]
      BY <1>5, <2>2 DEF SaveUser
    <2>4. users'[w] = copy /\ copy # NoRow /\ \A u \in Users : u # w => users'[u] = users[u]
      BY <1>h, <2>3, NothingAssumption
    <2>5. Fits(q, row) /\ Agrees(q, row)
      BY <1>o, <2>1
    <2>6. Sound(copy)
      <3>1. CASE q.why = "create"
        BY <2>1, <2>5, <3>1 DEF Fits, Agrees, Recording, Sound
      <3>2. CASE q.why = "resend"
        BY <2>1, <2>5, <3>2 DEF Fits, Agrees, Recording, Sound
      <3>3. CASE q.why \in {"enable", "disable"}
        <4>1. copy.status = "disabled" <=> q.why = "disable"
          BY <2>1, <2>5, <3>3 DEF Fits, SwitchedStatus
        <4>2. copy.identity \in Accounts /\ (identities[copy.identity].blocked <=> q.why = "disable")
          BY <2>1, <2>5, <3>3 DEF Agrees
        <4> QED BY <4>1, <4>2 DEF Sound
      <3> QED BY <2>1, <2>5, <3>1, <3>2, <3>3 DEF Fits
    <2>7. Sound(copy)'
      BY <2>1, <2>6 DEF Sound, Accounts
    <2>8. Sound(users[w])'
      BY <2>4, <2>7 DEF Sound
    <2>9. users'[w].identity = row.identity \/ row.identity \notin Accounts
      BY <2>4, <2>5, NothingAssumption DEF Fits, Recording, Accounts
    <2> QED BY <1>i, <2>1, <2>4, <2>8, <2>9, AgreeOwnRow
  <1>6. ASSUME SwitchIdentity(r) PROVE Agreement'
    <2>1. q \in UserRequest /\ q.pc = "switching" /\ users' = users
      BY <1>6, KindOfRequest DEF SwitchIdentity, Stages
    <2> PICK copy \in User : copy = q.copy
      BY <1>o, <2>1
    <2> PICK w \in Users : w = q.user
      BY <1>o, <2>1
    <2> PICK i : i = copy.identity
      OBVIOUS
    <2>2. Fits(q, users[w]) /\ ~Recording(q) /\ Sound(users[w]) /\ q.why \in {"enable", "disable"}
      BY <1>o, <2>1 DEF Agrees, Recording, Fits
    <2>3. i \in Accounts /\ i # NoIdentity
      BY <2>2, NothingAssumption DEF Fits, Sound, Accounts
    <2> PICK status \in UserStatuses : status = SwitchedStatus(q.why, copy)
      BY DEF SwitchedStatus, UserStatuses
    <2>p. PICK save : save = [q EXCEPT !.pc = "saving", !.copy.status = status]
      OBVIOUS
    <2> PICK switched \in User : switched = [copy EXCEPT !.status = status]
      BY UserFields, NamesAssumption DEF User
    <2>4. switched.identity = i
      BY DEF User
    <2>5. save = Turned(q, "saving", switched)
      <3>1. q = [pc |-> q.pc, hotel |-> q.hotel, user |-> q.user, copy |-> copy, why |-> q.why,
                   refused |-> q.refused, attempt |-> q.attempt]
        BY <2>1, RequestTyped DEF Turned
      <3> QED BY <2>p, <3>1 DEF Turned
    <2>6. /\ save \in UserRequest /\ save.pc = "saving" /\ save.copy = switched
          /\ save.user = w /\ save.why = q.why
      <3> PICK pc \in Stages : pc = "saving"
        BY DEF Stages
      <3>1. Turned(q, pc, switched) = save
        BY <2>5
      <3> QED BY <2>1, <3>1, TurnedTyped
    <2> PICK blocked \in BOOLEAN : blocked = Blocking(q.why)
      BY DEF Blocking
    <2>7. identities' = [identities EXCEPT ![i].blocked = blocked] /\ Step(r, save)
      BY <1>6, <2>3, <2>p DEF SwitchIdentity
    <2>8. /\ identities'[i] \in Account /\ identities'[i].blocked = blocked
          /\ \A j \in Identities : j # i => identities'[j] = identities[j]
      BY <1>h, <2>3, <2>7, BlockingKeeps
    <2>9. i \in Accounts'
      BY <2>3, <2>8, NothingAssumption DEF Accounts
    <2>10. blocked <=> q.why = "disable"
      BY DEF Blocking
    <2>11. Agrees(save, users[save.user])'
      <3>1. save.why \in {"enable", "disable"} /\ ~Recording(save)
        BY <2>2, <2>6 DEF Recording
      <3>2. identities'[save.copy.identity].blocked <=> save.why = "disable"
        BY <2>4, <2>6, <2>8, <2>10
      <3>3. save.copy.identity \in Accounts'
        BY <2>4, <2>6, <2>9
      <3> QED BY <2>6, <3>1, <3>2, <3>3 DEF Agrees, Recording
    <2>12. OwnAccount(r, i)
      BY <2>1, <2>2, <2>3, ReadAccountIsOwn
    <2>13. save.user = requests[r].user /\ requests[r] \in UserRequest /\ ~Recording(requests[r])
      BY <2>1, <2>2, <2>6
    <2> QED BY <2>1, <2>3, <2>6, <2>7, <2>8, <2>11, <2>12, <2>13, AgreeOwnAccount
  <1>7. ASSUME DeleteIdentity(r) PROVE Agreement'
    <2>1. q \in UserRequest /\ q.pc = "releasing" /\ users' = users
      BY <1>7, KindOfRequest DEF DeleteIdentity, Stages
    <2> PICK copy \in User : copy = q.copy
      BY <1>o, <2>1
    <2> PICK w \in Users : w = q.user
      BY <1>o, <2>1
    <2> PICK i : i = copy.identity
      OBVIOUS
    <2>2. Fits(q, users[w]) /\ ~Recording(q) /\ Sound(users[w]) /\ q.why \in Releasers
      BY <1>o, <2>1 DEF Agrees, Recording, Honest
    <2>3. i \in Accounts /\ i # NoIdentity
      BY <2>2, NothingAssumption DEF Fits, Sound, Accounts
    <2>p. PICK n : n = [q EXCEPT !.pc = "dropping"]
      OBVIOUS
    <2>4. n \in UserRequest /\ n.pc = "dropping" /\ n.why = q.why /\ n.user = w /\ n.copy = copy
      <3> PICK pc \in Stages : pc = "dropping"
        BY DEF Stages
      <3>1. [q EXCEPT !.pc = pc] = n
        BY <2>p
      <3> QED BY <2>1, <3>1, StageTyped
    <2>5. /\ identities' = [j \in Identities |-> IF j \in AccountsOf(copy) THEN Gone ELSE identities[j]]
          /\ Step(r, n)
      BY <1>7, <2>p DEF DeleteIdentity
    <2>6. /\ \A j \in Identities : j # i => identities'[j] = identities[j]
          /\ i \in Accounts
      BY <1>h, <2>3, <2>5, DeletingKeeps
    <2>7. Agrees(n, users[n.user])'
      BY <2>2, <2>3, <2>4 DEF Agrees, Recording, Releasers
    <2>8. OwnAccount(r, i)
      BY <2>1, <2>2, <2>3, ReadAccountIsOwn
    <2>9. n.user = requests[r].user /\ requests[r] \in UserRequest /\ ~Recording(requests[r])
      BY <2>1, <2>2, <2>4
    <2> QED BY <2>1, <2>4, <2>5, <2>6, <2>7, <2>8, <2>9, AgreeOwnAccount
  <1>8. ASSUME DropUser(r) PROVE Agreement'
    <2>1. q \in UserRequest /\ q.pc = "dropping" /\ UNCHANGED identities /\ users' = [users EXCEPT ![q.user] = NoRow]
      BY <1>8, KindOfRequest DEF DropUser, Stages, tenant
    <2> PICK w \in Users : w = q.user
      BY <1>o, <2>1
    <2>2. users'[w] = NoRow /\ \A u \in Users : u # w => users'[u] = users[u]
      BY <1>h, <2>1
    <2>3. users[w].identity \notin Accounts /\ ~Recording(q)
      BY <1>o, <2>1, NothingAssumption DEF Fits, Accounts, Recording
    <2>4. PICK n \in Request \ UserRequest : Step(r, n)
      <3>1. CASE q.why \in {"archive", "remove"}
        BY <1>8, <1>i, <2>1, <3>1, HotelRequestTyped, RequestTyped DEF DropUser
      <3>2. CASE q.why = "release"
        BY <1>8, <1>i, <3>2 DEF DropUser
      <3>3. q.why \in Releasers
        BY <1>o, <2>1 DEF Honest
      <3> QED BY <3>1, <3>2, <3>3 DEF Releasers
    <2> QED BY <2>1, <2>2, <2>3, <2>4, AgreeOwnRow
  <1>9. ASSUME CompleteSignIn(r) PROVE Agreement'
    <2>1. q \in UserRequest /\ q.pc = "signingIn" /\ UNCHANGED identities /\ Step(r, Idle)
      BY <1>9, KindOfRequest DEF CompleteSignIn, Stages, tenant
    <2> PICK w \in Rows : w = q.user
      BY <1>o, <2>1
    <2> PICK row : row = users[w]
      OBVIOUS
    <2> PICK new : new = users'[w]
      OBVIOUS
    <2>2. users' = [users EXCEPT ![w].status = "active", ![w].signedIn = TRUE]
      BY <1>9 DEF CompleteSignIn
    <2>s. /\ users'[w] \in User /\ users'[w].identity = users[w].identity /\ users'[w].status = "active"
          /\ \A u \in Users \ {w} : users'[u] = users[u]
      BY <1>h, <2>2, SignInWrites, Zenon
    <2>3. /\ new \in User /\ new.identity = row.identity /\ new.status = "active"
          /\ \A u \in Users : u # w => users'[u] = users[u]
      BY <2>s
    <2>4. Sound(row) /\ row.status # "disabled" /\ ~Recording(q)
      BY <1>o, <2>1 DEF Agrees, Fits, Recording
    <2>5. Sound(new)
      BY <2>3, <2>4 DEF Sound
    <2>6. Sound(new)'
      BY <2>1, <2>5 DEF Sound, Accounts
    <2>7. Sound(users[w])'
      BY <2>6 DEF Sound
    <2>8. users'[w] # NoRow /\ users'[w].identity = users[w].identity
      BY <2>3, NothingAssumption
    <2> QED BY <1>i, <2>1, <2>3, <2>4, <2>7, <2>8, AgreeOwnRow
  <1> QED BY <1>1, <1>2, <1>3, <1>4, <1>5, <1>6, <1>7, <1>8, <1>9 DEF AccessStep

LEMMA AgreeNext == Exclusive /\ AgreeInv /\ [Next]_vars => AgreeInv'
PROOF
  <1> SUFFICES ASSUME Exclusive, AgreeInv, [Next]_vars PROVE AgreeInv'
    OBVIOUS
  <1>1. OrderInv /\ OrderInv'
    BY OrderNext DEF AgreeInv
  <1>2. faults \in Nat /\ faults' \in Nat
    BY <1>1, AccessBoundsAssumption DEF OrderInv, HonestInv, TypeOK
  <1>3. faults' = faults \/ faults' = faults + 1
    <2>1. ASSUME NEW r \in Requests, NEW n, Step(r, n) \/ Fault(r, n) PROVE faults' = faults \/ faults' = faults + 1
      BY <2>1 DEF Step, Fault
    <2>2. ASSUME NEW r \in Requests, PartnerStep(r) PROVE \E n : Step(r, n)
      BY <2>2 DEF PartnerStep, StartPatch, SavePatch, StartClosing, CloseHotel
    <2>3. ASSUME NEW r \in Requests, CreateStep(r) PROVE \E n : Step(r, n) \/ Fault(r, n)
      BY <2>3 DEF CreateStep, StartCreate, Reserve, Offer, Rename, Undo
    <2>4. ASSUME NEW r \in Requests, AccessStep(r) PROVE \E n : Step(r, n)
      BY <2>4 DEF AccessStep, StartResend, StartSwitch, StartRelease, StartSignIn, SaveUser, SwitchIdentity,
           DeleteIdentity, DropUser, CompleteSignIn
    <2>5. ASSUME NEW r \in Requests, Crash(r) PROVE \E n : Fault(r, n)
      BY <2>5 DEF Crash
    <2>6. UNCHANGED vars \/ HotelStep => faults' = faults
      BY DEF vars, HotelStep, CreateHotel, SetTours, Book, flight
    <2> QED BY <2>1, <2>2, <2>3, <2>4, <2>5, <2>6 DEF Next
  <1> SUFFICES ASSUME faults' = 0 PROVE Agreement'
    BY <1>1 DEF AgreeInv
  <1>4. Agreement /\ faults = 0
    BY <1>2, <1>3 DEF AgreeInv
  <1>5. CASE UNCHANGED <<users, identities, requests>>
    BY <1>4, <1>5 DEF Agreement, Sound, WorkedOn, Agrees, KeptTrackOf, Accounts, Rows
  <1>6. CASE UNCHANGED vars \/ HotelStep
    BY <1>5, <1>6 DEF vars, HotelStep, CreateHotel, SetTours, Book, tenant, flight
  <1>7. ASSUME NEW r \in Requests, Crash(r) PROVE FALSE
    BY <1>4, <1>7 DEF Crash, Fault
  <1>8. ASSUME NEW r \in Requests, PartnerStep(r) \/ CreateStep(r) \/ AccessStep(r) PROVE Agreement'
    BY <1>1, <1>4, <1>8, PartnersAgree, CreatesAgree, AccessAgrees
  <1> QED BY <1>6, <1>7, <1>8 DEF Next

LEMMA AgreeInit == Init => AgreeInv
PROOF
  <1> SUFFICES ASSUME Init PROVE AgreeInv
    OBVIOUS
  <1>1. Rows = {} /\ Accounts = {} /\ \A r \in Requests : requests[r] = Idle
    BY DEF Init, Rows, Accounts
  <1> QED BY <1>1, OrderInit, IdleTyped DEF AgreeInv, Agreement

\* Where requests about one hotel do not overlap, and until something fails, the rows and the identity
\* provider agree: no account is forgotten, no reservation is left behind, and at rest a user is blocked
\* exactly when disabled.
THEOREM SystemsStayInAgreement == Exclusive => (Spec => []SystemsAgree)
PROOF
  <1>1. ASSUME Exclusive PROVE Spec => []AgreeInv
    <2>1. AgreeInv /\ [Next]_vars => AgreeInv'
      BY <1>1, AgreeNext
    <2> QED BY <2>1, AgreeInit, PTL DEF Spec
  <1>2. AgreeInv => SystemsAgree
    <2> SUFFICES ASSUME AgreeInv, faults = 0
        PROVE  /\ \A i \in Accounts :
                    (\E u \in Rows : users[u].identity = i) \/ (\E r \in Requests : Holds(r, i))
               /\ \A u \in Rows :
                    /\ users[u].identity = NoIdentity =>
                         \E r \in Requests :
                           requests[r] \in UserRequest /\ requests[r].user = u /\ requests[r].why = "create"
                    /\ AtRest(users[u].hotel) =>
                         /\ users[u].identity \in Accounts
                         /\ identities[users[u].identity].blocked <=> users[u].status = "disabled"
      BY DEF SystemsAgree
    <2>1. OrderInv /\ Agreement
      BY DEF AgreeInv
    <2>2. ASSUME NEW i \in Accounts
          PROVE  (\E u \in Rows : users[u].identity = i) \/ (\E r \in Requests : Holds(r, i))
      BY <2>1 DEF Agreement, KeptTrackOf, Holds
    <2>3. ASSUME NEW u \in Rows, users[u].identity = NoIdentity
          PROVE  \E r \in Requests :
                   requests[r] \in UserRequest /\ requests[r].user = u /\ requests[r].why = "create"
      <3>1. ~Sound(users[u])
        BY <2>3, NothingAssumption DEF Sound, Accounts
      <3>2. PICK r \in Requests : requests[r] \in UserRequest /\ requests[r].user = u
        BY <2>1, <3>1 DEF Agreement, WorkedOn
      <3> PICK q : q = requests[r]
        OBVIOUS
      <3>3. Fits(q, users[u]) /\ Agrees(q, users[u]) /\ q.pc \in Stages /\ q.why # "resend"
            /\ q.pc \notin {"switching", "signingIn", "releasing"}
        BY <2>1, <3>1, <3>2, RequestTyped DEF OrderInv, Agreement, Agrees
      <3>4. q.pc \in {"offering", "renaming", "undoing"} => q.why = "create"
        BY <3>3 DEF Fits
      <3>5. q.pc = "saving" => q.why = "create"
        BY <2>3, <3>3, NothingAssumption DEF Fits, Agrees, Accounts, Recording
      <3>6. q.pc # "dropping"
        BY <2>3, <3>3, NothingAssumption DEF Fits, Agrees, Recording
      <3> QED BY <3>2, <3>3, <3>4, <3>5, <3>6 DEF Stages
    <2>4. ASSUME NEW u \in Rows, AtRest(users[u].hotel) PROVE Sound(users[u])
      BY <2>1, <2>4, AloneIsSound DEF AtRest
    <2> QED BY <2>2, <2>3, <2>4 DEF Sound
  <1>3. ASSUME Exclusive PROVE Spec => []SystemsAgree
    BY <1>1, <1>2, <1>3, PTL
  <1> QED BY <1>3

=============================================================================
