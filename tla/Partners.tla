------------------------------- MODULE Partners -------------------------------
(***************************************************************************)
(* The two halves of the partner programme side by side: the bookings of   *)
(* HotelBookings, and hotels with their access users, HotelAccess.         *)
(*                                                                         *)
(* What they have to do with each other - a grant, and whether a hotel has *)
(* a booking - HotelAccess has as columns of its own, so that the two      *)
(* share no variable and what one does is the same whatever the other does *)
(* meanwhile: a behaviour moves one of them, chosen at the start, while    *)
(* the other stays as it began, in one of the states it may begin in.  Of  *)
(* the bookings it moves either a few through their whole lives, or more   *)
(* of them as far as their creation.                                       *)
(***************************************************************************)
EXTENDS HotelBookings

CONSTANTS
  HotelIds, Users, Identities, Names, Emails, Cvrs, NoRow, NoIdentity, Unused, Gone,
  Attempts, MaxFaults,  \* of HotelAccess, HotelIds being its hotels
  Worked,               \* bound: bookings that get further than their creation
  Taken                 \* bound: names that others may hold at the provider

VARIABLES
  focus,
  hotels, granted, booked, users, identities, foreign, accessRequests, faults

accessVars == <<hotels, granted, booked, users, identities, foreign, accessRequests, faults>>

Access == INSTANCE HotelAccess WITH Hotels <- HotelIds, requests <- accessRequests

ASSUME PartnersAssumption ==
  /\ Access!NamesAssumption /\ Access!AccessBoundsAssumption /\ Access!NothingAssumption
  /\ Worked \subseteq Bookings

NothingIsPriced ==
  /\ \A t \in Tours : tours[t] = [price |-> NoPrice, basis |-> "per_person"]
  /\ \A h \in Hotels, t \in Tours : grants[h][t] = NoGrant

NothingIsPricedButGranted ==
  /\ \A t \in Tours : tours[t] = [price |-> NoPrice, basis |-> "per_person"]
  /\ \A h \in Hotels, t \in Tours : grants[h][t] = NoPrice

NothingIsTaken == foreign = [names |-> {}, emails |-> {}]

PartnersInit ==
  /\ Init /\ Access!Init
  /\ \/ focus = "bookings" /\ NothingIsTaken
     \/ focus = "creation" /\ NothingIsPricedButGranted /\ NothingIsTaken
     \/ focus = "access" /\ NothingIsPriced /\ foreign.names \subseteq Taken

\* Bound: no booking but the Worked ones is made, nor asked for once they are.
OnlyWorked ==
  /\ \A b \in Bookings \ Worked : bookings'[b] = NoBooking
  /\ \A r \in Requests : requests[r] = Idle /\ requests'[r].pc = "granted" =>
       \E b \in Worked : bookings[b] = NoBooking

PartnersNext ==
  \/ focus = "bookings" /\ Next /\ OnlyWorked /\ UNCHANGED <<focus, accessVars>>
  \/ /\ focus = "creation"
     /\ \E r \in Requests : CreateStep(r) \/ Abort(r)
     /\ UNCHANGED <<focus, accessVars>>
  \/ focus = "access" /\ Access!Next /\ UNCHANGED <<focus, vars>>

PartnersSpec == PartnersInit /\ [][PartnersNext]_<<focus, vars, accessVars>>

-----------------------------------------------------------------------------
(* The property of HotelAccess; those of HotelBookings keep their names *)

\* Whatever overlaps, a row says what is true of its account.
RowsTellTheTruth == Access!RowsTellTheTruth
=============================================================================
