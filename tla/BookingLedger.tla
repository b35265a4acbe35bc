---------------------------- MODULE BookingLedger ----------------------------
(***************************************************************************)
(* What a hotel booking promises, with no request in sight: each booking   *)
(* opens once, moves along the life cycle one step at a time, has its      *)
(* charges changed one at a time and only before it is closed, and always  *)
(* owes what its charges amount to.  HotelBookings implements it as long   *)
(* as requests on one booking do not overlap.                              *)
(***************************************************************************)
CONSTANTS
  Bookings,      \* booking ids
  Absent,        \* the stage of a booking nobody made
  Charges,       \* what may be charged
  Owed(_)        \* what a set of charges amounts to

VARIABLES
  stage,     \* where each booking is in its life cycle
  charges,   \* the charges of each booking
  owes       \* what each booking owes

bookVars == <<stage, charges, owes>>

\* The life cycle, whoever takes the step.
LifeCycle ==
  [ pending   |-> {"confirmed", "cancelled"},
    confirmed |-> {"completed", "cancelled"},
    completed |-> {"invoiced", "cancelled"},
    cancelled |-> {},
    invoiced  |-> {} ]

OpenForCharges == {"pending", "confirmed", "completed"}

LedgerInit ==
  /\ stage = [b \in Bookings |-> Absent]
  /\ charges = [b \in Bookings |-> {}]
  /\ owes = [b \in Bookings |-> Owed({})]

Charge(b, set) ==
  /\ charges' = [charges EXCEPT ![b] = set]
  /\ owes' = [owes EXCEPT ![b] = Owed(set)]

\* A booking opens with at most its tour line.
OpenBooking(b) ==
  /\ stage[b] = Absent
  /\ stage' = [stage EXCEPT ![b] = "pending"]
  /\ \/ Charge(b, {})
     \/ \E c \in Charges : Charge(b, {c})

Move(b, to) ==
  /\ stage[b] # Absent
  /\ to \in LifeCycle[stage[b]]
  /\ stage' = [stage EXCEPT ![b] = to]
  /\ UNCHANGED <<charges, owes>>

AddCharge(b, c) == c \notin charges[b] /\ Charge(b, charges[b] \cup {c})

DropCharge(b, c) == c \in charges[b] /\ Charge(b, charges[b] \ {c})

ChangeCharges(b) ==
  /\ stage[b] \in OpenForCharges
  /\ \E c \in Charges : AddCharge(b, c) \/ DropCharge(b, c)
  /\ UNCHANGED stage

LedgerNext ==
  \E b \in Bookings :
    \/ OpenBooking(b)
    \/ \E to \in DOMAIN LifeCycle : Move(b, to)
    \/ ChangeCharges(b)

LedgerSpec == LedgerInit /\ [][LedgerNext]_bookVars
=============================================================================
