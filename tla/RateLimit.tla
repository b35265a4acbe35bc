------------------------------ MODULE RateLimit ------------------------------
(***************************************************************************)
(* The sliding-window limiter in front of the public newsletter routes:    *)
(* NewsletterPublicRateLimitStore and its guard in                         *)
(* src/src/newsletter-subscribers/newsletter-public-rate-limit.guard.ts.   *)
(*                                                                         *)
(* consume is synchronous, so one action.  Time is an integer that never   *)
(* runs backwards; several requests may share one instant.  Nothing looks  *)
(* at the order of the timestamps: the array of a key is a set, and the    *)
(* number of its request tells a timestamp from others of the same instant.*)
(***************************************************************************)
EXTENDS Integers, Sequences, FiniteSets

CONSTANTS
  Keys,       \* action:client pairs
  Limit,      \* requests allowed per window
  WindowMs,   \* length of the window
  MaxTime,    \* when the clock stops
  MaxAnswers  \* how many requests one key makes of one process, at most

LimitAssumption ==
  /\ Limit \in Nat \ {0} /\ WindowMs \in Nat \ {0}
  /\ MaxTime \in Nat /\ MaxAnswers \in Nat

VARIABLES
  now,               \* Date.now()
  timestampsByKey,   \* the store: the timestamps it remembers
  answers            \* the requests a key made of this process, with the answers (history)

vars == <<now, timestampsByKey, answers>>

-----------------------------------------------------------------------------

Init ==
  /\ now = 0
  /\ timestampsByKey = [k \in Keys |-> {}]
  /\ answers = [k \in Keys |-> <<>>]

\* A timestamp counts while it is younger than the window.
ActiveTooLong(stamps) == { t \in stamps : t.at >= now - WindowMs }   \* mistake
Active(stamps) == { t \in stamps : t.at > now - WindowMs }

Answer(k, allowed) == answers' = [answers EXCEPT ![k] = Append(@, [at |-> now, allowed |-> allowed])]

Stamp(k) == [at |-> now, nth |-> Len(answers[k]) + 1]

Remember(k, stamps) == timestampsByKey' = [timestampsByKey EXCEPT ![k] = stamps]

\* consume, with room left.
Allow(k) ==
  LET active == Active(timestampsByKey[k]) IN
  /\ Cardinality(active) < Limit
  /\ Remember(k, active \cup {Stamp(k)})
  /\ Answer(k, TRUE)
  /\ UNCHANGED now

\* consume, with the window full: the answer is 429, and the refusal is not counted.
Refuse(k) ==
  LET active == Active(timestampsByKey[k]) IN
  /\ Cardinality(active) >= Limit
  /\ Remember(k, active)
  /\ Answer(k, FALSE)
  /\ UNCHANGED now

Tick == now < MaxTime /\ now' = now + 1 /\ UNCHANGED <<timestampsByKey, answers>>

\* The store is a Map in the memory of the process: the next one starts from nothing.
Restart ==
  /\ timestampsByKey' = [k \in Keys |-> {}]
  /\ answers' = [k \in Keys |-> <<>>]
  /\ UNCHANGED now

Next ==
  \/ \E k \in Keys : Len(answers[k]) < MaxAnswers /\ (Allow(k) \/ Refuse(k))
  \/ Tick
  \/ Restart

Spec == Init /\ [][Next]_vars

-----------------------------------------------------------------------------

\* Answers given by an instant, and timestamps of the requests of a key so far.
Answers(instant) == [at : 0..instant, allowed : BOOLEAN]
Timestamps(k) == [at : 0..now, nth : DOMAIN answers[k]]

\* The store remembers instants past of requests made, and never more than Limit of them
\* for a key, whatever is refused.
TypeOK ==
  /\ now \in 0..MaxTime
  /\ answers \in [Keys -> Seq(Answers(now))]
  /\ \A k \in Keys :
       /\ timestampsByKey[k] \subseteq Timestamps(k)
       /\ Cardinality(timestampsByKey[k]) <= Limit

\* The requests of a key allowed before the i-th within the window that ends with it.
AllowedInWindow(k, i) ==
  { j \in 1..(i - 1) : answers[k][j].allowed /\ answers[k][j].at > answers[k][i].at - WindowMs }

\* No window of WindowMs, wherever it starts, sees one process let more than Limit
\* requests of a key through, and nobody is refused unless Limit of their requests were let
\* through within the window and since the process started: refusals and expired requests are
\* not held against a client.
WindowIsHonoured ==
  \A k \in Keys : \A i \in DOMAIN answers[k] :
    answers[k][i].allowed <=> Cardinality(AllowedInWindow(k, i)) < Limit
=============================================================================
