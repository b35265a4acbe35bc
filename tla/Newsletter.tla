------------------------------ MODULE Newsletter ------------------------------
(***************************************************************************)
(* Newsletter subscriptions by double opt-in:                              *)
(* src/src/newsletter-subscribers/newsletter-subscribers.service.ts.       *)
(*                                                                         *)
(* Each request reads the subscriber, awaits, saves the whole row as it    *)
(* read it plus its own changes, and, for subscribe, awaits the mail.  The *)
(* n-th pair of tokens generated is the number n; a token hash of 0 is     *)
(* null.  A token is known to whoever received the mail that carries it.   *)
(***************************************************************************)
EXTENDS Integers, Sequences, SequencesExt

CONSTANTS
  Emails,      \* normalised addresses: the unique key of newsletter_subscribers
  MaxIssued,   \* how many pairs of tokens are generated, at most
  Requests,    \* slots for requests in flight
  NoRow,       \* no such row
  Calm         \* addresses about which requests neither overlap nor fail

NewsletterAssumption == MaxIssued \in Nat /\ Calm \subseteq Emails

VARIABLES
  rows,      \* newsletter_subscribers, by address
  issued,    \* pairs of tokens generated so far
  inbox,     \* the mails each address received
  requests   \* requests in flight

vars == <<rows, issued, inbox, requests>>

-----------------------------------------------------------------------------
(* Types *)

Statuses == {"pending_confirmation", "subscribed", "unsubscribed"}

\* consentedAt is set whenever a row is saved by subscribe; the other two stamps
\* are set or null.
Row == [status : Statuses, confirm : 0..MaxIssued, unsub : 1..MaxIssued,
        confirmedAt : BOOLEAN, unsubscribedAt : BOOLEAN]

Mail == [confirm : 1..MaxIssued, unsub : 1..MaxIssued]

Idle == [pc |-> "idle"]

Request == [pc : {"inserting", "updating", "mailing", "saving"}, email : Emails,
            copy : Row, token : 0..MaxIssued]

\* Rows, mails and requests have the columns and values of their kind.
TypeOK ==
  /\ rows \in [Emails -> Row \cup {NoRow}]
  /\ issued \in 0..MaxIssued
  /\ \A e \in Emails : inbox[e] \in Seq(Mail)
  /\ requests \in [Requests -> {Idle} \cup Request]

Init ==
  /\ rows = [e \in Emails |-> NoRow]
  /\ issued = 0
  /\ inbox = [e \in Emails |-> <<>>]
  /\ requests = [r \in Requests |-> Idle]

-----------------------------------------------------------------------------
(* The row a request means to save *)

\* subscribe, for an address never seen.
Fresh(t) == [status |-> "pending_confirmation", confirm |-> t, unsub |-> t,
             confirmedAt |-> FALSE, unsubscribedAt |-> FALSE]

\* subscribe, for an address that is pending or has left: the stamps are cleared
\* and both tokens replaced.
KeepDeparture(row, t) == [Fresh(t) EXCEPT !.unsubscribedAt = row.unsubscribedAt]   \* mistake
KeepOldLink(row, t)   == [Fresh(t) EXCEPT !.unsub = row.unsub]                     \* mistake
TrustReturning(row, t) ==                                                          \* mistake
  IF row.confirmedAt THEN [row EXCEPT !.status = "subscribed", !.unsubscribedAt = FALSE]
                     ELSE Fresh(t)
Restarted(row, t) ==
  [row EXCEPT !.status = "pending_confirmation", !.confirm = t, !.unsub = t,
              !.confirmedAt = FALSE, !.unsubscribedAt = FALSE]

Confirmed(row) == [row EXCEPT !.status = "subscribed", !.confirmedAt = TRUE,
                              !.unsubscribedAt = FALSE, !.confirm = 0]

Left(row) == [row EXCEPT !.status = "unsubscribed", !.unsubscribedAt = TRUE, !.confirm = 0]

\* What the confirmation mail carries.
MailOf(q) == [confirm |-> q.token, unsub |-> q.token]

-----------------------------------------------------------------------------
(* Requests *)

Step(r, request) == requests' = [requests EXCEPT ![r] = request]

Touches(request, e) == request # Idle /\ request.email = e

Alone(e) == e \in Calm => \A q \in Requests : ~Touches(requests[q], e)

MayStart(r, e) == requests[r] = Idle /\ Alone(e)

\* subscribe, the read: an address already subscribed is answered at once.
StartSubscribe(r, e) ==
  /\ MayStart(r, e)
  /\ issued < MaxIssued
  /\ issued' = issued + 1
  /\ \/ rows[e] = NoRow /\ Step(r, [pc |-> "inserting", email |-> e,
                                    copy |-> Fresh(issued'), token |-> issued'])
     \/ /\ rows[e] # NoRow /\ rows[e].status # "subscribed"
        /\ Step(r, [pc |-> "updating", email |-> e,
                    copy |-> Restarted(rows[e], issued'), token |-> issued'])
  /\ UNCHANGED <<rows, inbox>>

\* Every subscription saved is followed by a mail.
MailOnlyOnce(q) == IF q.pc = "inserting" THEN [q EXCEPT !.pc = "mailing"] ELSE Idle   \* mistake
AfterSave(q) == [q EXCEPT !.pc = "mailing"]

\* subscribe, the save: the unique address refuses the second of two inserts.
SaveSubscription(r) ==
  /\ requests[r].pc \in {"inserting", "updating"}
  /\ LET q == requests[r] IN
     IF q.pc = "inserting" /\ rows[q.email] # NoRow
     THEN Step(r, Idle) /\ UNCHANGED rows
     ELSE Step(r, AfterSave(q)) /\ rows' = [rows EXCEPT ![q.email] = q.copy]
  /\ UNCHANGED <<issued, inbox>>

\* sendConfirmationEmail.
SendMail(r) ==
  /\ requests[r].pc = "mailing"
  /\ LET q == requests[r] IN inbox' = [inbox EXCEPT ![q.email] = Append(@, MailOf(q))]
  /\ Step(r, Idle)
  /\ UNCHANGED <<rows, issued>>

Received(e) == Range(inbox[e])

\* confirm, the look-up by token and the check of the status.
StartConfirm(r, e) ==
  /\ MayStart(r, e)
  /\ rows[e] # NoRow /\ rows[e].status = "pending_confirmation"
  /\ \E m \in Received(e) : m.confirm = rows[e].confirm
  /\ Step(r, [pc |-> "saving", email |-> e, copy |-> Confirmed(rows[e]), token |-> rows[e].confirm])
  /\ UNCHANGED <<rows, issued, inbox>>

\* unsubscribe, the look-up by token and the check of the status.
StartUnsubscribe(r, e) ==
  /\ MayStart(r, e)
  /\ rows[e] # NoRow /\ rows[e].status # "unsubscribed"
  /\ \E m \in Received(e) : m.unsub = rows[e].unsub
  /\ Step(r, [pc |-> "saving", email |-> e, copy |-> Left(rows[e]), token |-> 0])
  /\ UNCHANGED <<rows, issued, inbox>>

\* The save that ends confirm and unsubscribe.
SaveRow(r) ==
  /\ requests[r].pc = "saving"
  /\ rows' = [rows EXCEPT ![requests[r].email] = requests[r].copy]
  /\ Step(r, Idle)
  /\ UNCHANGED <<issued, inbox>>

\* The process dies, or the mail provider throws, and the request ends.
Fail(r) ==
  /\ requests[r] # Idle
  /\ requests[r].email \notin Calm
  /\ Step(r, Idle)
  /\ UNCHANGED <<rows, issued, inbox>>

Continue(r) == SaveSubscription(r) \/ SendMail(r) \/ SaveRow(r)

Next == \E r \in Requests :
  \/ \E e \in Emails : StartSubscribe(r, e) \/ StartConfirm(r, e) \/ StartUnsubscribe(r, e)
  \/ Continue(r)
  \/ Fail(r)

Spec == Init /\ [][Next]_vars

\* A request in flight goes on: the event loop resumes it when the database or
\* the provider answers.  Nobody is made to send a request.
FairSpec == Spec /\ \A r \in Requests : WF_vars(Continue(r))

-----------------------------------------------------------------------------
(* What always holds, however requests overlap and whatever fails *)

\* The audit stamps and the token tell the same story as the status, although
\* every save may write a stale row.
StampsAgree ==
  \A e \in Emails : rows[e] # NoRow =>
    LET row == rows[e] IN
    /\ row.status = "pending_confirmation" <=> row.confirm # 0
    /\ row.status = "pending_confirmation" => ~row.confirmedAt
    /\ row.status = "subscribed" => row.confirmedAt
    /\ row.status = "unsubscribed" <=> row.unsubscribedAt

\* Whoever is subscribed received a mail whose unsubscribe link still works, and where requests
\* neither overlap nor fail it is the newest.
SubscribedCanLeave ==
  \A e \in Emails : rows[e] # NoRow /\ rows[e].status = "subscribed" =>
    /\ \E m \in Received(e) : m.unsub = rows[e].unsub
    /\ e \in Calm => Last(inbox[e]).unsub = rows[e].unsub

-----------------------------------------------------------------------------
(* What holds of an address whose requests neither overlap nor fail *)

\* Someone who has left is subscribed again only by way of a new confirmation.
LeavingSticks ==
  [][\A e \in Calm :
       rows[e] # NoRow /\ rows[e].status = "unsubscribed" => rows'[e].status # "subscribed"]_vars

Awaits(e, t) == rows[e] # NoRow /\ rows[e].confirm = t

\* Every pending confirmation is mailed in the end, or overtaken.
PendingIsMailed ==
  \A e \in Calm, t \in 1..MaxIssued :
    Awaits(e, t) ~> ((\E m \in Received(e) : m.confirm = t) \/ ~Awaits(e, t))
=============================================================================
