------------------------------- MODULE Proposals -------------------------------
(***************************************************************************)
(* Private-tour proposals, their versions and their publication:           *)
(* src/src/proposals/proposals.service.ts.                                 *)
(*                                                                         *)
(* No handler opens a transaction.  A request reads the proposal with its  *)
(* versions, checks, and then writes in one or more further statements;    *)
(* update writes only the columns it was given, a version is saved whole.  *)
(* Texts, prices, the date of expiry and updated_by are left out.          *)
(***************************************************************************)
EXTENDS Integers, FiniteSets, FiniteSetsExt

CONSTANTS
  Proposals,   \* ids of proposals rows
  Versions,    \* ids of proposal_versions rows
  MaxOrder,    \* order indexes are 0..MaxOrder
  Requests,    \* slots for requests in flight
  NoRow,       \* no such row
  Calm         \* proposals about which requests do not overlap

VARIABLES
  proposals,   \* proposals rows: publication and whether there is an address
  versions,    \* proposal_versions rows
  requests     \* requests in flight

vars == <<proposals, versions, requests>>

-----------------------------------------------------------------------------
(* Types *)

Proposal == [status : {"published", "unpublished"}, recipient : BOOLEAN]

Version == [proposal : Proposals, order : 0..MaxOrder]

ProposalsAssumption == MaxOrder \in Nat /\ Calm \subseteq Proposals /\ NoRow \notin Proposal

Idle == [pc |-> "idle"]

Request ==
       [pc : {"updating"}, proposal : Proposals, change : [status : {"published", "unpublished", "kept"}, recipient : BOOLEAN]]
  \cup [pc : {"sending"}, proposal : Proposals]
  \cup [pc : {"adding"}, proposal : Proposals, order : 0..MaxOrder]
  \cup [pc : {"saving"}, proposal : Proposals, version : Versions, copy : Version]
  \cup [pc : {"removing", "counting", "unpublishing"}, proposal : Proposals, version : Versions,
        published : BOOLEAN]

\* Rows and requests have the columns and values of their kind, and a version
\* belongs to a proposal that exists.
TypeOK ==
  /\ proposals \in [Proposals -> Proposal \cup {NoRow}]
  /\ versions \in [Versions -> Version \cup {NoRow}]
  /\ requests \in [Requests -> {Idle} \cup Request]
  /\ \A v \in Versions : versions[v] # NoRow => proposals[versions[v].proposal] # NoRow

Init ==
  /\ proposals = [p \in Proposals |-> NoRow]
  /\ versions = [v \in Versions |-> NoRow]
  /\ requests = [r \in Requests |-> Idle]

-----------------------------------------------------------------------------
(* Rows *)

VersionsOf(p) == { v \in Versions : versions[v] # NoRow /\ versions[v].proposal = p }

Orders(p) == { versions[v].order : v \in VersionsOf(p) }

\* The constraints of proposal_versions: its proposal exists, and no other
\* version of the proposal has the order index.
IsFree(v, row) ==
  \A w \in VersionsOf(row.proposal) \ {v} : versions[w].order # row.order
CanSave(v, row) == proposals[row.proposal] # NoRow /\ IsFree(v, row)

\* getNextVersionOrderIndex.
NextOrder(orders) == IF orders = {} THEN 0 ELSE Max(orders) + 1

Step(r, request) == requests' = [requests EXCEPT ![r] = request]

Touches(request, p) == request # Idle /\ request.proposal = p

Alone(p) == p \in Calm => \A q \in Requests : ~Touches(requests[q], p)

\* The request reads proposal p, which exists.
Reads(r, p) == requests[r] = Idle /\ proposals[p] # NoRow /\ Alone(p)

-----------------------------------------------------------------------------
(* Proposals *)

\* create.
Create(p) ==
  /\ proposals[p] = NoRow
  /\ \A q \in Requests : ~Touches(requests[q], p)
  /\ \E recipient \in BOOLEAN :
       proposals' = [proposals EXCEPT ![p] = [status |-> "unpublished", recipient |-> recipient]]
  /\ UNCHANGED <<versions, requests>>

\* remove: the versions go with the proposal.
Remove(p) ==
  /\ proposals[p] # NoRow
  /\ Alone(p)
  /\ proposals' = [proposals EXCEPT ![p] = NoRow]
  /\ versions' = [v \in Versions |-> IF v \in VersionsOf(p) THEN NoRow ELSE versions[v]]
  /\ UNCHANGED requests

\* update refuses to publish a proposal it finds without a version.
MayChange(p, status) ==
  status = "published" /\ proposals[p].status # "published" => VersionsOf(p) # {}

\* update, the read and the guard.
StartUpdate(r, p) ==
  /\ Reads(r, p)
  /\ \E status \in {"published", "unpublished", "kept"}, recipient \in BOOLEAN :
       /\ MayChange(p, status)
       /\ Step(r, [pc |-> "updating", proposal |-> p,
                   change |-> [status |-> status, recipient |-> recipient]])
  /\ UNCHANGED <<proposals, versions>>

Changed(row, change) ==
  [status |-> IF change.status = "kept" THEN row.status ELSE change.status,
   recipient |-> change.recipient]

\* update, the write of the columns given; a proposal gone meanwhile is not missed.
CommitUpdate(r) ==
  /\ requests[r].pc = "updating"
  /\ LET q == requests[r] IN
     proposals' = IF proposals[q.proposal] = NoRow THEN proposals
                  ELSE [proposals EXCEPT ![q.proposal] = Changed(@, q.change)]
  /\ Step(r, Idle)
  /\ UNCHANGED versions

\* sendToRecipient asks for a publication, an address and a version.
SendDraft(p) == proposals[p].recipient /\ VersionsOf(p) # {}   \* mistake
IsSendable(p) ==
  /\ proposals[p].status = "published"
  /\ proposals[p].recipient
  /\ VersionsOf(p) # {}

\* sendToRecipient, the read and the checks.
StartSend(r, p) ==
  /\ Reads(r, p)
  /\ IsSendable(p)
  /\ Step(r, [pc |-> "sending", proposal |-> p])
  /\ UNCHANGED <<proposals, versions>>

\* sendToRecipient, the mail.
Send(r) ==
  /\ requests[r].pc = "sending"
  /\ Step(r, Idle)
  /\ UNCHANGED <<proposals, versions>>

-----------------------------------------------------------------------------
(* Versions *)

\* createVersion, the read: the order index given, or the next one.
StartAddVersion(r, p) ==
  /\ Reads(r, p)
  /\ \/ \E order \in 0..MaxOrder :
          Step(r, [pc |-> "adding", proposal |-> p, order |-> order])
     \/ /\ NextOrder(Orders(p)) <= MaxOrder
        /\ Step(r, [pc |-> "adding", proposal |-> p, order |-> NextOrder(Orders(p))])
  /\ UNCHANGED <<proposals, versions>>

\* createVersion, the insert; the constraints may refuse it.
AddVersion(r) ==
  /\ requests[r].pc = "adding"
  /\ \E v \in Versions :
     /\ versions[v] = NoRow
     /\ \A q \in Requests : requests[q].pc \in {"saving", "removing", "counting", "unpublishing"} =>
                              requests[q].version # v
     /\ LET row == [proposal |-> requests[r].proposal, order |-> requests[r].order] IN
        versions' = IF CanSave(v, row) THEN [versions EXCEPT ![v] = row] ELSE versions
  /\ Step(r, Idle)
  /\ UNCHANGED proposals

\* updateVersion, the read.
StartUpdateVersion(r, v) ==
  /\ versions[v] # NoRow
  /\ Reads(r, versions[v].proposal)
  /\ \E order \in 0..MaxOrder :
       Step(r, [pc |-> "saving", proposal |-> versions[v].proposal, version |-> v,
                copy |-> [versions[v] EXCEPT !.order = order]])
  /\ UNCHANGED <<proposals, versions>>

\* updateVersion, the save, which inserts the version again if it has gone.
SaveVersion(r) ==
  /\ requests[r].pc = "saving"
  /\ LET q == requests[r] IN
     versions' = IF CanSave(q.version, q.copy) THEN [versions EXCEPT ![q.version] = q.copy]
                 ELSE versions
  /\ Step(r, Idle)
  /\ UNCHANGED proposals

\* removeVersion, the read, which remembers whether the proposal was published.
StartRemoveVersion(r, v) ==
  /\ versions[v] # NoRow
  /\ Reads(r, versions[v].proposal)
  /\ LET p == versions[v].proposal IN
     Step(r, [pc |-> "removing", proposal |-> p, version |-> v,
              published |-> proposals[p].status = "published"])
  /\ UNCHANGED <<proposals, versions>>

\* removeVersion, the delete.
DeleteVersion(r) ==
  /\ requests[r].pc = "removing"
  /\ versions' = [versions EXCEPT ![requests[r].version] = NoRow]
  /\ Step(r, [requests[r] EXCEPT !.pc = "counting"])
  /\ UNCHANGED proposals

\* The proposal is unpublished when the count finds no version and the read found
\* it published.
NeverUnpublishes(count, published) == FALSE                      \* mistake
Unpublishes(count, published) == count = 0 /\ published

\* removeVersion, the count of what is left.
CountVersions(r) ==
  /\ requests[r].pc = "counting"
  /\ LET q == requests[r] IN
     Step(r, IF Unpublishes(Cardinality(VersionsOf(q.proposal)), q.published)
             THEN [q EXCEPT !.pc = "unpublishing"] ELSE Idle)
  /\ UNCHANGED <<proposals, versions>>

\* removeVersion, the update of the proposal.
Unpublish(r) ==
  /\ requests[r].pc = "unpublishing"
  /\ LET p == requests[r].proposal IN
     proposals' = IF proposals[p] = NoRow THEN proposals
                  ELSE [proposals EXCEPT ![p].status = "unpublished"]
  /\ Step(r, Idle)
  /\ UNCHANGED versions

Continue(r) ==
  \/ CommitUpdate(r) \/ Send(r)
  \/ AddVersion(r) \/ SaveVersion(r)
  \/ DeleteVersion(r) \/ CountVersions(r) \/ Unpublish(r)

Next ==
  \/ \E p \in Proposals : Create(p) \/ Remove(p)
  \/ \E r \in Requests :
       \/ \E p \in Proposals : StartUpdate(r, p) \/ StartSend(r, p) \/ StartAddVersion(r, p)
       \/ \E v \in Versions : StartUpdateVersion(r, v) \/ StartRemoveVersion(r, v)
       \/ Continue(r)

Spec == Init /\ [][Next]_vars

\* A request in flight goes on: the event loop resumes it when the database or
\* the mail provider answers.
FairSpec == Spec /\ \A r \in Requests : WF_vars(Continue(r))

-----------------------------------------------------------------------------
(* What holds of a proposal about which requests do not overlap *)

IsPublished(p) == proposals[p] # NoRow /\ proposals[p].status = "published"

IsEmptyOffer(p) == IsPublished(p) /\ VersionsOf(p) = {}

\* A mail leaves only for a proposal that is, when it leaves, still published and not empty.
\* sendToRecipient does not ask whether it has expired, and neither does this.
OnlyOffersAreSent ==
  [][\A r \in Requests : requests[r].pc = "sending" /\ requests[r].proposal \in Calm =>
       LET p == requests[r].proposal IN IsPublished(p) /\ VersionsOf(p) # {}]_vars

\* An empty offer does not stay published: removeVersion unpublishes it, unless a
\* version comes or the proposal goes.
EmptyOfferWithdrawn == \A p \in Calm : IsEmptyOffer(p) ~> ~IsEmptyOffer(p)
=============================================================================
