------------------------------- MODULE Website -------------------------------
(***************************************************************************)
(* The parts of the program the website's visitors meet, side by side: the *)
(* newsletter, the limiter in front of it and the proposals of private     *)
(* tours.                                                                  *)
(*                                                                         *)
(* The parts share no variable - the limiter only keeps requests from the  *)
(* newsletter, which it may not see any of -, so that what one does is the *)
(* same whatever the others do meanwhile: a behaviour moves one of them,   *)
(* chosen at the start, while the others stay as they began.               *)
(***************************************************************************)
EXTENDS Integers, Sequences

CONSTANTS
  Requests, NoRow,                               \* of the newsletter and the proposals
  Emails, MaxIssued, CalmEmails,                 \* of Newsletter
  Keys, Limit, WindowMs, MaxTime, MaxAnswers,    \* of RateLimit
  Offers, Versions, MaxOrder, CalmOffers         \* of Proposals

VARIABLES
  focus,
  rows, issued, inbox, mailRequests,
  now, timestampsByKey, answers,
  proposals, versions, offerRequests

mailVars == <<rows, issued, inbox, mailRequests>>
limitVars == <<now, timestampsByKey, answers>>
offerVars == <<proposals, versions, offerRequests>>
vars == <<focus, mailVars, limitVars, offerVars>>

Letters == INSTANCE Newsletter WITH requests <- mailRequests, Calm <- CalmEmails
Limiter == INSTANCE RateLimit
Offering == INSTANCE Proposals WITH
  Proposals <- Offers, requests <- offerRequests, Calm <- CalmOffers

ASSUME WebsiteAssumption ==
  Letters!NewsletterAssumption /\ Limiter!LimitAssumption /\ Offering!ProposalsAssumption

Init ==
  /\ focus \in {"letters", "limiter", "offering"}
  /\ Letters!Init /\ Limiter!Init /\ Offering!Init

Next ==
  \/ focus = "letters" /\ Letters!Next /\ UNCHANGED <<focus, limitVars, offerVars>>
  \/ focus = "limiter" /\ Limiter!Next /\ UNCHANGED <<focus, mailVars, offerVars>>
  \/ focus = "offering" /\ Offering!Next /\ UNCHANGED <<focus, mailVars, limitVars>>

Spec == Init /\ [][Next]_vars

\* The fairness of the parts: a request in flight goes on.
FairSpec ==
  /\ Spec
  /\ \A r \in Requests : WF_mailVars(Letters!Continue(r)) /\ WF_offerVars(Offering!Continue(r))

-----------------------------------------------------------------------------
(* The properties of the parts *)

\* The types of the rows, mails, memories and requests of the three.
TypeOK == Letters!TypeOK /\ Limiter!TypeOK /\ Offering!TypeOK

\* Newsletter
StampsAgree == Letters!StampsAgree
SubscribedCanLeave == Letters!SubscribedCanLeave
LeavingSticks == Letters!LeavingSticks
PendingIsMailed == Letters!PendingIsMailed

\* RateLimit
WindowIsHonoured == Limiter!WindowIsHonoured

\* Proposals
OnlyOffersAreSent == Offering!OnlyOffersAreSent
EmptyOfferWithdrawn == Offering!EmptyOfferWithdrawn
=============================================================================
