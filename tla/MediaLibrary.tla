------------------------------ MODULE MediaLibrary ------------------------------
(***************************************************************************)
(* The media library, the object store behind it and whatever refers to a  *)
(* medium: src/src/admin-media/admin-media.service.ts, and the media       *)
(* handlers of the tours, blog posts, proposals and team members.          *)
(*                                                                         *)
(* A medium is a row and an object, and the two are written one after the  *)
(* other with nothing to tie them.  Foreign keys keep a row that is        *)
(* referred to; nothing keeps an object.  remove counts the references of  *)
(* tours, covers and blog posts before it begins; a proposal or a team     *)
(* member's photo it does not count.                                       *)
(*                                                                         *)
(* One tour, post, proposal and team member stand for all.  Positions and  *)
(* alternative texts of attachments are left out: a request refused for    *)
(* one of them is one that aborts.                                         *)
(***************************************************************************)
EXTENDS Integers, FiniteSets

CONSTANTS
  Media,    \* ids of media
  Videos,   \* those that are no images
  Requests, \* slots for requests in flight
  None      \* no medium

MediaAssumption == Videos \subseteq Media /\ None \notin Media

VARIABLES
  rows,     \* media_assets
  objects,  \* objects in the store
  used,     \* ids given out
  attached, \* tour_media
  cover,    \* tours.cover_media_id
  hero,     \* blog_posts.hero_media_id
  offered,  \* proposal_media
  photo,    \* team_members.photo_media_id, None before the member is made
  requests, \* requests in flight
  calm,     \* no request has met another (history)
  broken    \* requests that ended between two writes; once calm is over, only uploads (history)

library == <<rows, objects, used>>
owners == <<attached, cover, hero, offered, photo>>
history == <<calm, broken>>
vars == <<library, owners, requests, history>>

Idle == [pc |-> "idle"]
Quiet == \A r \in Requests : requests[r] = Idle

Init ==
  /\ rows = {} /\ objects = {} /\ used = {}
  /\ attached = {} /\ cover = None /\ hero = None /\ offered = {} /\ photo = None
  /\ requests = [r \in Requests |-> Idle]
  /\ calm = TRUE /\ broken = {}

-----------------------------------------------------------------------------
(* Requests *)

Remember(ended) == broken' = { q \in ended : calm' \/ q.pc = "uploaded" }

Start(r, pc, m) ==
  /\ requests[r] = Idle
  /\ requests' = [requests EXCEPT ![r] = [pc |-> pc, medium |-> m]]
  /\ calm' = (calm /\ Quiet)
  /\ Remember(broken)

Go(r, pc) ==
  /\ requests' = [requests EXCEPT ![r].pc = pc]
  /\ UNCHANGED history

Finish(r) ==
  /\ requests' = [requests EXCEPT ![r] = Idle]
  /\ UNCHANGED history

AtOnce == calm' = (calm /\ Quiet) /\ Remember(broken) /\ UNCHANGED requests

At(r, pc, m) == requests[r] = [pc |-> pc, medium |-> m]

HalfWay == {"uploaded", "emptied", "detached"}

Broke(m, pc) == [pc |-> pc, medium |-> m] \in broken

\* A request dies, or the database or the store refuses it what it asks for.
Abort(r) ==
  /\ requests[r] # Idle
  /\ requests' = [requests EXCEPT ![r] = Idle]
  /\ UNCHANGED <<library, owners, calm>>
  /\ Remember(broken \cup {q \in {requests[r]} : q.pc \in HalfWay})

-----------------------------------------------------------------------------
(* The library *)

\* upload: the object gets a path of its own, then the row is saved.
PutObject(r, m) ==
  /\ m \notin used
  /\ used' = used \cup {m}
  /\ objects' = objects \cup {m}
  /\ Start(r, "uploaded", m)
  /\ UNCHANGED <<rows, owners>>

SaveRow(r, m) ==
  /\ At(r, "uploaded", m)
  /\ rows' = rows \cup {m}
  /\ Finish(r)
  /\ UNCHANGED <<objects, used, owners>>

\* What getContent finds.
HasContent(m) == m \in rows /\ m \in objects

\* What remove counts.
HeroesForgotten == attached \cup {cover}   \* mistake
Counted == attached \cup {cover, hero}

\* What the foreign keys count; a photo's would be set to null, which its column refuses.
Referred == Counted \cup offered \cup {photo}

StartRemove(r, m) ==
  /\ m \in rows
  /\ m \notin Counted
  /\ Start(r, "removing", m)
  /\ UNCHANGED <<library, owners>>

\* Row before object, as one would write it for the foreign keys' sake.
RowFirst(r, m) ==   \* mistake
  /\ At(r, "removing", m)
  /\ m \notin Referred
  /\ rows' = rows \ {m}
  /\ Go(r, "emptied")
  /\ UNCHANGED <<objects, used, owners>>
DeleteObject(r, m) ==
  /\ At(r, "removing", m)
  /\ objects' = objects \ {m}
  /\ Go(r, "emptied")
  /\ UNCHANGED <<rows, used, owners>>

DeleteRow(r, m) ==
  /\ At(r, "emptied", m)
  /\ m \notin Referred
  /\ rows' = rows \ {m}
  /\ Finish(r)
  /\ UNCHANGED <<objects, used, owners>>

LibraryStep(r, m) ==
  \/ PutObject(r, m)
  \/ SaveRow(r, m)
  \/ StartRemove(r, m)
  \/ DeleteObject(r, m)
  \/ DeleteRow(r, m)

-----------------------------------------------------------------------------
(* Tours *)

\* attachMedia; its key and foreign key check again.
CanAttach(m) == m \in rows /\ m \notin attached

StartAttach(r, m) ==
  /\ CanAttach(m)
  /\ Start(r, "attaching", m)
  /\ UNCHANGED <<library, owners>>

Attach(r, m) ==
  /\ At(r, "attaching", m)
  /\ CanAttach(m)
  /\ attached' = attached \cup {m}
  /\ Finish(r)
  /\ UNCHANGED <<library, cover, hero, offered, photo>>

\* detachMedia: whether the medium is the cover is known before it is detached.
StartDetach(r, m) ==
  /\ m \in attached
  /\ Start(r, IF cover = m THEN "uncovering" ELSE "detaching", m)
  /\ UNCHANGED <<library, owners>>

Detach(r, m) ==
  /\ At(r, "detaching", m) \/ At(r, "uncovering", m)
  /\ attached' = attached \ {m}
  /\ IF requests[r].pc = "uncovering" THEN Go(r, "detached") ELSE Finish(r)
  /\ UNCHANGED <<library, cover, hero, offered, photo>>

Uncover(r, m) ==
  /\ At(r, "detached", m)
  /\ cover' = None
  /\ Finish(r)
  /\ UNCHANGED <<library, attached, hero, offered, photo>>

\* updateMedia: the attachment is saved as read, and put back if it is gone.
StartArrange(r, m) ==
  /\ m \in attached
  /\ Start(r, "arranging", m)
  /\ UNCHANGED <<library, owners>>

Arrange(r, m) ==
  /\ At(r, "arranging", m)
  /\ m \in rows
  /\ attached' = attached \cup {m}
  /\ Finish(r)
  /\ UNCHANGED <<library, cover, hero, offered, photo>>

\* setCoverMedia
AnyCover(r, m) ==   \* mistake
  /\ m \in rows \ Videos
  /\ Start(r, "covering", m)
  /\ UNCHANGED <<library, owners>>
StartCover(r, m) ==
  /\ m \in attached \ Videos
  /\ Start(r, "covering", m)
  /\ UNCHANGED <<library, owners>>

Cover(r, m) ==
  /\ At(r, "covering", m)
  /\ m \in rows
  /\ cover' = m
  /\ Finish(r)
  /\ UNCHANGED <<library, attached, hero, offered, photo>>

\* clearCoverMedia
ClearCover ==
  /\ cover # None
  /\ cover' = None
  /\ AtOnce
  /\ UNCHANGED <<library, attached, hero, offered, photo>>

TourStep(r, m) ==
  \/ StartAttach(r, m) \/ Attach(r, m)
  \/ StartArrange(r, m) \/ Arrange(r, m)
  \/ StartDetach(r, m) \/ Detach(r, m) \/ Uncover(r, m)
  \/ StartCover(r, m) \/ Cover(r, m)

-----------------------------------------------------------------------------
(* Blog posts, proposals, team members *)

\* setHeroMedia
StartHero(r, m) ==
  /\ m \in rows
  /\ Start(r, "heading", m)
  /\ UNCHANGED <<library, owners>>

Hero(r, m) ==
  /\ At(r, "heading", m)
  /\ m \in rows
  /\ hero' = m
  /\ Finish(r)
  /\ UNCHANGED <<library, attached, cover, offered, photo>>

\* clearHeroMedia
ClearHero ==
  /\ hero # None
  /\ hero' = None
  /\ AtOnce
  /\ UNCHANGED <<library, attached, cover, offered, photo>>

\* attachMedia of a proposal
CanOffer(m) == m \in rows /\ m \notin offered

StartOffer(r, m) ==
  /\ CanOffer(m)
  /\ Start(r, "offering", m)
  /\ UNCHANGED <<library, owners>>

Offer(r, m) ==
  /\ At(r, "offering", m)
  /\ CanOffer(m)
  /\ offered' = offered \cup {m}
  /\ Finish(r)
  /\ UNCHANGED <<library, attached, cover, hero, photo>>

\* detachMedia of a proposal
Withdraw(m) ==
  /\ m \in offered
  /\ offered' = offered \ {m}
  /\ AtOnce
  /\ UNCHANGED <<library, attached, cover, hero, photo>>

\* updateMedia of a proposal puts back what is gone, as that of a tour.
StartReorder(r, m) ==
  /\ m \in offered
  /\ Start(r, "reordering", m)
  /\ UNCHANGED <<library, owners>>

Reorder(r, m) ==
  /\ At(r, "reordering", m)
  /\ m \in rows
  /\ offered' = offered \cup {m}
  /\ Finish(r)
  /\ UNCHANGED <<library, attached, cover, hero, photo>>

\* create of a team member, and setPhoto
StartPhoto(r, m) ==
  /\ m \in rows
  /\ Start(r, "posing", m)
  /\ UNCHANGED <<library, owners>>

Photo(r, m) ==
  /\ At(r, "posing", m)
  /\ m \in rows
  /\ photo' = m
  /\ Finish(r)
  /\ UNCHANGED <<library, attached, cover, hero, offered>>

HeroStep(r, m) == StartHero(r, m) \/ Hero(r, m)
OfferStep(r, m) ==
  \/ StartOffer(r, m) \/ Offer(r, m)
  \/ StartReorder(r, m) \/ Reorder(r, m)
PhotoStep(r, m) == StartPhoto(r, m) \/ Photo(r, m)

-----------------------------------------------------------------------------

Next ==
  \/ \E r \in Requests, m \in Media :
       \/ LibraryStep(r, m) \/ TourStep(r, m)
       \/ HeroStep(r, m) \/ OfferStep(r, m) \/ PhotoStep(r, m)
  \/ ClearCover \/ ClearHero
  \/ \E m \in Media : Withdraw(m)
  \/ \E r \in Requests : Abort(r)

Spec == Init /\ [][Next]_vars

-----------------------------------------------------------------------------
(* Properties *)

\* Where requests do not meet, what a tour shows, its cover and a post's hero image have content,
\* unless a removal once ended half way.
ShownHasContent ==
  calm => \A m \in (attached \cup {cover, hero}) \ {None} : HasContent(m) \/ Broke(m, "emptied")

\* Where requests do not meet, a tour's cover is an image attached to it, but for the moment a
\* detachment needs and unless one ended half way.
CoverIsAttached ==
  calm /\ Quiet /\ cover # None =>
    /\ cover \notin Videos
    /\ cover \in attached \/ Broke(cover, "detached")

\* Whatever meets or fails, an object without a row is an upload in progress or one that ended
\* before its row was saved: removing a medium never leaves an object nobody can find.
NoObjectIsLost ==
  \A m \in objects \ rows :
    Broke(m, "uploaded") \/ \E r \in Requests : At(r, "uploaded", m)

=============================================================================
