--------------------------- MODULE BlogPublication ---------------------------
(***************************************************************************)
(* A blog post and its translations:                                       *)
(* src/src/blog-posts/blog-posts.service.ts.                               *)
(*                                                                         *)
(* A translation is published by a flag of its own; the post's date is     *)
(* derived from the flags after each change, by a request of its own to    *)
(* the database.  A translation is saved as it was read: the repository    *)
(* reads the row again, compares, and then writes the columns in which the *)
(* copy differs.  Readers add to the number of views meanwhile (when they  *)
(* do is BlogViews' matter).                                               *)
(*                                                                         *)
(* One post stands for all.  Of a translation's text only whether it has   *)
(* both a title and content is kept.  Slugs, languages, tags and the hero  *)
(* image are left out: a request refused for one of them is one that       *)
(* aborts.                                                                 *)
(***************************************************************************)
EXTENDS Integers

CONSTANTS
  Locales,    \* languages a translation may be in
  Requests,   \* slots for requests of administrators
  MaxIds,     \* bound on translations made
  MaxViews,   \* bound on views of a translation
  NoRow

VARIABLES
  translations, \* blog_post_translations: by locale, a row or NoRow
  isDated,      \* blog_posts.published_at is not null
  requests,     \* administrators' requests in flight
  ids,          \* ids given out
  counted,      \* views that counted, by translation's id, for as long as unseen holds (history)
  calm,         \* no administrator's request has met another or ended half way (history)
  unseen        \* nor has a view counted between the load of a copy and its comparison (history)

post == <<translations, isDated>>
history == <<counted, calm, unseen>>
vars == <<post, requests, ids, history>>

Idle == [pc |-> "idle"]
Quiet == \A r \in Requests : requests[r] = Idle

\* A translation's row
Row == [id : 1..MaxIds, ready : BOOLEAN, published : BOOLEAN, views : 0..MaxViews]

BlogAssumption == MaxIds \in Nat /\ MaxViews \in Nat /\ NoRow \notin Row

Blank(id, ready) == [id |-> id, ready |-> ready, published |-> FALSE, views |-> 0]

Rows == { translations[l] : l \in Locales } \ {NoRow}
Published == { row \in Rows : row.published }

NoViews == [id \in 1..MaxIds |-> 0]

Init ==
  /\ translations = [l \in Locales |-> NoRow]
  /\ isDated = FALSE
  /\ requests = [r \in Requests |-> Idle]
  /\ ids = 0
  /\ counted = NoViews
  /\ calm = TRUE /\ unseen = TRUE

-----------------------------------------------------------------------------
(* Requests of administrators *)

Remember(views) == counted' = IF unseen' THEN views ELSE NoViews

Start(r, q) ==
  /\ requests[r] = Idle
  /\ requests' = [requests EXCEPT ![r] = q]
  /\ calm' = (calm /\ Quiet)
  /\ unseen' = (unseen /\ calm')
  /\ Remember(counted)
  /\ UNCHANGED <<post, ids>>

Go(r, q) == requests' = [requests EXCEPT ![r] = q]
Finish(r) == Go(r, Idle)

\* A request dies, or the database refuses it what it asks for.
Abort(r) ==
  /\ requests[r] # Idle
  /\ Finish(r)
  /\ calm' = (calm /\ requests[r].pc \notin {"synchronize", "clear"})
  /\ unseen' = (unseen /\ calm')
  /\ Remember(counted)
  /\ UNCHANGED <<post, ids>>

\* createTranslation; the key of a locale checks again.
IsFree(l) == translations[l] = NoRow

StartCreate(r, l, ready) ==
  /\ IsFree(l)
  /\ Start(r, [pc |-> "create", locale |-> l, ready |-> ready])

Create(r) ==
  LET q == requests[r] IN
  /\ q.pc = "create"
  /\ IsFree(q.locale)
  /\ ids < MaxIds
  /\ ids' = ids + 1
  /\ translations' = [translations EXCEPT ![q.locale] = Blank(ids', q.ready)]
  /\ Finish(r)
  /\ UNCHANGED <<isDated, history>>

\* updateTranslation, publishTranslation and unpublishTranslation load the post and change a copy.
Edited(row, ready) == [row EXCEPT !.ready = ready, !.published = @ /\ ready]

PublishedIfReady(row) == [row EXCEPT !.published = row.ready]

StartSave(r, l, copy, dates) ==
  /\ translations[l] # NoRow
  /\ Start(r, [pc |-> "compare", locale |-> l, copy |-> copy, dates |-> dates])

UpdateTranslation(r, l, ready) == StartSave(r, l, Edited(translations[l], ready), FALSE)
PublishTranslation(r, l) ==
  StartSave(r, l, PublishedIfReady(translations[l]), translations[l].ready)
UnpublishTranslation(r, l) ==
  StartSave(r, l, [translations[l] EXCEPT !.published = FALSE], FALSE)

\* save: the row is read again, by its id;
Compare(r) ==
  LET q == requests[r]
      found == { row \in Rows : row.id = q.copy.id }
  IN
  /\ q.pc = "compare"
  /\ \/ \E row \in found : Go(r, [pc |-> "write", base |-> row, copy |-> q.copy, dates |-> q.dates])
     \/ found = {} /\ Go(r, [q EXCEPT !.pc = "insert"])
  /\ UNCHANGED <<post, ids, history>>

\* then the columns in which the copy differs from what was found are written,
WholeCopy(now, base, copy) == copy   \* mistake
Overlay(now, base, copy) ==
  [f \in DOMAIN now |-> IF copy[f] = base[f] THEN now[f] ELSE copy[f]]

Synchronize(q) == [pc |-> "synchronize", dates |-> q.dates]

Write(r) ==
  LET q == requests[r] IN
  /\ q.pc = "write"
  /\ translations' = [l \in Locales |->
       LET row == translations[l] IN
       IF row # NoRow /\ row.id = q.copy.id THEN Overlay(row, q.base, q.copy) ELSE row]
  /\ Go(r, Synchronize(q))
  /\ UNCHANGED <<isDated, ids, history>>

\* or the row that was not found is made again.
Insert(r) ==
  LET q == requests[r] IN
  /\ q.pc = "insert"
  /\ IsFree(q.locale)
  /\ translations' = [translations EXCEPT ![q.locale] = q.copy]
  /\ Go(r, Synchronize(q))
  /\ UNCHANGED <<isDated, ids, history>>

\* deleteTranslation
StartDelete(r, l) ==
  /\ translations[l] # NoRow
  /\ Start(r, [pc |-> "delete", id |-> translations[l].id])

Delete(r) ==
  LET q == requests[r] IN
  /\ q.pc = "delete"
  /\ translations' = [l \in Locales |->
       LET row == translations[l] IN IF row # NoRow /\ row.id = q.id THEN NoRow ELSE row]
  /\ Go(r, [pc |-> "synchronize", dates |-> FALSE])
  /\ UNCHANGED <<isDated, ids, history>>

\* syncDerivedPublicationState: a publication sets the date,
SetDate(r) ==
  /\ requests[r].pc = "synchronize" /\ requests[r].dates
  /\ isDated' = TRUE
  /\ Finish(r)
  /\ UNCHANGED <<translations, ids, history>>

\* anything else clears it if no translation is left published.
NeverClears(r) == Finish(r)   \* mistake
AfterCount(r) == IF Published = {} THEN Go(r, [pc |-> "clear"]) ELSE Finish(r)

CountPublished(r) ==
  /\ requests[r].pc = "synchronize" /\ ~requests[r].dates
  /\ AfterCount(r)
  /\ UNCHANGED <<post, ids, history>>

ClearDate(r) ==
  /\ requests[r].pc = "clear"
  /\ isDated' = FALSE
  /\ Finish(r)
  /\ UNCHANGED <<translations, ids, history>>

\* update: the post is saved as read.  The repository refuses it if a translation was added.
StartUpdate(r) ==
  Start(r, [pc |-> "update", ids |-> { row.id : row \in Rows }, isDated |-> isDated])

Update(r) ==
  LET q == requests[r] IN
  /\ q.pc = "update"
  /\ { row.id : row \in Rows } \subseteq q.ids
  /\ isDated' = q.isDated
  /\ Finish(r)
  /\ UNCHANGED <<translations, ids, history>>

PostStep(r) == StartUpdate(r) \/ Update(r)

EditStep(r) ==
  \/ \E l \in Locales, ready \in BOOLEAN : StartCreate(r, l, ready) \/ UpdateTranslation(r, l, ready)
  \/ \E l \in Locales : StartDelete(r, l)
  \/ Create(r) \/ Delete(r)

PublishStep(r) ==
  \/ \E l \in Locales : PublishTranslation(r, l) \/ UnpublishTranslation(r, l)
  \/ SetDate(r) \/ CountPublished(r) \/ ClearDate(r)

SaveStep(r) == Compare(r) \/ Write(r) \/ Insert(r)

-----------------------------------------------------------------------------
(* Readers *)

IsAbout(id) == \E r \in Requests : requests[r].pc = "compare" /\ requests[r].copy.id = id

\* trackView, when the view counts
CountView(l) ==
  LET row == translations[l] IN
  /\ row # NoRow
  /\ row.views < MaxViews
  /\ translations' = [translations EXCEPT ![l].views = @ + 1]
  /\ unseen' = (unseen /\ ~IsAbout(row.id))
  /\ Remember([counted EXCEPT ![row.id] = @ + 1])
  /\ UNCHANGED <<isDated, requests, ids, calm>>

-----------------------------------------------------------------------------

Next ==
  \/ \E r \in Requests : PostStep(r) \/ EditStep(r) \/ PublishStep(r) \/ SaveStep(r) \/ Abort(r)
  \/ \E l \in Locales : CountView(l)

Spec == Init /\ [][Next]_vars

-----------------------------------------------------------------------------
(* Properties *)

\* Where administrators' requests do not meet or end half way, a post has a date if and only if
\* a translation is published, and a published translation has a title and content.
DateAgrees ==
  calm =>
    /\ Quiet => (isDated <=> Published # {})
    /\ \A row \in Published : row.ready

\* There, no view that counted is lost or counted twice, unless it counted after a copy of the
\* translation was loaded and before save compared it: not between the comparison and the write.
ViewsAreKept ==
  unseen =>
    \A row \in Rows : row.views = counted[row.id]

=============================================================================
