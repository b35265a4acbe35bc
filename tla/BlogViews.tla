------------------------------- MODULE BlogViews -------------------------------
(***************************************************************************)
(* The views of a translation of a blog post: findOneBySlug and trackView  *)
(* of src/src/blog-posts/public-blog-posts.service.ts.                     *)
(*                                                                         *)
(* A viewer is the digest of an address and counts once in a window of     *)
(* time.  The translation is read, then the clock, then one transaction    *)
(* inserts or refreshes the viewer's row and adds to the number of views:  *)
(* requests of one viewer may settle in another order than they read the   *)
(* clock.                                                                  *)
(***************************************************************************)
EXTENDS Integers, FiniteSets

CONSTANTS
  Viewers,  \* digests of addresses
  Readers,  \* slots for requests
  Window,   \* 24 hours, in ticks
  MaxClock, \* bound on the clock
  MaxPosts  \* bound on translations made

ViewsAssumption == Window \in Nat /\ MaxClock \in Nat /\ MaxPosts \in Nat

VARIABLES
  clock,
  post,      \* the translation: its id, whether it exists and is published, its view_count
  viewed,    \* blog_post_views: by viewer, last_viewed_at or Never
  readers,   \* requests in flight
  settled    \* by viewer, what became of each view of the translation (history)

vars == <<clock, post, viewed, readers, settled>>

Never == -1 - Window
Idle == [pc |-> "idle"]

Unread == [v \in Viewers |-> Never]

Init ==
  /\ clock = 0
  /\ post = [id |-> 1, exists |-> TRUE, published |-> TRUE, views |-> 0]
  /\ viewed = Unread
  /\ readers = [r \in Readers |-> Idle]
  /\ settled = [v \in Viewers |-> {}]

-----------------------------------------------------------------------------

\* findOneBySlug answers a reader only from a published translation.
Open(r, v) ==
  /\ readers[r] = Idle
  /\ post.exists /\ post.published
  /\ readers' = [readers EXCEPT ![r] = [pc |-> "opened", id |-> post.id, viewer |-> v]]
  /\ UNCHANGED <<clock, post, viewed, settled>>

\* trackView takes its time once
ReadClock(r) ==
  /\ readers[r].pc = "opened"
  /\ readers' = [readers EXCEPT ![r] =
       [pc |-> "track", id |-> @.id, viewer |-> @.viewer, at |-> clock]]
  /\ UNCHANGED <<clock, post, viewed, settled>>

\* and counts the view unless the viewer's row is as recent as the cutoff,
AnyLater(last, at) == last < at   \* mistake
IsExpired(last, at) == last < at - Window

Settle(q, counts) ==
  settled' = [settled EXCEPT ![q.viewer] = @ \cup {[at |-> q.at, counts |-> counts]}]

TrackView(r) ==
  LET q == readers[r]
      counts == IsExpired(viewed[q.viewer], q.at)
  IN
  /\ q.pc = "track"
  /\ post.exists /\ post.id = q.id
  /\ viewed' = IF counts THEN [viewed EXCEPT ![q.viewer] = q.at] ELSE viewed
  /\ post' = IF counts THEN [post EXCEPT !.views = @ + 1] ELSE post
  /\ Settle(q, counts)
  /\ readers' = [readers EXCEPT ![r] = Idle]
  /\ UNCHANGED clock

\* or fails: the key refuses the row of a translation that is gone, or the request dies.
Fail(r) ==
  /\ readers[r] # Idle
  /\ readers' = [readers EXCEPT ![r] = Idle]
  /\ UNCHANGED <<clock, post, viewed, settled>>

-----------------------------------------------------------------------------
(* What administrators do, as readers see it: BlogPublication has the rest *)

Publish ==
  /\ post.exists
  /\ post' = [post EXCEPT !.published = ~@]
  /\ UNCHANGED <<clock, viewed, readers, settled>>

\* deleteTranslation: the rows of its viewers go with it.
Delete ==
  /\ post.exists
  /\ post' = [post EXCEPT !.exists = FALSE]
  /\ viewed' = Unread
  /\ settled' = [v \in Viewers |-> {}]
  /\ UNCHANGED <<clock, readers>>

CreateAgain ==
  /\ ~post.exists /\ post.id < MaxPosts
  /\ post' = [id |-> post.id + 1, exists |-> TRUE, published |-> FALSE, views |-> 0]
  /\ UNCHANGED <<clock, viewed, readers, settled>>

Tick ==
  /\ clock < MaxClock
  /\ clock' = clock + 1
  /\ UNCHANGED <<post, viewed, readers, settled>>

Next ==
  \/ \E r \in Readers : (\E v \in Viewers : Open(r, v)) \/ ReadClock(r) \/ TrackView(r) \/ Fail(r)
  \/ Publish \/ Delete \/ CreateAgain
  \/ Tick

Spec == Init /\ [][Next]_vars

-----------------------------------------------------------------------------
(* Properties *)

Within(a, b) == a.at - b.at <= Window

Counted(v) == { view \in settled[v] : view.counts }
CountedViews == UNION { {v} \X Counted(v) : v \in Viewers }

\* In whatever order requests settle, no two views of a viewer that counted are within a window
\* of each other, one that did not has another that counted in the window before it, or later,
\* and the translation shows as many views as counted.
OncePerWindow ==
  /\ \A v \in Viewers :
       /\ \A a, b \in Counted(v) : Within(a, b) /\ Within(b, a) => a = b
       /\ \A a \in settled[v] : \E b \in Counted(v) : Within(a, b)
  /\ post.exists => post.views = Cardinality(CountedViews)

=============================================================================
