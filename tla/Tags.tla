-------------------------------- MODULE Tags --------------------------------
(***************************************************************************)
(* Tags, the languages of their labels, and the tour and the blog post     *)
(* that carry them: src/src/tags/tags.service.ts,                          *)
(* src/src/languages/languages.service.ts, and the tags of the tours' and  *)
(* the blog posts' services.                                               *)
(*                                                                         *)
(* A removal is one transaction of several statements: the tag goes from   *)
(* all tours, then from all posts, then itself.  What it deletes the       *)
(* others go on seeing until it commits, and a carrier that takes the tag  *)
(* on after its statement is refused by the foreign key when the tag goes, *)
(* which takes the whole removal back.  Where a row's lock would make a    *)
(* second removal wait, the model also lets it go on.                      *)
(*                                                                         *)
(* A label stands for its locale; whether a locale is shown is left out.   *)
(***************************************************************************)
EXTENDS FiniteSets

CONSTANTS
  Keys,      \* keys of tags
  Locales,
  Languages, \* the locales of the initial schema
  Requests,  \* slots for requests in flight
  NoTag      \* no row

TagsAssumption == Languages \subseteq Locales /\ \A ls \in SUBSET Locales : ls # NoTag

VARIABLES
  languages, \* registered locales
  labels,    \* tags: the locales each is labelled in, NoTag without a row
  carried,   \* tour_tags and blog_post_tags
  requests

vars == <<languages, labels, carried, requests>>

Carriers == {"tour", "post"}
Idle == [pc |-> "idle"]
Exists(k) == labels[k] # NoTag

Init ==
  /\ languages = Languages
  /\ labels = [k \in Keys |-> NoTag]
  /\ carried = [c \in Carriers |-> {}]
  /\ requests = [r \in Requests |-> Idle]

Start(r, request) == requests[r] = Idle /\ requests' = [requests EXCEPT ![r] = request]

Finish(r) == requests' = [requests EXCEPT ![r] = Idle]

\* A request dies, or the database refuses what it asks for: its transaction is undone.
Abort(r) ==
  /\ requests[r] # Idle
  /\ Finish(r)
  /\ UNCHANGED <<languages, labels, carried>>

-----------------------------------------------------------------------------
(* Languages *)

\* create of a language; nothing removes one.
Register(l) ==
  /\ l \notin languages
  /\ languages' = languages \cup {l}
  /\ UNCHANGED <<labels, carried, requests>>

-----------------------------------------------------------------------------
(* Tags *)

\* validateLabels
AreLabels(ls) == ls # {} /\ ls \subseteq languages

StartCreate(r, k, ls) ==
  /\ ~Exists(k)
  /\ AreLabels(ls)
  /\ Start(r, [pc |-> "saving", key |-> k, labels |-> ls])
  /\ UNCHANGED <<languages, labels, carried>>

\* update of labels, and update without any, which saves those it read.
StartUpdate(r, k, ls) ==
  /\ Exists(k)
  /\ AreLabels(ls) \/ ls = labels[k]
  /\ Start(r, [pc |-> "saving", key |-> k, labels |-> ls])
  /\ UNCHANGED <<languages, labels, carried>>

\* The save of a tag writes its row over another's, and puts it back when it is gone.
SaveTag(r) ==
  /\ requests[r].pc = "saving"
  /\ labels' = [labels EXCEPT ![requests[r].key] = requests[r].labels]
  /\ Finish(r)
  /\ UNCHANGED <<languages, carried>>

\* remove, the read.
StartRemove(r, k) ==
  /\ Exists(k)
  /\ Start(r, [pc |-> "clearing tours", key |-> k, cleared |-> {}])
  /\ UNCHANGED <<languages, labels, carried>>

\* remove, its statements on tour_tags and blog_post_tags: only the removal sees them.
CarriersOf(k, cs) == { c \in cs : k \in carried[c] }

Cleared(q, c, then) == [q EXCEPT !.pc = then, !.cleared = @ \cup CarriersOf(q.key, {c})]

ClearAtOnce(r, c, then) ==                                       \* mistake
  /\ requests' = [requests EXCEPT ![r] = Cleared(@, c, then)]
  /\ carried' = [carried EXCEPT ![c] = @ \ {requests[r].key}]
  /\ UNCHANGED <<languages, labels>>
Clear(r, c, then) ==
  /\ requests' = [requests EXCEPT ![r] = Cleared(@, c, then)]
  /\ UNCHANGED <<languages, labels, carried>>

ClearTours(r) == requests[r].pc = "clearing tours" /\ Clear(r, "tour", "clearing posts")
ClearPosts(r) == requests[r].pc = "clearing posts" /\ Clear(r, "post", "deleting")

\* remove, the delete of the tag and the commit: refused if a carrier took the tag meanwhile.
Remove(r) ==
  /\ requests[r].pc = "deleting"
  /\ LET q == requests[r] IN
     /\ CarriersOf(q.key, Carriers) \subseteq q.cleared
     /\ labels' = [labels EXCEPT ![q.key] = NoTag]
     /\ carried' = [c \in Carriers |-> carried[c] \ {q.key}]
  /\ Finish(r)
  /\ UNCHANGED languages

-----------------------------------------------------------------------------
(* Tours and blog posts *)

\* getTagsOrThrow, for the tags a request names or those the tour or post has.
StartCarry(r, c, ks) ==
  /\ \A k \in ks : Exists(k)
  /\ Start(r, [pc |-> "carrying", carrier |-> c, keys |-> ks])
  /\ UNCHANGED <<languages, labels, carried>>

\* The save, in one transaction: refused when one of the tags is gone.
Carry(r) ==
  /\ requests[r].pc = "carrying"
  /\ \A k \in requests[r].keys : Exists(k)
  /\ carried' = [carried EXCEPT ![requests[r].carrier] = requests[r].keys]
  /\ Finish(r)
  /\ UNCHANGED <<languages, labels>>

-----------------------------------------------------------------------------

TagStep(r, k) ==
  \/ \E ls \in SUBSET Locales : StartCreate(r, k, ls) \/ StartUpdate(r, k, ls)
  \/ StartRemove(r, k)

Continue(r) == SaveTag(r) \/ ClearTours(r) \/ ClearPosts(r) \/ Remove(r) \/ Carry(r) \/ Abort(r)

Next ==
  \/ \E l \in Locales : Register(l)
  \/ \E r \in Requests :
       \/ \E k \in Keys : TagStep(r, k)
       \/ \E c \in Carriers, ks \in SUBSET Keys : StartCarry(r, c, ks)
       \/ Continue(r)

Spec == Init /\ [][Next]_vars

-----------------------------------------------------------------------------
(* Properties *)

\* The step saves the carrier's own tags.
SavesOwn(c) ==
  \E r \in Requests :
    requests[r].pc = "carrying" /\ requests[r].carrier = c /\ requests'[r] = Idle

\* Whoever tags meanwhile and whatever fails, a removal takes a tag from every tour and post and
\* with them the tag, or nothing: none keeps a tag that is gone, and none loses one that stays
\* but by a save of its own.
RemovalIsWhole ==
  [][\A k \in Keys, c \in Carriers :
       /\ Exists(k) /\ labels'[k] = NoTag => k \notin carried'[c]
       /\ k \in carried[c] \ carried'[c] => labels'[k] = NoTag \/ SavesOwn(c)]_vars
=============================================================================
