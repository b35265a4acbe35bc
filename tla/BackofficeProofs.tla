-------------------------- MODULE BackofficeProofs --------------------------
(***************************************************************************)
(* Proofs about the back office: the media library, tags, the booking      *)
(* widget, a post's readers, the administrators, the import of the         *)
(* catalogue, the blog and the pages of a calendar, each for any values of *)
(* its constants.  The parts share no variable: each has an inductive      *)
(* invariant of its own, kept by its own steps, and a step of another is   *)
(* one at which it rests.                                                  *)
(***************************************************************************)
EXTENDS Backoffice, NumberTheorems, FiniteSetTheorems, TLAPS

(***************************************************************************)
(* The media library.  Whatever meets, what refers to a medium refers to a *)
(* row, and a medium whose removal has emptied it has no object.  Where no *)
(* request meets another, the one that is in flight also still knows what  *)
(* it read: a removal, that nothing counted refers to the medium; an       *)
(* upload, that the object is there.  Requests are spoken of through At    *)
(* alone, so that a step is its change of At and of a few sets.            *)
(***************************************************************************)


At(r, pc, m) == Library!At(r, pc, m)
Broke(m, pc) == Library!Broke(m, pc)

\* A slot is idle or has a request about a medium.
RequestTypes ==
  /\ mediaRequests = [r \in Requests |-> mediaRequests[r]]
  /\ \A r \in Requests : mediaRequests[r] = Library!Idle \/ \E pc : \E m \in Media : At(r, pc, m)

\* Rows, objects and the media of requests have an id that was given out; a removal that
\* emptied a medium goes on without its object.
IdsAreUsed ==
  /\ mediaRows \subseteq used /\ objects \subseteq used /\ used \subseteq Media
  /\ \A pc : \A r \in Requests, m \in Media :
       At(r, pc, m) => m \in used /\ (pc = "emptied" => m \notin objects)

\* The foreign keys: what refers to a medium refers to a row.
KeysHold == Library!Referred \ {None} \subseteq mediaRows

\* What a request that is alone still knows of its medium.
Knows(pc, m) ==
  /\ pc \in {"removing", "emptied"} => m \notin Library!Counted
  /\ pc = "uploaded" => m \in objects
  /\ pc = "detaching" => cover # m
  /\ pc = "covering" => m \in attached /\ m \notin Videos

OneKnows ==
  /\ \A p, q : \A r, s \in Requests, m, n \in Media : At(r, p, m) /\ At(s, q, n) => r = s
  /\ \A pc : \A r \in Requests, m \in Media : At(r, pc, m) => Knows(pc, m)

\* A row without an object is of a removal under way, or of one that ended half way.
RowsHaveObjects ==
  \A m \in mediaRows \ objects : Broke(m, "emptied") \/ \E r \in Requests : At(r, "emptied", m)

\* A cover is an image that is attached, or about to go, or left by a detachment that ended.
CoverStands ==
  cover # None =>
    /\ cover \in Media /\ cover \notin Videos
    /\ cover \in attached \/ Broke(cover, "detached") \/ \E r \in Requests : At(r, "detached", cover)

CalmLibrary == mediaCalm => OneKnows /\ RowsHaveObjects /\ CoverStands

LibraryInv ==
  /\ RequestTypes /\ IdsAreUsed /\ KeysHold
  /\ NoObjectIsLost
  /\ CalmLibrary

-----------------------------------------------------------------------------
(* What the operators on requests do *)

\* The request in slot r is now in one of some states about m, and the others are where they were.
Becomes(r, pcs, m) ==
  \A pc : \A s \in Requests, n \in Media :
    At(s, pc, n)' <=> (s = r /\ pc \in pcs /\ n = m) \/ (s # r /\ At(s, pc, n))

\* The histories forget nothing a property needs.
Remembers ==
  /\ mediaCalm' => mediaCalm
  /\ \A m \in Media : Broke(m, "uploaded") => Broke(m, "uploaded")'
  /\ mediaCalm' => \A pc : \A m \in Media : Broke(m, pc) => Broke(m, pc)'

\* No request is in flight.
Nobody == \A pc : \A r \in Requests, m \in Media : ~At(r, pc, m)

\* Quiet is what its name says.
LEMMA QuietIsNobody == Library!Quiet => Nobody
  BY DEF Library!Quiet, Nobody, At, Library!At, Library!Idle

\* A request is in one state, about one medium.
LEMMA OneState ==
  ASSUME NEW r, NEW p, NEW q, NEW m, NEW n, At(r, p, m), At(r, q, n)
  PROVE  p = q /\ m = n
PROOF
  <1>1. [pc |-> p, medium |-> m] = [pc |-> q, medium |-> n]
    BY DEF At, Library!At
  <1>2. [pc |-> p, medium |-> m].pc = p /\ [pc |-> q, medium |-> n].pc = q
    OBVIOUS
  <1>3. [pc |-> p, medium |-> m].medium = m /\ [pc |-> q, medium |-> n].medium = n
    OBVIOUS
  <1> QED BY <1>1, <1>2, <1>3

\* One slot changes.
LEMMA SlotsKept ==
  ASSUME RequestTypes, NEW r \in Requests, NEW q,
         mediaRequests' = [mediaRequests EXCEPT ![r] = q],
         q = Library!Idle \/ \E pc : \E m \in Media : q = [pc |-> pc, medium |-> m]
  PROVE  RequestTypes'
PROOF
  <1>1. mediaRequests' = [s \in Requests |-> IF s = r THEN q ELSE mediaRequests[s]]
    BY DEF RequestTypes
  <1>2. mediaRequests' = [s \in Requests |-> mediaRequests'[s]]
    BY <1>1
  <1>3. ASSUME NEW s \in Requests
        PROVE  mediaRequests'[s] = Library!Idle \/ \E pc : \E m \in Media : At(s, pc, m)'
    <2>1. CASE s = r
      BY <1>1, <2>1 DEF At, Library!At
    <2>2. CASE s # r
      <3>1. mediaRequests'[s] = mediaRequests[s]
        BY <1>1, <2>2
      <3>2. mediaRequests[s] = Library!Idle \/ \E pc : \E m \in Media : At(s, pc, m)
        BY DEF RequestTypes
      <3> QED BY <3>1, <3>2 DEF At, Library!At
    <2> QED BY <2>1, <2>2
  <1> QED BY <1>2, <1>3 DEF RequestTypes

\* A request comes in.
LEMMA Starting ==
  ASSUME RequestTypes, NEW r \in Requests, NEW pc, NEW m \in Media,
         Library!Start(r, pc, m)
  PROVE  /\ RequestTypes' /\ Becomes(r, {pc}, m) /\ Remembers
         /\ \A p : \A n \in Media : ~At(r, p, n)
         /\ mediaCalm' => Nobody
PROOF
  <1>1. /\ mediaRequests[r] = Library!Idle
        /\ mediaRequests' = [mediaRequests EXCEPT ![r] = [pc |-> pc, medium |-> m]]
        /\ mediaCalm' = (mediaCalm /\ Library!Quiet)
        /\ broken' = { q \in broken : mediaCalm' \/ q.pc = "uploaded" }
    BY DEF Library!Start, Library!Remember
  <1>2. RequestTypes'
    BY <1>1, SlotsKept
  <1>3. Becomes(r, {pc}, m)
    <2> SUFFICES ASSUME NEW s \in Requests, NEW p, NEW n \in Media
                 PROVE  At(s, p, n)' <=> (s = r /\ p \in {pc} /\ n = m) \/ (s # r /\ At(s, p, n))
      BY DEF Becomes
    <2>1. CASE s = r
      <3>1. mediaRequests'[s] = [pc |-> pc, medium |-> m]
        BY <1>1, <2>1 DEF RequestTypes
      <3> QED BY <2>1, <3>1 DEF At, Library!At
    <2>2. CASE s # r
      <3>1. mediaRequests'[s] = mediaRequests[s]
        BY <1>1, <2>2 DEF RequestTypes
      <3> QED BY <2>2, <3>1 DEF At, Library!At
    <2> QED BY <2>1, <2>2
  <1>4. Remembers
    BY <1>1 DEF Remembers, Broke, Library!Broke
  <1>5. \A p : \A n \in Media : ~At(r, p, n)
    BY <1>1 DEF At, Library!At, Library!Idle
  <1>6. mediaCalm' => Nobody
    BY <1>1, QuietIsNobody
  <1> QED BY <1>2, <1>3, <1>4, <1>5, <1>6

\* A request goes on.
LEMMA Going ==
  ASSUME RequestTypes, NEW r \in Requests, NEW old, NEW pc, NEW m \in Media,
         At(r, old, m), Library!Go(r, pc)
  PROVE  /\ RequestTypes' /\ Becomes(r, {pc}, m) /\ Remembers
         /\ mediaCalm' = mediaCalm /\ broken' = broken
PROOF
  <1>1. /\ mediaRequests' = [mediaRequests EXCEPT ![r].pc = pc]
        /\ mediaCalm' = mediaCalm /\ broken' = broken
        /\ mediaRequests[r] = [pc |-> old, medium |-> m]
    BY DEF Library!Go, Library!history, At, Library!At
  <1>2. mediaRequests' = [mediaRequests EXCEPT ![r] = [pc |-> pc, medium |-> m]]
    <2>1. [mediaRequests[r] EXCEPT !.pc = pc] = [pc |-> pc, medium |-> m]
      BY <1>1
    <2> QED BY <1>1, <2>1
  <1>3. RequestTypes'
    BY <1>2, SlotsKept
  <1>4. Becomes(r, {pc}, m)
    <2> SUFFICES ASSUME NEW s \in Requests, NEW p, NEW n \in Media
                 PROVE  At(s, p, n)' <=> (s = r /\ p \in {pc} /\ n = m) \/ (s # r /\ At(s, p, n))
      BY DEF Becomes
    <2>1. CASE s = r
      <3>1. mediaRequests'[s] = [pc |-> pc, medium |-> m]
        BY <1>2, <2>1 DEF RequestTypes
      <3> QED BY <2>1, <3>1 DEF At, Library!At
    <2>2. CASE s # r
      <3>1. mediaRequests'[s] = mediaRequests[s]
        BY <1>2, <2>2 DEF RequestTypes
      <3> QED BY <2>2, <3>1 DEF At, Library!At
    <2> QED BY <2>1, <2>2
  <1> QED BY <1>1, <1>3, <1>4 DEF Remembers, Broke, Library!Broke

\* A request leaves its slot.
LEMMA Leaving ==
  ASSUME RequestTypes, NEW r \in Requests, NEW m,
         mediaRequests' = [mediaRequests EXCEPT ![r] = Library!Idle]
  PROVE  RequestTypes' /\ Becomes(r, {}, m)
PROOF
  <1>1. RequestTypes'
    BY SlotsKept
  <1>2. ASSUME NEW s \in Requests, NEW p, NEW n \in Media
        PROVE  At(s, p, n)' <=> s # r /\ At(s, p, n)
    <2>1. CASE s = r
      <3>1. mediaRequests'[s] = Library!Idle
        BY <2>1 DEF RequestTypes
      <3> QED BY <2>1, <3>1 DEF At, Library!At, Library!Idle
    <2>2. CASE s # r
      <3>1. mediaRequests'[s] = mediaRequests[s]
        BY <2>2 DEF RequestTypes
      <3> QED BY <2>2, <3>1 DEF At, Library!At
    <2> QED BY <2>1, <2>2
  <1> QED BY <1>1, <1>2 DEF Becomes

\* A request ends as it should.
LEMMA Finishing ==
  ASSUME RequestTypes, NEW r \in Requests, NEW m, Library!Finish(r)
  PROVE  /\ RequestTypes' /\ Becomes(r, {}, m) /\ Remembers
         /\ mediaCalm' = mediaCalm /\ broken' = broken
PROOF
  <1>1. /\ mediaRequests' = [mediaRequests EXCEPT ![r] = Library!Idle]
        /\ mediaCalm' = mediaCalm /\ broken' = broken
    BY DEF Library!Finish, Library!history
  <1> QED BY <1>1, Leaving DEF Remembers, Broke, Library!Broke

-----------------------------------------------------------------------------
(* Every step keeps the invariant *)

\* A request comes in that read no more than what it may rely on while it is alone.
LEMMA StartKeeps ==
  ASSUME LibraryInv, NEW r \in Requests, NEW pc, pc \notin {"uploaded", "emptied"}, NEW m \in used,
         Library!Start(r, pc, m), UNCHANGED <<Library!library, Library!owners>>,
         Knows(pc, m)
  PROVE  LibraryInv'
PROOF
  <1>1. /\ RequestTypes' /\ Becomes(r, {pc}, m) /\ Remembers
        /\ \A p : \A n \in Media : ~At(r, p, n)
        /\ mediaCalm' => Nobody
    BY Starting DEF LibraryInv, IdsAreUsed
  <1>2. /\ mediaRows' = mediaRows /\ objects' = objects /\ used' = used
        /\ attached' = attached /\ cover' = cover /\ hero' = hero /\ offered' = offered /\ photo' = photo
    BY DEF Library!library, Library!owners
  <1>3. IdsAreUsed'
    BY <1>1, <1>2 DEF LibraryInv, IdsAreUsed, Becomes
  <1>4. KeysHold'
    BY <1>2 DEF LibraryInv, KeysHold, Library!Referred, Library!Counted
  <1>5. NoObjectIsLost'
    BY <1>1, <1>2 DEF LibraryInv, IdsAreUsed, NoObjectIsLost, Library!NoObjectIsLost, Becomes, Remembers, At, Broke
  <1>6. CalmLibrary'
    <2> SUFFICES ASSUME mediaCalm' PROVE (OneKnows /\ RowsHaveObjects /\ CoverStands)'
      BY DEF CalmLibrary
    <2>1. Nobody /\ mediaCalm /\ OneKnows /\ RowsHaveObjects /\ CoverStands
      BY <1>1 DEF LibraryInv, CalmLibrary, Remembers
    <2>2. \A p : \A s \in Requests, n \in Media : At(s, p, n)' <=> s = r /\ p = pc /\ n = m
      BY <1>1, <2>1 DEF Nobody, Becomes
    <2>3. Knows(pc, m)'
      BY <1>2 DEF Knows, Library!Counted
    <2>4. OneKnows'
      BY <2>2, <2>3 DEF OneKnows
    <2>5. RowsHaveObjects'
      BY <1>1, <1>2, <2>1 DEF RowsHaveObjects, Remembers, Nobody, LibraryInv, IdsAreUsed
    <2>6. CoverStands'
      BY <1>1, <1>2, <2>1 DEF CoverStands, Remembers, Nobody
    <2> QED BY <2>4, <2>5, <2>6
  <1> QED BY <1>1, <1>3, <1>4, <1>5, <1>6 DEF LibraryInv

\* What refers to media changes, and no request is left alone with what it read.
LEMMA OwnersMove ==
  ASSUME LibraryInv, UNCHANGED Library!library, RequestTypes', Remembers,
         \A pc : \A s \in Requests, n \in Media : At(s, pc, n)' => At(s, pc, n),
         \A s \in Requests, n \in Media : At(s, "uploaded", n) => At(s, "uploaded", n)',
         mediaCalm' => Nobody' /\ \A s \in Requests, n \in Media : ~At(s, "emptied", n),
         Library!Referred' \ {None} \subseteq mediaRows,
         mediaCalm' /\ OneKnows /\ CoverStands => CoverStands'
  PROVE  LibraryInv'
PROOF
  <1>1. mediaRows' = mediaRows /\ objects' = objects /\ used' = used
    BY DEF Library!library
  <1>2. IdsAreUsed'
    BY <1>1 DEF LibraryInv, IdsAreUsed
  <1>3. KeysHold'
    BY <1>1 DEF KeysHold
  <1>4. NoObjectIsLost'
    BY <1>1 DEF LibraryInv, IdsAreUsed, NoObjectIsLost, Library!NoObjectIsLost, Remembers, At, Broke
  <1>5. CalmLibrary'
    <2> SUFFICES ASSUME mediaCalm' PROVE (OneKnows /\ RowsHaveObjects /\ CoverStands)'
      BY DEF CalmLibrary
    <2>1. mediaCalm /\ OneKnows /\ RowsHaveObjects /\ CoverStands
      BY DEF LibraryInv, CalmLibrary, Remembers
    <2>2. OneKnows'
      BY DEF OneKnows, Nobody
    <2>3. RowsHaveObjects'
      BY <1>1, <2>1 DEF RowsHaveObjects, Remembers, LibraryInv, IdsAreUsed
    <2> QED BY <2>1, <2>2, <2>3
  <1> QED BY <1>2, <1>3, <1>4, <1>5 DEF LibraryInv

\* A request that only read, or knows of an attachment or a cover, ends.
LEMMA FinishKeeps ==
  ASSUME LibraryInv, NEW r \in Requests, NEW pc, pc \notin {"uploaded", "emptied"}, NEW m \in Media,
         At(r, pc, m), Library!Finish(r), UNCHANGED Library!library,
         Library!Referred' \ {None} \subseteq mediaRows,
         mediaCalm /\ OneKnows /\ CoverStands => CoverStands'
  PROVE  LibraryInv'
PROOF
  <1>1. RequestTypes' /\ Becomes(r, {}, m) /\ Remembers /\ mediaCalm' = mediaCalm
    BY Finishing DEF LibraryInv
  <1>2. \A p : \A s \in Requests, n \in Media : At(s, p, n)' <=> s # r /\ At(s, p, n)
    BY <1>1 DEF Becomes
  <1>3. \A s \in Requests, n \in Media : At(s, "uploaded", n) => At(s, "uploaded", n)'
    BY <1>2, OneState
  <1>4. ASSUME mediaCalm' PROVE Nobody' /\ \A s \in Requests, n \in Media : ~At(s, "emptied", n)
    <2>1. \A p, q : \A s, t \in Requests, n, o \in Media : At(s, p, n) /\ At(t, q, o) => s = t
      BY <1>1, <1>4 DEF LibraryInv, CalmLibrary, OneKnows
    <2>2. Nobody'
      BY <1>2, <2>1 DEF Nobody
    <2>3. \A s \in Requests, n \in Media : ~At(s, "emptied", n)
      BY <2>1, OneState
    <2> QED BY <2>2, <2>3
  <1> QED BY <1>1, <1>2, <1>3, <1>4, OwnersMove

\* A request of one step.
LEMMA AtOnceKeeps ==
  ASSUME LibraryInv, Library!AtOnce, UNCHANGED Library!library,
         Library!Referred' \ {None} \subseteq mediaRows,
         mediaCalm' /\ OneKnows /\ CoverStands => CoverStands'
  PROVE  LibraryInv'
PROOF
  <1>1. /\ mediaRequests' = mediaRequests
        /\ mediaCalm' = (mediaCalm /\ Library!Quiet)
        /\ broken' = { q \in broken : mediaCalm' \/ q.pc = "uploaded" }
    BY DEF Library!AtOnce, Library!Remember
  <1>2. RequestTypes'
    BY <1>1 DEF LibraryInv, RequestTypes, At, Library!At
  <1>3. Remembers
    BY <1>1 DEF Remembers, Broke, Library!Broke
  <1>4. \A p : \A s \in Requests, n \in Media : At(s, p, n)' <=> At(s, p, n)
    BY <1>1 DEF At, Library!At
  <1>5. mediaCalm' => Nobody /\ Nobody'
    BY <1>1, <1>4, QuietIsNobody DEF Nobody
  <1>6. mediaCalm' => \A s \in Requests, n \in Media : ~At(s, "emptied", n)
    BY <1>5 DEF Nobody
  <1> QED BY <1>2, <1>3, <1>4, <1>5, <1>6, OwnersMove

-----------------------------------------------------------------------------
(* The library *)

\* upload, first half: the id is new, so no request knows it and no row has it.
LEMMA PutObjectKeeps ==
  ASSUME LibraryInv, NEW r \in Requests, NEW m \in Media, Library!PutObject(r, m)
  PROVE  LibraryInv'
PROOF
  <1>1. /\ m \notin used /\ used' = used \cup {m} /\ objects' = objects \cup {m}
        /\ mediaRows' = mediaRows /\ attached' = attached /\ cover' = cover
        /\ hero' = hero /\ offered' = offered /\ photo' = photo
        /\ Library!Start(r, "uploaded", m)
    BY DEF Library!PutObject, Library!owners
  <1>2. /\ RequestTypes' /\ Becomes(r, {"uploaded"}, m) /\ Remembers
        /\ \A p : \A n \in Media : ~At(r, p, n)
        /\ mediaCalm' => Nobody
    BY <1>1, Starting DEF LibraryInv
  <1>3. IdsAreUsed'
    BY <1>1, <1>2 DEF LibraryInv, IdsAreUsed, Becomes
  <1>4. KeysHold'
    BY <1>1 DEF LibraryInv, KeysHold, Library!Referred, Library!Counted
  <1>5. NoObjectIsLost'
    BY <1>1, <1>2 DEF LibraryInv, IdsAreUsed, NoObjectIsLost, Library!NoObjectIsLost, Becomes, Remembers, At, Broke
  <1>6. CalmLibrary'
    <2> SUFFICES ASSUME mediaCalm' PROVE (OneKnows /\ RowsHaveObjects /\ CoverStands)'
      BY DEF CalmLibrary
    <2>1. Nobody /\ mediaCalm /\ OneKnows /\ RowsHaveObjects /\ CoverStands
      BY <1>2 DEF LibraryInv, CalmLibrary, Remembers
    <2>2. \A p : \A s \in Requests, n \in Media : At(s, p, n)' <=> s = r /\ p = "uploaded" /\ n = m
      BY <1>2, <2>1 DEF Nobody, Becomes
    <2>3. Knows("uploaded", m)'
      BY <1>1 DEF Knows
    <2>4. OneKnows'
      BY <2>2, <2>3 DEF OneKnows
    <2>5. RowsHaveObjects'
      BY <1>1, <1>2, <2>1 DEF RowsHaveObjects, Remembers, Nobody, LibraryInv, IdsAreUsed
    <2>6. CoverStands'
      BY <1>1, <1>2, <2>1 DEF CoverStands, Remembers, Nobody
    <2> QED BY <2>4, <2>5, <2>6
  <1> QED BY <1>2, <1>3, <1>4, <1>5, <1>6 DEF LibraryInv

\* upload, second half: the object it knows of is there.
LEMMA SaveRowKeeps ==
  ASSUME LibraryInv, NEW r \in Requests, NEW m \in Media, Library!SaveRow(r, m)
  PROVE  LibraryInv'
PROOF
  <1>1. /\ At(r, "uploaded", m) /\ mediaRows' = mediaRows \cup {m}
        /\ objects' = objects /\ used' = used /\ attached' = attached /\ cover' = cover
        /\ hero' = hero /\ offered' = offered /\ photo' = photo
        /\ Library!Finish(r)
    BY DEF Library!SaveRow, Library!owners, At
  <1>2. RequestTypes' /\ Becomes(r, {}, m) /\ Remembers /\ mediaCalm' = mediaCalm
    BY <1>1, Finishing DEF LibraryInv
  <1>3. \A p : \A s \in Requests, n \in Media : At(s, p, n)' <=> s # r /\ At(s, p, n)
    BY <1>2 DEF Becomes
  <1>4. IdsAreUsed'
    BY <1>1, <1>3 DEF LibraryInv, IdsAreUsed
  <1>5. KeysHold'
    BY <1>1 DEF LibraryInv, KeysHold, Library!Referred, Library!Counted
  <1>6. NoObjectIsLost'
    <2> SUFFICES ASSUME NEW n \in objects \ mediaRows, n # m
                 PROVE  Broke(n, "uploaded")' \/ \E s \in Requests : At(s, "uploaded", n)'
      BY <1>1 DEF NoObjectIsLost, Library!NoObjectIsLost, At, Broke
    <2>1. n \in Media
      BY DEF LibraryInv, IdsAreUsed
    <2>2. Broke(n, "uploaded") \/ \E s \in Requests : At(s, "uploaded", n)
      BY DEF LibraryInv, NoObjectIsLost, Library!NoObjectIsLost, At, Broke
    <2>3. ~At(r, "uploaded", n)
      BY <1>1, OneState
    <2> QED BY <1>2, <1>3, <2>1, <2>2, <2>3 DEF Remembers
  <1>7. CalmLibrary'
    <2> SUFFICES ASSUME mediaCalm' PROVE (OneKnows /\ RowsHaveObjects /\ CoverStands)'
      BY DEF CalmLibrary
    <2>1. OneKnows /\ RowsHaveObjects /\ CoverStands
      BY <1>2 DEF LibraryInv, CalmLibrary
    <2>2. OneKnows'
      BY <1>1, <1>3, <2>1 DEF OneKnows
    <2>3. m \in objects /\ \A p : \A s \in Requests, n \in Media : At(s, p, n) => s = r /\ p = "uploaded"
      BY <1>1, <2>1, OneState DEF OneKnows, Knows
    <2>4. RowsHaveObjects'
      BY <1>1, <1>2, <2>1, <2>3 DEF RowsHaveObjects, Remembers, LibraryInv, IdsAreUsed
    <2>5. CoverStands'
      BY <1>1, <1>2, <2>1, <2>3 DEF CoverStands, Remembers
    <2> QED BY <2>2, <2>4, <2>5
  <1> QED BY <1>2, <1>4, <1>5, <1>6, <1>7 DEF LibraryInv

\* remove, the object: nothing counted refers to the medium while the removal is alone.
LEMMA DeleteObjectKeeps ==
  ASSUME LibraryInv, NEW r \in Requests, NEW m \in Media, Library!DeleteObject(r, m)
  PROVE  LibraryInv'
PROOF
  <1>1. /\ At(r, "removing", m) /\ objects' = objects \ {m}
        /\ mediaRows' = mediaRows /\ used' = used /\ attached' = attached /\ cover' = cover
        /\ hero' = hero /\ offered' = offered /\ photo' = photo
        /\ Library!Go(r, "emptied")
    BY DEF Library!DeleteObject, Library!owners, At
  <1>2. RequestTypes' /\ Becomes(r, {"emptied"}, m) /\ Remembers /\ mediaCalm' = mediaCalm
    BY <1>1, Going DEF LibraryInv
  <1>3. IdsAreUsed'
    BY <1>1, <1>2 DEF LibraryInv, IdsAreUsed, Becomes
  <1>4. KeysHold'
    BY <1>1 DEF LibraryInv, KeysHold, Library!Referred, Library!Counted
  <1>5. NoObjectIsLost'
    <2> SUFFICES ASSUME NEW n \in objects \ mediaRows, n # m
                 PROVE  Broke(n, "uploaded")' \/ \E s \in Requests : At(s, "uploaded", n)'
      BY <1>1 DEF NoObjectIsLost, Library!NoObjectIsLost, At, Broke
    <2>1. n \in Media
      BY DEF LibraryInv, IdsAreUsed
    <2>2. Broke(n, "uploaded") \/ \E s \in Requests : At(s, "uploaded", n)
      BY DEF LibraryInv, NoObjectIsLost, Library!NoObjectIsLost, At, Broke
    <2>3. ~At(r, "uploaded", n)
      BY <1>1, OneState
    <2> QED BY <1>2, <2>1, <2>2, <2>3 DEF Remembers, Becomes
  <1>6. CalmLibrary'
    <2> SUFFICES ASSUME mediaCalm' PROVE (OneKnows /\ RowsHaveObjects /\ CoverStands)'
      BY DEF CalmLibrary
    <2>1. OneKnows /\ RowsHaveObjects /\ CoverStands
      BY <1>2 DEF LibraryInv, CalmLibrary
    <2>2. \A p : \A s \in Requests, n \in Media : At(s, p, n) => s = r /\ p = "removing"
      BY <1>1, <2>1, OneState DEF OneKnows
    <2>3. \A p : \A s \in Requests, n \in Media : At(s, p, n)' <=> s = r /\ p = "emptied" /\ n = m
      BY <1>2, <2>2 DEF Becomes
    <2>4. Knows("emptied", m)'
      BY <1>1, <2>1 DEF OneKnows, Knows, Library!Counted
    <2>5. OneKnows'
      BY <2>3, <2>4 DEF OneKnows
    <2>6. RowsHaveObjects'
      BY <1>1, <1>2, <2>1, <2>2, <2>3 DEF RowsHaveObjects, Remembers, LibraryInv, IdsAreUsed
    <2>7. CoverStands'
      BY <1>1, <1>2, <2>1, <2>2 DEF CoverStands, Remembers
    <2> QED BY <2>5, <2>6, <2>7
  <1> QED BY <1>2, <1>3, <1>4, <1>5, <1>6 DEF LibraryInv

\* remove, the row: what is emptied has no object, and the keys let nothing lose its row.
LEMMA DeleteRowKeeps ==
  ASSUME LibraryInv, NEW r \in Requests, NEW m \in Media, Library!DeleteRow(r, m)
  PROVE  LibraryInv'
PROOF
  <1>1. /\ At(r, "emptied", m) /\ m \notin Library!Referred /\ mediaRows' = mediaRows \ {m}
        /\ objects' = objects /\ used' = used /\ attached' = attached /\ cover' = cover
        /\ hero' = hero /\ offered' = offered /\ photo' = photo
        /\ Library!Finish(r)
    BY DEF Library!DeleteRow, Library!owners, At
  <1>2. RequestTypes' /\ Becomes(r, {}, m) /\ Remembers /\ mediaCalm' = mediaCalm
    BY <1>1, Finishing DEF LibraryInv
  <1>3. \A p : \A s \in Requests, n \in Media : At(s, p, n)' <=> s # r /\ At(s, p, n)
    BY <1>2 DEF Becomes
  <1>4. IdsAreUsed'
    BY <1>1, <1>3 DEF LibraryInv, IdsAreUsed
  <1>5. KeysHold'
    BY <1>1 DEF LibraryInv, KeysHold, Library!Referred, Library!Counted
  <1>6. NoObjectIsLost'
    <2> SUFFICES ASSUME NEW n \in objects \ mediaRows'
                 PROVE  Broke(n, "uploaded")' \/ \E s \in Requests : At(s, "uploaded", n)'
      BY <1>1 DEF NoObjectIsLost, Library!NoObjectIsLost, At, Broke
    <2>1. n \in Media /\ n \notin mediaRows
      BY <1>1 DEF LibraryInv, IdsAreUsed
    <2>2. Broke(n, "uploaded") \/ \E s \in Requests : At(s, "uploaded", n)
      BY <2>1 DEF LibraryInv, NoObjectIsLost, Library!NoObjectIsLost, At, Broke
    <2>3. ~At(r, "uploaded", n)
      BY <1>1, OneState
    <2> QED BY <1>2, <1>3, <2>1, <2>2, <2>3 DEF Remembers
  <1>7. CalmLibrary'
    <2> SUFFICES ASSUME mediaCalm' PROVE (OneKnows /\ RowsHaveObjects /\ CoverStands)'
      BY DEF CalmLibrary
    <2>1. OneKnows /\ RowsHaveObjects /\ CoverStands
      BY <1>2 DEF LibraryInv, CalmLibrary
    <2>2. \A p : \A s \in Requests, n \in Media : At(s, p, n) => s = r /\ p = "emptied" /\ n = m
      BY <1>1, <2>1, OneState DEF OneKnows
    <2>3. OneKnows'
      BY <1>3, <2>2 DEF OneKnows
    <2>4. RowsHaveObjects'
      BY <1>1, <1>2, <2>1, <2>2 DEF RowsHaveObjects, Remembers, LibraryInv, IdsAreUsed
    <2>5. CoverStands'
      BY <1>1, <1>2, <2>1, <2>2 DEF CoverStands, Remembers
    <2> QED BY <2>3, <2>4, <2>5
  <1> QED BY <1>2, <1>4, <1>5, <1>6, <1>7 DEF LibraryInv

-----------------------------------------------------------------------------
(* What refers to media *)

\* A request ends half way: what it leaves is remembered while a property may need it.
LEMMA AbortKeeps ==
  ASSUME LibraryInv, NEW r \in Requests, Library!Abort(r)
  PROVE  LibraryInv'
PROOF
  <1>1. /\ mediaRequests[r] # Library!Idle
        /\ mediaRequests' = [mediaRequests EXCEPT ![r] = Library!Idle]
        /\ mediaRows' = mediaRows /\ objects' = objects /\ used' = used
        /\ attached' = attached /\ cover' = cover
        /\ hero' = hero /\ offered' = offered /\ photo' = photo
        /\ mediaCalm' = mediaCalm
        /\ Library!Remember(broken \cup {q \in {mediaRequests[r]} : q.pc \in Library!HalfWay})
    BY DEF Library!Abort, Library!library, Library!owners
  <1>2. PICK pc : \E m \in Media : At(r, pc, m)
    BY <1>1 DEF LibraryInv, RequestTypes
  <1>3. PICK m \in Media : At(r, pc, m)
    BY <1>2
  <1>4. RequestTypes' /\ Becomes(r, {}, m)
    BY <1>1, Leaving DEF LibraryInv
  <1>5. \A p : \A s \in Requests, n \in Media : At(s, p, n)' <=> s # r /\ At(s, p, n)
    BY <1>4 DEF Becomes
  <1>6. Remembers
    BY <1>1 DEF Remembers, Broke, Library!Broke, Library!Remember
  <1>7. pc \in {"uploaded", "emptied", "detached"} /\ (mediaCalm \/ pc = "uploaded") => Broke(m, pc)'
    BY <1>1, <1>3 DEF Broke, Library!Broke, Library!Remember, Library!HalfWay, At, Library!At
  <1>8. IdsAreUsed'
    BY <1>1, <1>5 DEF LibraryInv, IdsAreUsed
  <1>9. KeysHold'
    BY <1>1 DEF LibraryInv, KeysHold, Library!Referred, Library!Counted
  <1>10. NoObjectIsLost'
    <2> SUFFICES ASSUME NEW n \in objects \ mediaRows
                 PROVE  Broke(n, "uploaded")' \/ \E s \in Requests : At(s, "uploaded", n)'
      BY <1>1 DEF NoObjectIsLost, Library!NoObjectIsLost, At, Broke
    <2>1. n \in Media
      BY DEF LibraryInv, IdsAreUsed
    <2>2. Broke(n, "uploaded") \/ \E s \in Requests : At(s, "uploaded", n)
      BY DEF LibraryInv, NoObjectIsLost, Library!NoObjectIsLost, At, Broke
    <2>3. At(r, "uploaded", n) => n = m /\ pc = "uploaded"
      BY <1>3, OneState
    <2> QED BY <1>5, <1>6, <1>7, <2>1, <2>2, <2>3 DEF Remembers
  <1>11. CalmLibrary'
    <2> SUFFICES ASSUME mediaCalm' PROVE (OneKnows /\ RowsHaveObjects /\ CoverStands)'
      BY DEF CalmLibrary
    <2>1. mediaCalm /\ OneKnows /\ RowsHaveObjects /\ CoverStands
      BY <1>1 DEF LibraryInv, CalmLibrary
    <2>2. \A p : \A s \in Requests, n \in Media : At(s, p, n) => s = r /\ p = pc /\ n = m
      BY <1>3, <2>1, OneState DEF OneKnows
    <2>3. OneKnows'
      BY <1>5, <2>2 DEF OneKnows
    <2>4. RowsHaveObjects'
      BY <1>1, <1>6, <1>7, <2>1, <2>2 DEF RowsHaveObjects, Remembers, LibraryInv, IdsAreUsed
    <2>5. CoverStands'
      BY <1>1, <1>6, <1>7, <2>1, <2>2 DEF CoverStands, Remembers
    <2> QED BY <2>3, <2>4, <2>5
  <1> QED BY <1>4, <1>8, <1>9, <1>10, <1>11 DEF LibraryInv

\* detachMedia: the cover goes with its attachment, in a step of its own.
LEMMA DetachKeeps ==
  ASSUME LibraryInv, NEW r \in Requests, NEW m \in Media, Library!Detach(r, m)
  PROVE  LibraryInv'
PROOF
  <1>1. /\ attached' = attached \ {m}
        /\ mediaRows' = mediaRows /\ objects' = objects /\ used' = used
        /\ cover' = cover /\ hero' = hero /\ offered' = offered /\ photo' = photo
        /\ UNCHANGED Library!library
    BY DEF Library!Detach, Library!library
  <1>2. Library!Referred' \ {None} \subseteq mediaRows
    BY <1>1 DEF LibraryInv, KeysHold, Library!Referred, Library!Counted
  <1>3. CASE At(r, "detaching", m)
    <2>1. Library!Finish(r)
      BY <1>3 DEF Library!Detach, At, Library!At
    <2>2. mediaCalm /\ OneKnows /\ CoverStands => CoverStands'
      <3> SUFFICES ASSUME mediaCalm, OneKnows, CoverStands, cover # None PROVE CoverStands'
        BY <1>1 DEF CoverStands
      <3>1. cover # m
        BY <1>3 DEF OneKnows, Knows
      <3>2. \A s \in Requests, n \in Media : ~At(s, "detached", n)
        BY <1>3, OneState DEF OneKnows
      <3>3. RequestTypes' /\ Remembers /\ mediaCalm' = mediaCalm
        BY <2>1, Finishing DEF LibraryInv
      <3> QED BY <1>1, <3>1, <3>2, <3>3 DEF CoverStands, Remembers
    <2> QED BY <1>1, <1>2, <1>3, <2>1, <2>2, FinishKeeps
  <1>4. CASE At(r, "uncovering", m)
    <2>1. Library!Go(r, "detached")
      BY <1>4 DEF Library!Detach, At, Library!At
    <2>2. RequestTypes' /\ Becomes(r, {"detached"}, m) /\ Remembers /\ mediaCalm' = mediaCalm
      BY <1>4, <2>1, Going DEF LibraryInv
    <2>3. IdsAreUsed'
      BY <1>1, <1>4, <2>2 DEF LibraryInv, IdsAreUsed, Becomes
    <2>4. KeysHold'
      BY <1>1, <1>2 DEF KeysHold
    <2>5. NoObjectIsLost'
      <3> SUFFICES ASSUME NEW n \in objects \ mediaRows
                   PROVE  Broke(n, "uploaded")' \/ \E s \in Requests : At(s, "uploaded", n)'
        BY <1>1 DEF NoObjectIsLost, Library!NoObjectIsLost, At, Broke
      <3>1. n \in Media
        BY DEF LibraryInv, IdsAreUsed
      <3>2. Broke(n, "uploaded") \/ \E s \in Requests : At(s, "uploaded", n)
        BY DEF LibraryInv, NoObjectIsLost, Library!NoObjectIsLost, At, Broke
      <3>3. ~At(r, "uploaded", n)
        BY <1>4, OneState
      <3> QED BY <2>2, <3>1, <3>2, <3>3 DEF Remembers, Becomes
    <2>6. CalmLibrary'
      <3> SUFFICES ASSUME mediaCalm' PROVE (OneKnows /\ RowsHaveObjects /\ CoverStands)'
        BY DEF CalmLibrary
      <3>1. OneKnows /\ RowsHaveObjects /\ CoverStands
        BY <2>2 DEF LibraryInv, CalmLibrary
      <3>2. \A p : \A s \in Requests, n \in Media : At(s, p, n) => s = r /\ p = "uncovering"
        BY <1>4, <3>1, OneState DEF OneKnows
      <3>3. \A p : \A s \in Requests, n \in Media : At(s, p, n)' <=> s = r /\ p = "detached" /\ n = m
        BY <2>2, <3>2 DEF Becomes
      <3>4. OneKnows'
        BY <3>3 DEF OneKnows, Knows
      <3>5. RowsHaveObjects'
        BY <1>1, <2>2, <3>1, <3>2 DEF RowsHaveObjects, Remembers, LibraryInv, IdsAreUsed
      <3>6. CoverStands'
        BY <1>1, <2>2, <3>1, <3>2, <3>3 DEF CoverStands, Remembers
      <3> QED BY <3>4, <3>5, <3>6
    <2> QED BY <2>2, <2>3, <2>4, <2>5, <2>6 DEF LibraryInv
  <1> QED BY <1>3, <1>4 DEF Library!Detach, At

\* While a request that keeps attachments and cover is alone, the cover stands.
LEMMA CoverKept ==
  ASSUME NEW r \in Requests, NEW pc, pc # "detached", NEW m \in Media,
         LibraryInv, At(r, pc, m), Library!Finish(r), attached \subseteq attached', cover' = cover
  PROVE  mediaCalm /\ OneKnows /\ CoverStands => CoverStands'
PROOF
  <1> SUFFICES ASSUME mediaCalm, OneKnows, CoverStands, cover # None PROVE CoverStands'
    BY DEF CoverStands
  <1>1. \A s \in Requests, n \in Media : ~At(s, "detached", n)
    BY OneState DEF OneKnows
  <1>2. Remembers /\ mediaCalm' = mediaCalm
    BY Finishing DEF LibraryInv
  <1> QED BY <1>1, <1>2 DEF CoverStands, Remembers

\* A tour's attachments and its cover.
LEMMA TourStepKeeps ==
  ASSUME LibraryInv, NEW r \in Requests, NEW m \in Media, Library!TourStep(r, m)
  PROVE  LibraryInv'
PROOF
  <1> USE DEF Library!library, Library!owners
  <1>1. KeysHold /\ mediaRows \subseteq used /\ None \notin Media
    BY BackofficeAssumption DEF LibraryInv, IdsAreUsed, Library!MediaAssumption
  <1>2. m \in attached => m \in used
    BY <1>1 DEF KeysHold, Library!Referred, Library!Counted
  <1>3. CASE Library!StartAttach(r, m)
    BY <1>1, <1>3, StartKeeps DEF Library!StartAttach, Library!CanAttach, Knows
  <1>4. CASE Library!Attach(r, m)
    <2>1. /\ At(r, "attaching", m) /\ m \in mediaRows /\ attached' = attached \cup {m}
          /\ Library!Finish(r) /\ UNCHANGED <<Library!library, cover, hero, offered, photo>>
      BY <1>4 DEF Library!Attach, Library!CanAttach, At
    <2>2. Library!Referred' \ {None} \subseteq mediaRows
      BY <1>1, <2>1 DEF KeysHold, Library!Referred, Library!Counted
    <2> QED BY <2>1, <2>2, CoverKept, FinishKeeps
  <1>5. CASE Library!StartArrange(r, m)
    BY <1>2, <1>5, StartKeeps DEF Library!StartArrange, Knows
  <1>6. CASE Library!Arrange(r, m)
    <2>1. /\ At(r, "arranging", m) /\ m \in mediaRows /\ attached' = attached \cup {m}
          /\ Library!Finish(r) /\ UNCHANGED <<Library!library, cover, hero, offered, photo>>
      BY <1>6 DEF Library!Arrange, At
    <2>2. Library!Referred' \ {None} \subseteq mediaRows
      BY <1>1, <2>1 DEF KeysHold, Library!Referred, Library!Counted
    <2> QED BY <2>1, <2>2, CoverKept, FinishKeeps
  <1>7. CASE Library!StartDetach(r, m)
    <2>1. CASE cover = m
      BY <1>2, <1>7, <2>1, StartKeeps DEF Library!StartDetach, Knows
    <2>2. CASE cover # m
      BY <1>2, <1>7, <2>2, StartKeeps DEF Library!StartDetach, Knows
    <2> QED BY <2>1, <2>2
  <1>8. CASE Library!Detach(r, m)
    BY <1>8, DetachKeeps
  <1>9. CASE Library!Uncover(r, m)
    <2>1. /\ At(r, "detached", m) /\ cover' = None
          /\ Library!Finish(r) /\ UNCHANGED <<Library!library, attached, hero, offered, photo>>
      BY <1>9 DEF Library!Uncover, At
    <2>2. Library!Referred' \ {None} \subseteq mediaRows
      BY <1>1, <2>1 DEF KeysHold, Library!Referred, Library!Counted
    <2> QED BY <2>1, <2>2, FinishKeeps DEF CoverStands
  <1>10. CASE Library!StartCover(r, m)
    BY <1>2, <1>10, StartKeeps DEF Library!StartCover, Knows
  <1>11. CASE Library!Cover(r, m)
    <2>1. /\ At(r, "covering", m) /\ m \in mediaRows /\ cover' = m
          /\ Library!Finish(r) /\ UNCHANGED <<Library!library, attached, hero, offered, photo>>
      BY <1>11 DEF Library!Cover, At
    <2>2. Library!Referred' \ {None} \subseteq mediaRows
      BY <1>1, <2>1 DEF KeysHold, Library!Referred, Library!Counted
    <2>3. mediaCalm /\ OneKnows /\ CoverStands => CoverStands'
      BY <2>1 DEF CoverStands, OneKnows, Knows
    <2> QED BY <2>1, <2>2, <2>3, FinishKeeps
  <1> QED BY <1>3, <1>4, <1>5, <1>6, <1>7, <1>8, <1>9, <1>10, <1>11 DEF Library!TourStep

\* A post's hero image.
LEMMA HeroStepKeeps ==
  ASSUME LibraryInv, NEW r \in Requests, NEW m \in Media, Library!HeroStep(r, m)
  PROVE  LibraryInv'
PROOF
  <1> USE DEF Library!library, Library!owners
  <1>1. KeysHold /\ mediaRows \subseteq used
    BY DEF LibraryInv, IdsAreUsed
  <1>2. CASE Library!StartHero(r, m)
    BY <1>1, <1>2, StartKeeps DEF Library!StartHero, Knows
  <1>3. CASE Library!Hero(r, m)
    <2>1. /\ At(r, "heading", m) /\ m \in mediaRows /\ hero' = m
          /\ Library!Finish(r) /\ UNCHANGED <<Library!library, attached, cover, offered, photo>>
      BY <1>3 DEF Library!Hero, At
    <2>2. Library!Referred' \ {None} \subseteq mediaRows
      BY <1>1, <2>1 DEF KeysHold, Library!Referred, Library!Counted
    <2> QED BY <2>1, <2>2, CoverKept, FinishKeeps
  <1> QED BY <1>2, <1>3 DEF Library!HeroStep

\* A proposal's images.
LEMMA OfferStepKeeps ==
  ASSUME LibraryInv, NEW r \in Requests, NEW m \in Media, Library!OfferStep(r, m)
  PROVE  LibraryInv'
PROOF
  <1> USE DEF Library!library, Library!owners
  <1>1. KeysHold /\ mediaRows \subseteq used /\ None \notin Media
    BY BackofficeAssumption DEF LibraryInv, IdsAreUsed, Library!MediaAssumption
  <1>2. m \in offered => m \in used
    BY <1>1 DEF KeysHold, Library!Referred
  <1>3. CASE Library!StartOffer(r, m)
    BY <1>1, <1>3, StartKeeps DEF Library!StartOffer, Library!CanOffer, Knows
  <1>4. CASE Library!Offer(r, m)
    <2>1. /\ At(r, "offering", m) /\ m \in mediaRows /\ offered' = offered \cup {m}
          /\ Library!Finish(r) /\ UNCHANGED <<Library!library, attached, cover, hero, photo>>
      BY <1>4 DEF Library!Offer, Library!CanOffer, At
    <2>2. Library!Referred' \ {None} \subseteq mediaRows
      BY <1>1, <2>1 DEF KeysHold, Library!Referred, Library!Counted
    <2> QED BY <2>1, <2>2, CoverKept, FinishKeeps
  <1>5. CASE Library!StartReorder(r, m)
    BY <1>2, <1>5, StartKeeps DEF Library!StartReorder, Knows
  <1>6. CASE Library!Reorder(r, m)
    <2>1. /\ At(r, "reordering", m) /\ m \in mediaRows /\ offered' = offered \cup {m}
          /\ Library!Finish(r) /\ UNCHANGED <<Library!library, attached, cover, hero, photo>>
      BY <1>6 DEF Library!Reorder, At
    <2>2. Library!Referred' \ {None} \subseteq mediaRows
      BY <1>1, <2>1 DEF KeysHold, Library!Referred, Library!Counted
    <2> QED BY <2>1, <2>2, CoverKept, FinishKeeps
  <1> QED BY <1>3, <1>4, <1>5, <1>6 DEF Library!OfferStep

\* A team member's photo.
LEMMA PhotoStepKeeps ==
  ASSUME LibraryInv, NEW r \in Requests, NEW m \in Media, Library!PhotoStep(r, m)
  PROVE  LibraryInv'
PROOF
  <1> USE DEF Library!library, Library!owners
  <1>1. KeysHold /\ mediaRows \subseteq used
    BY DEF LibraryInv, IdsAreUsed
  <1>2. CASE Library!StartPhoto(r, m)
    BY <1>1, <1>2, StartKeeps DEF Library!StartPhoto, Knows
  <1>3. CASE Library!Photo(r, m)
    <2>1. /\ At(r, "posing", m) /\ m \in mediaRows /\ photo' = m
          /\ Library!Finish(r) /\ UNCHANGED <<Library!library, attached, cover, hero, offered>>
      BY <1>3 DEF Library!Photo, At
    <2>2. Library!Referred' \ {None} \subseteq mediaRows
      BY <1>1, <2>1 DEF KeysHold, Library!Referred, Library!Counted
    <2> QED BY <2>1, <2>2, CoverKept, FinishKeeps
  <1> QED BY <1>2, <1>3 DEF Library!PhotoStep

\* The requests of one step take a reference away.
LEMMA TakingAwayKeeps ==
  ASSUME LibraryInv,
         Library!ClearCover \/ Library!ClearHero \/ \E m \in Media : Library!Withdraw(m)
  PROVE  LibraryInv'
PROOF
  <1> USE DEF Library!library
  <1>1. KeysHold
    BY DEF LibraryInv
  <1>2. CASE Library!ClearCover
    <2>1. Library!Referred' \ {None} \subseteq mediaRows
      BY <1>1, <1>2 DEF Library!ClearCover, KeysHold, Library!Referred, Library!Counted
    <2>2. CoverStands'
      BY <1>2 DEF Library!ClearCover, CoverStands
    <2> QED BY <1>2, <2>1, <2>2, AtOnceKeeps DEF Library!ClearCover
  <1>3. ASSUME cover' = cover, attached' = attached, Library!AtOnce
        PROVE  mediaCalm' /\ OneKnows /\ CoverStands => CoverStands'
    <2> SUFFICES ASSUME mediaCalm', OneKnows, CoverStands PROVE CoverStands'
      OBVIOUS
    <2>1. \A n : Broke(n, "detached") => Broke(n, "detached")'
      BY <1>3 DEF Library!AtOnce, Library!Remember, Broke, Library!Broke
    <2>2. \A r, n : At(r, "detached", n) => At(r, "detached", n)'
      BY <1>3 DEF Library!AtOnce, At, Library!At
    <2> QED BY <1>3, <2>1, <2>2 DEF CoverStands
  <1>4. CASE Library!ClearHero
    <2>1. Library!Referred' \ {None} \subseteq mediaRows
      BY <1>1, <1>4 DEF Library!ClearHero, KeysHold, Library!Referred, Library!Counted
    <2> QED BY <1>3, <1>4, <2>1, AtOnceKeeps DEF Library!ClearHero
  <1>5. ASSUME NEW m \in Media, Library!Withdraw(m) PROVE LibraryInv'
    <2>1. Library!Referred' \ {None} \subseteq mediaRows
      BY <1>1, <1>5 DEF Library!Withdraw, KeysHold, Library!Referred, Library!Counted
    <2> QED BY <1>3, <1>5, <2>1, AtOnceKeeps DEF Library!Withdraw
  <1> QED BY <1>2, <1>4, <1>5

\* Every step of the library keeps the invariant.
LEMMA LibraryInvStep == LibraryInv /\ [Library!Next]_libraryVars => LibraryInv'
PROOF
  <1> SUFFICES ASSUME LibraryInv, [Library!Next]_libraryVars PROVE LibraryInv'
    OBVIOUS
  <1>1. ASSUME NEW r \in Requests, NEW m \in Media, Library!LibraryStep(r, m) PROVE LibraryInv'
    <2>1. CASE Library!StartRemove(r, m)
      <3>1. m \in used
        BY <2>1 DEF Library!StartRemove, LibraryInv, IdsAreUsed
      <3>2. Knows("removing", m)
        BY <2>1 DEF Library!StartRemove, Knows
      <3> QED BY <2>1, <3>1, <3>2, StartKeeps DEF Library!StartRemove
    <2> QED BY <1>1, <2>1, PutObjectKeeps, SaveRowKeeps, DeleteObjectKeeps, DeleteRowKeeps
            DEF Library!LibraryStep
  <1>2. CASE UNCHANGED libraryVars
    BY <1>2 DEF libraryVars, LibraryInv, RequestTypes, IdsAreUsed, KeysHold, NoObjectIsLost,
       Library!NoObjectIsLost, CalmLibrary, OneKnows, Knows, RowsHaveObjects, CoverStands,
       At, Library!At, Broke, Library!Broke, Library!Referred, Library!Counted
  <1> QED BY <1>1, <1>2, TourStepKeeps, HeroStepKeeps, OfferStepKeeps, PhotoStepKeeps,
             TakingAwayKeeps, AbortKeeps DEF Library!Next

-----------------------------------------------------------------------------
(* What holds *)

\* A behaviour of the back office is one of the library, which may rest.
LEMMA LibraryStep == [Next]_vars => [Library!Next]_libraryVars
  BY DEF Next, vars

\* The library begins empty.
LEMMA LibraryInit == Init => LibraryInv
PROOF
  <1> SUFFICES ASSUME Library!Init PROVE LibraryInv
    BY DEF Init
  <1>1. \A r \in Requests : mediaRequests[r] = Library!Idle
    BY DEF Library!Init
  <1>2. \A r \in Requests, m \in Media : \A pc : ~At(r, pc, m)
    BY <1>1 DEF At, Library!At, Library!Idle
  <1>3. RequestTypes
    BY <1>1 DEF Library!Init, RequestTypes
  <1> QED BY <1>2, <1>3 DEF Library!Init, LibraryInv, IdsAreUsed, KeysHold, Library!Referred,
             Library!Counted, NoObjectIsLost, Library!NoObjectIsLost, CalmLibrary, OneKnows,
             RowsHaveObjects, CoverStands

\* The inductive invariant of the library.
THEOREM LibraryInOrder == Spec => []LibraryInv
PROOF
  <1>1. LibraryInv /\ [Next]_vars => LibraryInv'
    BY LibraryStep, LibraryInvStep
  <1> QED BY LibraryInit, <1>1, PTL DEF Spec

\* Whatever meets or fails, an object that has no row is of an upload in progress or of one that
\* ended before its row was saved: a removal leaves none behind.
THEOREM ObjectsAreFound == Spec => []NoObjectIsLost
PROOF
  <1>1. LibraryInv => NoObjectIsLost
    BY DEF LibraryInv
  <1> QED BY LibraryInOrder, <1>1, PTL

\* Where requests do not meet, what tours and posts show has a row and an object, unless a removal
\* once ended between the two.
THEOREM ShownStaysWhole == Spec => []ShownHasContent
PROOF
  <1>1. LibraryInv => ShownHasContent
    <2> SUFFICES ASSUME LibraryInv, mediaCalm, NEW m \in (attached \cup {cover, hero}) \ {None}
                 PROVE  Library!HasContent(m) \/ Broke(m, "emptied")
      BY DEF ShownHasContent, Library!ShownHasContent, Broke
    <2>1. m \in mediaRows /\ m \in Media /\ m \in Library!Counted
      BY DEF LibraryInv, KeysHold, IdsAreUsed, Library!Referred, Library!Counted
    <2>2. \A r \in Requests : ~At(r, "emptied", m)
      BY <2>1 DEF LibraryInv, CalmLibrary, OneKnows, Knows
    <2> QED BY <2>1, <2>2 DEF LibraryInv, CalmLibrary, RowsHaveObjects, Library!HasContent
  <1> QED BY LibraryInOrder, <1>1, PTL

\* There, between requests, a tour's cover is an image attached to it, unless a detachment once
\* ended before it took the cover away.
THEOREM CoversStayAttached == Spec => []CoverIsAttached
PROOF
  <1>1. LibraryInv => CoverIsAttached
    <2> SUFFICES ASSUME LibraryInv, mediaCalm, Library!Quiet, cover # None
                 PROVE  cover \notin Videos /\ (cover \in attached \/ Broke(cover, "detached"))
      BY DEF CoverIsAttached, Library!CoverIsAttached, Broke
    <2> QED BY QuietIsNobody DEF LibraryInv, CalmLibrary, CoverStands, Nobody
  <1> QED BY LibraryInOrder, <1>1, PTL

(***************************************************************************)
(* Tags.  A label is a set of locales, so that only a removal writes the   *)
(* mark of a row that is gone.                                             *)
(***************************************************************************)

\* Rows are labelled in locales, requests save such labels, and each table has its rows.
TagsInv ==
  /\ languages \subseteq Codes
  /\ labels \in [Keys -> (SUBSET Codes) \cup {NoRow}]
  /\ carried = [c \in Tagging!Carriers |-> carried[c]]
  /\ tagRequests = [r \in Requests |-> tagRequests[r]]
  /\ \A r \in Requests : tagRequests[r].pc = "saving" => tagRequests[r].labels \in SUBSET Codes

\* Every step of the tags keeps the invariant.
LEMMA TagsInvStep == TagsInv /\ [Tagging!Next]_tagVars => TagsInv'
PROOF
  <1> SUFFICES ASSUME TagsInv, [Tagging!Next]_tagVars PROVE TagsInv'
    OBVIOUS
  <1> USE DEF TagsInv, tagVars
  <1>1. ASSUME NEW l \in Codes, Tagging!Register(l) PROVE TagsInv'
    BY <1>1 DEF Tagging!Register
  <1>2. ASSUME NEW r \in Requests, NEW q, Tagging!Start(r, q),
               q.pc = "saving" => q.labels \in SUBSET Codes,
               UNCHANGED <<languages, labels, carried>>
        PROVE  TagsInv'
    BY <1>2 DEF Tagging!Start
  <1>3. ASSUME NEW r \in Requests, NEW k \in Keys, Tagging!TagStep(r, k) PROVE TagsInv'
    <2>1. ASSUME NEW ls \in SUBSET Codes, Tagging!StartCreate(r, k, ls) PROVE TagsInv'
      BY <1>2, <2>1 DEF Tagging!StartCreate
    <2>2. ASSUME NEW ls \in SUBSET Codes, Tagging!StartUpdate(r, k, ls) PROVE TagsInv'
      BY <1>2, <2>2 DEF Tagging!StartUpdate
    <2>3. CASE Tagging!StartRemove(r, k)
      BY <1>2, <2>3 DEF Tagging!StartRemove
    <2> QED BY <1>3, <2>1, <2>2, <2>3 DEF Tagging!TagStep
  <1>4. ASSUME NEW r \in Requests, NEW c \in Tagging!Carriers, NEW ks \in SUBSET Keys,
               Tagging!StartCarry(r, c, ks)
        PROVE  TagsInv'
    BY <1>2, <1>4 DEF Tagging!StartCarry
  <1>5. ASSUME NEW r \in Requests, Tagging!Finish(r)
        PROVE  /\ tagRequests' = [s \in Requests |-> tagRequests'[s]]
               /\ \A s \in Requests :
                    tagRequests'[s].pc = "saving" => tagRequests'[s].labels \in SUBSET Codes
    BY <1>5 DEF Tagging!Finish, Tagging!Idle
  <1>6. ASSUME NEW r \in Requests, Tagging!Continue(r) PROVE TagsInv'
    <2>1. CASE Tagging!SaveTag(r)
      BY <1>5, <2>1 DEF Tagging!SaveTag
    <2>2. ASSUME NEW c, NEW then, then # "saving", Tagging!Clear(r, c, then) PROVE TagsInv'
      BY <2>2 DEF Tagging!Clear, Tagging!Cleared
    <2>3. CASE Tagging!ClearTours(r) \/ Tagging!ClearPosts(r)
      BY <2>2, <2>3 DEF Tagging!ClearTours, Tagging!ClearPosts
    <2>4. CASE Tagging!Remove(r)
      <3>1. PICK k : labels' = [labels EXCEPT ![k] = NoRow]
        BY <2>4 DEF Tagging!Remove
      <3>2. PICK k2 : carried' = [c \in Tagging!Carriers |-> carried[c] \ {k2}]
        BY <2>4 DEF Tagging!Remove
      <3>3. carried' = [c \in Tagging!Carriers |-> carried'[c]]
        BY <3>2
      <3>4. languages' = languages /\ Tagging!Finish(r)
        BY <2>4 DEF Tagging!Remove
      <3>5. labels' \in [Keys -> (SUBSET Codes) \cup {NoRow}]
        BY <3>1
      <3> QED BY <1>5, <3>3, <3>4, <3>5, Zenon
    <2>5. CASE Tagging!Carry(r)
      BY <1>5, <2>5 DEF Tagging!Carry
    <2>6. CASE Tagging!Abort(r)
      BY <1>5, <2>6 DEF Tagging!Abort
    <2> QED BY <1>6, <2>1, <2>3, <2>4, <2>5, <2>6 DEF Tagging!Continue
  <1>7. CASE UNCHANGED tagVars
    BY <1>7
  <1> QED BY <1>1, <1>3, <1>4, <1>6, <1>7 DEF Tagging!Next

\* A behaviour of the back office is one of the tags, which may rest.
LEMMA TagsStep == [Next]_vars => [Tagging!Next]_tagVars
  BY DEF Next, vars, tagVars

\* The inductive invariant of the tags.
THEOREM TagsInOrder == Spec => []TagsInv
PROOF
  <1>1. Init => TagsInv
    <2> SUFFICES ASSUME Tagging!Init PROVE TagsInv
      BY DEF Init
    <2>1. carried = [c \in Tagging!Carriers |-> carried[c]]
      BY DEF Tagging!Init
    <2>2. \A r \in Requests : tagRequests[r].pc # "saving"
      BY DEF Tagging!Init, Tagging!Idle
    <2>3. languages \subseteq Codes
      BY BackofficeAssumption DEF Tagging!Init, Tagging!TagsAssumption
    <2>4. labels \in [Keys -> (SUBSET Codes) \cup {NoRow}]
      BY DEF Tagging!Init
    <2>5. tagRequests = [r \in Requests |-> tagRequests[r]]
      BY DEF Tagging!Init
    <2> QED BY <2>1, <2>2, <2>3, <2>4, <2>5, Zenon DEF TagsInv
  <1>2. TagsInv /\ [Next]_vars => TagsInv'
    BY TagsStep, TagsInvStep
  <1> QED BY <1>1, <1>2, PTL DEF Spec

\* A tag goes from every tour and every post together with its row, and a carrier loses one that
\* stays only by a save of its own, whatever is read, cleared or refused in between.
THEOREM RemovalsAreWhole == Spec => RemovalIsWhole
PROOF
  <1> DEFINE Whole == \A k \in Keys, c \in Tagging!Carriers :
               /\ Tagging!Exists(k) /\ labels'[k] = NoRow => k \notin carried'[c]
               /\ k \in carried[c] \ carried'[c] => labels'[k] = NoRow \/ Tagging!SavesOwn(c)
  <1>1. TagsInv /\ [Tagging!Next]_tagVars => Whole
    <2> SUFFICES ASSUME TagsInv, [Tagging!Next]_tagVars,
                        NEW k \in Keys, NEW c \in Tagging!Carriers
                 PROVE  /\ Tagging!Exists(k) /\ labels'[k] = NoRow => k \notin carried'[c]
                        /\ k \in carried[c] \ carried'[c] => labels'[k] = NoRow \/ Tagging!SavesOwn(c)
      OBVIOUS
    <2> USE DEF TagsInv, tagVars, Tagging!Exists
    <2>1. ASSUME UNCHANGED <<labels, carried>>
          PROVE  ~(Tagging!Exists(k) /\ labels'[k] = NoRow) /\ k \notin carried[c] \ carried'[c]
      BY <2>1
    <2>2. ASSUME NEW r \in Requests, Tagging!SaveTag(r)
          PROVE  ~(Tagging!Exists(k) /\ labels'[k] = NoRow) /\ k \notin carried[c] \ carried'[c]
      <3>1. tagRequests[r].labels # NoRow
        BY <2>2, BackofficeAssumption DEF Tagging!SaveTag, Tagging!TagsAssumption
      <3> QED BY <2>2, <3>1 DEF Tagging!SaveTag
    <2>3. ASSUME NEW r \in Requests, Tagging!Remove(r)
          PROVE  /\ Tagging!Exists(k) /\ labels'[k] = NoRow => k \notin carried'[c]
                 /\ k \in carried[c] \ carried'[c] => labels'[k] = NoRow
      BY <2>3 DEF Tagging!Remove
    <2>4. ASSUME NEW r \in Requests, Tagging!Carry(r)
          PROVE  /\ ~(Tagging!Exists(k) /\ labels'[k] = NoRow)
                 /\ k \in carried[c] \ carried'[c] => Tagging!SavesOwn(c)
      <3>1. tagRequests'[r] = Tagging!Idle
        BY <2>4 DEF Tagging!Carry, Tagging!Finish
      <3> QED BY <2>4, <3>1 DEF Tagging!Carry, Tagging!SavesOwn
    <2> QED BY <2>1, <2>2, <2>3, <2>4 DEF Tagging!Next, Tagging!Register, Tagging!TagStep,
            Tagging!StartCreate, Tagging!StartUpdate, Tagging!StartRemove, Tagging!StartCarry,
            Tagging!Continue, Tagging!ClearTours, Tagging!ClearPosts, Tagging!Clear, Tagging!Abort
  <1>2. TagsInv /\ [Next]_vars => [Whole]_(Tagging!vars)
    BY <1>1, TagsStep
  <1>3. RemovalIsWhole <=> [][Whole]_(Tagging!vars)
    BY PTL DEF RemovalIsWhole, Tagging!RemovalIsWhole
  <1> QED BY TagsInOrder, <1>2, <1>3, PTL DEF Spec

(***************************************************************************)
(* The booking widget.  What an update copied passed the validation; while *)
(* it is alone, the columns it writes turn the row into that copy.         *)
(***************************************************************************)

WidgetTyped(w) == w.provider \in Widget!Providers \cup {Null} /\ w.enabled \in BOOLEAN

Acceptable(w) == Widget!IsAcceptable(w, w)

\* What an update in flight carries is of the types of the columns.
CarriesTyped(q) ==
  /\ q.pc = "compare" => WidgetTyped(q.copy)
  /\ q.pc = "write" =>
       /\ "provider" \in DOMAIN q.columns => q.columns.provider \in Widget!Providers \cup {Null}
       /\ "enabled" \in DOMAIN q.columns => q.columns.enabled \in BOOLEAN

\* What it makes of the row passed the validation.
CarriesSound(q) ==
  /\ q.pc = "compare" => Acceptable(q.copy)
  /\ q.pc = "write" => Acceptable(Widget!Overlay(q.columns))

WidgetTypes ==
  /\ WidgetTyped(widget) /\ (widget.enabled => widget.provider # Null)
  /\ products \in [Languages -> Widget!ProductIds \cup {NoRow}]
  /\ widgetRequests = [r \in Requests |-> widgetRequests[r]]
  /\ \A r \in Requests : CarriesTyped(widgetRequests[r])

CalmWidget ==
  widgetCalm =>
    /\ Acceptable(widget)
    /\ \A r, s \in Requests :
         widgetRequests[r] # Widget!Idle /\ widgetRequests[s] # Widget!Idle => r = s
    /\ \A r \in Requests : CarriesSound(widgetRequests[r])

WidgetInv == WidgetTypes /\ CalmWidget

\* The row without a widget passes the validation.
LEMMA NoWidgetAcceptable == WidgetTyped(Widget!NoWidget) /\ Acceptable(Widget!NoWidget)
  BY DEF WidgetTyped, Acceptable, Widget!NoWidget, Widget!NoSettings, Widget!IsAcceptable, Widget!Range

\* What a request makes of the widget is of the types of the columns.
LEMMA ResolvedTyped ==
  ASSUME NEW sent \in Sent, WidgetTyped(widget)
  PROVE  WidgetTyped(Widget!Resolved(sent, widget))
PROOF
  <1> DEFINE dto == Widget!Received(sent)
             provider == IF "provider" \in DOMAIN dto THEN Widget!Or(dto.provider, Null) ELSE widget.provider
             enabled == Widget!Or(dto.enabled, widget.enabled)
  <1>1. /\ "provider" \in DOMAIN sent => sent.provider \in Widget!Providers \cup {Null}
        /\ "enabled" \in DOMAIN sent => sent.enabled \in BOOLEAN \cup {Null}
    BY BackofficeAssumption DEF Widget!WidgetAssumption
  <1>2. /\ dto.provider = (IF "provider" \in DOMAIN sent THEN sent.provider ELSE Undefined)
        /\ dto.enabled = (IF "enabled" \in DOMAIN sent THEN sent.enabled ELSE Undefined)
    BY DEF Widget!Received, Widget!Fields
  <1>3. provider \in Widget!Providers \cup {Null}
    BY <1>1, <1>2 DEF WidgetTyped, Widget!Or
  <1>4. enabled \in BOOLEAN
    BY <1>1, <1>2 DEF WidgetTyped, Widget!Or
  <1>5. /\ Widget!Resolved(sent, widget).provider = provider
        /\ Widget!Resolved(sent, widget).enabled = enabled
    BY DEF Widget!Resolved
  <1> QED BY <1>3, <1>4, <1>5 DEF WidgetTyped

\* An update begins with a copy that passed the validation whenever the row does.
LEMMA SaveStarts ==
  ASSUME WidgetInv, NEW r \in Requests, NEW copy, NEW omitted, Widget!StartSave(r, copy, omitted),
         WidgetTyped(copy), Acceptable(widget) => Acceptable(copy)
  PROVE  WidgetInv'
PROOF
  <1> DEFINE q == [pc |-> "compare", copy |-> copy, omitted |-> omitted]
  <1>1. /\ widgetRequests' = [s \in Requests |-> IF s = r THEN q ELSE widgetRequests[s]]
        /\ widgetCalm' = (widgetCalm /\ Widget!Quiet)
        /\ widget' = widget /\ products' = products
    BY DEF Widget!StartSave, Widget!Go, WidgetInv, WidgetTypes
  <1>2. WidgetTypes'
    BY <1>1 DEF WidgetInv, WidgetTypes, CarriesTyped
  <1>3. CalmWidget'
    <2> SUFFICES ASSUME widgetCalm' PROVE CalmWidget'
      BY DEF CalmWidget
    <2>1. widgetCalm /\ \A s \in Requests : widgetRequests[s] = Widget!Idle
      BY <1>1 DEF Widget!Quiet
    <2>2. \A s \in Requests : s # r => widgetRequests'[s] = Widget!Idle
      BY <1>1, <2>1
    <2>3. Acceptable(widget)' /\ Acceptable(copy)
      BY <1>1, <2>1 DEF WidgetInv, CalmWidget, Acceptable, Widget!IsAcceptable
    <2>4. \A s \in Requests : CarriesSound(widgetRequests[s])'
      BY <1>1, <2>2, <2>3 DEF CarriesSound, Widget!Idle
    <2> QED BY <2>2, <2>3, <2>4 DEF CalmWidget
  <1> QED BY <1>2, <1>3 DEF WidgetInv

\* Every step of the widget keeps the invariant.
LEMMA WidgetInvStep == WidgetInv /\ [Widget!Next]_widgetVars => WidgetInv'
PROOF
  <1> SUFFICES ASSUME WidgetInv, [Widget!Next]_widgetVars PROVE WidgetInv'
    OBVIOUS
  <1>1. ASSUME NEW r \in Requests, NEW sent \in Sent, Widget!SetWidget(r, sent) PROVE WidgetInv'
    <2> DEFINE copy == Widget!Resolved(sent, widget)
    <2>1. WidgetTyped(copy)
      BY ResolvedTyped DEF WidgetInv, WidgetTypes
    <2>2. Acceptable(copy) /\ Widget!StartSave(r, copy, Widget!Fields \ DOMAIN sent)
      BY <1>1 DEF Widget!SetWidget, Acceptable, Widget!IsAcceptable
    <2> QED BY <2>1, <2>2, SaveStarts
  <1>2. ASSUME NEW r \in Requests, Widget!SetNothing(r) \/ Widget!Renumber(r) PROVE WidgetInv'
    BY <1>2, SaveStarts DEF Widget!SetNothing, Widget!Renumber, WidgetInv, WidgetTypes
  <1>3. ASSUME NEW r \in Requests, Widget!RemoveWidget(r) PROVE WidgetInv'
    BY <1>3, SaveStarts, NoWidgetAcceptable DEF Widget!RemoveWidget
  <1>4. ASSUME NEW r \in Requests, Widget!Compare(r) PROVE WidgetInv'
    <2> DEFINE old == widgetRequests[r]
    <2> PICK columns : columns = Widget!Restrict(old.copy, { f \in Widget!Fields : old.copy[f] # widget[f] })
      OBVIOUS
    <2> PICK q : q = [pc |-> "write", columns |-> columns, omitted |-> old.omitted]
      OBVIOUS
    <2>1. /\ old.pc = "compare"
          /\ widgetRequests' = [s \in Requests |-> IF s = r THEN q ELSE widgetRequests[s]]
          /\ widget' = widget /\ products' = products /\ widgetCalm' = widgetCalm
      BY <1>4 DEF Widget!Compare, Widget!Go, WidgetInv, WidgetTypes
    <2>2. WidgetTyped(old.copy)
      BY <2>1 DEF WidgetInv, WidgetTypes, CarriesTyped
    <2>3. /\ "provider" \in DOMAIN columns => columns.provider = old.copy.provider
          /\ "enabled" \in DOMAIN columns => columns.enabled = old.copy.enabled
      BY DEF Widget!Restrict
    <2>4. CarriesTyped(q)
      BY <2>2, <2>3 DEF CarriesTyped, WidgetTyped
    <2>5. WidgetTypes'
      BY <2>1, <2>4 DEF WidgetInv, WidgetTypes, CarriesTyped
    <2>6. CalmWidget'
      <3> SUFFICES ASSUME widgetCalm PROVE CalmWidget'
        BY <2>1 DEF CalmWidget
      <3>1. /\ Widget!Overlay(columns).provider = old.copy.provider
            /\ Widget!Overlay(columns).enabled = old.copy.enabled
            /\ Widget!Overlay(columns).settings = old.copy.settings
        BY DEF Widget!Overlay, Widget!Restrict, Widget!Fields
      <3>2. Acceptable(old.copy)
        BY <2>1 DEF WidgetInv, CalmWidget, CarriesSound
      <3>3. Acceptable(Widget!Overlay(columns))
        BY <3>1, <3>2 DEF Acceptable, Widget!IsAcceptable
      <3>4. Widget!Overlay(columns)' = Widget!Overlay(columns)
        BY <2>1 DEF Widget!Overlay
      <3>5. \A s \in Requests : s # r => widgetRequests'[s] = Widget!Idle
        BY <2>1 DEF WidgetInv, CalmWidget, Widget!Idle
      <3>6. CarriesSound(q)'
        BY <2>1, <3>3, <3>4 DEF CarriesSound, Acceptable, Widget!IsAcceptable, Widget!Overlay
      <3> QED BY <2>1, <3>5, <3>6 DEF WidgetInv, CalmWidget, CarriesSound, Widget!Idle
    <2> QED BY <2>5, <2>6 DEF WidgetInv
  <1>5. ASSUME NEW r \in Requests, Widget!Write(r) PROVE WidgetInv'
    <2>1. /\ widgetRequests[r].pc = "write"
          /\ widget' = Widget!Overlay(widgetRequests[r].columns)
          /\ widget'.enabled => widget'.provider # Null
          /\ widgetRequests' = [s \in Requests |-> IF s = r THEN Widget!Idle ELSE widgetRequests[s]]
          /\ products' = products /\ widgetCalm' = widgetCalm
      BY <1>5 DEF Widget!Write, Widget!Go, WidgetInv, WidgetTypes
    <2>2. WidgetTyped(widget)'
      BY <2>1 DEF WidgetInv, WidgetTypes, CarriesTyped, WidgetTyped, Widget!Overlay, Widget!Fields
    <2>3. WidgetTypes'
      BY <2>1, <2>2 DEF WidgetInv, WidgetTypes, CarriesTyped, Widget!Idle
    <2>4. CalmWidget'
      <3> SUFFICES ASSUME widgetCalm PROVE CalmWidget'
        BY <2>1 DEF CalmWidget
      <3>1. \A s \in Requests : widgetRequests'[s] = Widget!Idle
        BY <2>1 DEF WidgetInv, CalmWidget, Widget!Idle
      <3>2. Acceptable(Widget!Overlay(widgetRequests[r].columns))
        BY <2>1 DEF WidgetInv, CalmWidget, CarriesSound
      <3> QED BY <2>1, <3>1, <3>2 DEF CalmWidget, CarriesSound, Widget!Idle, Acceptable, Widget!IsAcceptable
    <2> QED BY <2>3, <2>4 DEF WidgetInv
  <1>6. ASSUME NEW r \in Requests, Widget!Abort(r) PROVE WidgetInv'
    <2>1. /\ widgetRequests' = [s \in Requests |-> IF s = r THEN Widget!Idle ELSE widgetRequests[s]]
          /\ widget' = widget /\ products' = products /\ widgetCalm' = widgetCalm
      BY <1>6 DEF Widget!Abort, Widget!Go, WidgetInv, WidgetTypes
    <2>2. WidgetTypes'
      BY <2>1 DEF WidgetInv, WidgetTypes, CarriesTyped, Widget!Idle
    <2>3. CalmWidget'
      BY <2>1 DEF WidgetInv, CalmWidget, CarriesSound, Widget!Idle, Widget!Overlay, Acceptable, Widget!IsAcceptable
    <2> QED BY <2>2, <2>3 DEF WidgetInv
  <1>7. ASSUME UNCHANGED <<widget, widgetRequests, widgetCalm>>,
               products' \in [Languages -> Widget!ProductIds \cup {NoRow}]
        PROVE  WidgetInv'
    BY <1>7 DEF WidgetInv, WidgetTypes, CalmWidget, CarriesTyped, CarriesSound, Widget!Overlay,
       Acceptable, Widget!IsAcceptable, WidgetTyped
  <1>8. ASSUME NEW l \in Languages, Widget!TranslationStep(l) PROVE WidgetInv'
    BY <1>7, <1>8 DEF Widget!TranslationStep, Widget!DeleteTranslation, Widget!SetProduct, WidgetInv, WidgetTypes
  <1>9. CASE UNCHANGED widgetVars
    BY <1>7, <1>9 DEF widgetVars, WidgetInv, WidgetTypes
  <1> QED BY <1>1, <1>2, <1>3, <1>4, <1>5, <1>6, <1>8, <1>9 DEF Widget!Next, Widget!UpdateStep

\* The migration leaves no widget, or Turitop's, which needs no settings.
LEMMA WidgetInit == Init => WidgetInv
PROOF
  <1> SUFFICES ASSUME Widget!Init PROVE WidgetInv
    BY DEF Init
  <1>1. products \in [Languages -> Widget!ProductIds \cup {NoRow}]
    BY DEF Widget!Init
  <1>2. widgetRequests = [r \in Requests |-> widgetRequests[r]]
    BY DEF Widget!Init
  <1>3. \A r \in Requests : widgetRequests[r] = Widget!Idle
    BY DEF Widget!Init
  <1>4. WidgetTyped(widget) /\ Acceptable(widget)
    <2>1. CASE widget = Widget!NoWidget
      BY <2>1, NoWidgetAcceptable
    <2>2. CASE widget = [Widget!NoWidget EXCEPT !.provider = "turitop", !.enabled = TRUE]
      <3>1. /\ widget.provider = "turitop" /\ widget.enabled = TRUE
            /\ widget.settings = Widget!NoSettings
        BY <2>2 DEF Widget!NoWidget
      <3>2. "turitop" # Null
        BY BackofficeAssumption DEF Widget!WidgetAssumption, Widget!Providers
      <3>3. DOMAIN Widget!NoSettings = {} /\ Spaces \notin Widget!Range(Widget!NoSettings)
        BY DEF Widget!NoSettings, Widget!Range
      <3> QED BY <3>1, <3>2, <3>3 DEF WidgetTyped, Acceptable, Widget!IsAcceptable, Widget!SettingKeys,
              Widget!Providers
    <2> QED BY <2>1, <2>2 DEF Widget!Init
  <1>5. widget.enabled => widget.provider # Null
    BY <1>4 DEF Acceptable, Widget!IsAcceptable
  <1>6. WidgetTypes
    BY <1>1, <1>2, <1>3, <1>4, <1>5 DEF WidgetTypes, CarriesTyped, Widget!Idle
  <1>7. CalmWidget
    BY <1>3, <1>4 DEF CalmWidget, CarriesSound, Widget!Idle
  <1> QED BY <1>6, <1>7 DEF WidgetInv

\* A behaviour of the back office is one of the widget, which may rest.
LEMMA WidgetStep == [Next]_vars => [Widget!Next]_widgetVars
  BY DEF Next, vars, widgetVars

\* The inductive invariant of the widget.
THEOREM WidgetInOrder == Spec => []WidgetInv
PROOF
  <1>1. WidgetInv /\ [Next]_vars => WidgetInv'
    BY WidgetStep, WidgetInvStep
  <1> QED BY WidgetInit, <1>1, PTL DEF Spec

\* What a page embeds is of a provider and has its product, however updates overlap; where they do
\* not, it has the settings its provider needs and no others, whatever was sent before.
THEOREM WidgetsAreSound == Spec => []WidgetIsSound
PROOF
  <1>1. WidgetInv => WidgetIsSound
    <2> SUFFICES ASSUME WidgetInv PROVE WidgetIsSound
      OBVIOUS
    <2>1. widgetCalm => Widget!IsAcceptable(widget, widget)
      BY DEF WidgetInv, CalmWidget, Acceptable
    <2>2. ASSUME NEW l \in Languages, products[l] # NoRow, Widget!PublicBooking(l) # Null
          PROVE  LET shown == Widget!PublicBooking(l) IN
                 /\ shown.provider \in Widget!Providers
                 /\ Widget!UsesProductId(shown.provider) <=> shown.product \in Products
                 /\ widgetCalm => DOMAIN shown.settings = Widget!SettingKeys(shown.provider)
      <3> DEFINE product == IF Widget!UsesProductId(widget.provider) /\ products[l] # Spaces
                            THEN products[l] ELSE Null
      <3>1. /\ widget.enabled /\ (Widget!UsesProductId(widget.provider) => product # Null)
            /\ Widget!PublicBooking(l) =
                 [provider |-> widget.provider, product |-> product, settings |-> widget.settings]
        BY <2>2 DEF Widget!PublicBooking
      <3>2. widget.provider \in Widget!Providers
        BY <3>1 DEF WidgetInv, WidgetTypes, WidgetTyped
      <3>3. Widget!UsesProductId(widget.provider) <=> product \in Products
        <4>1. products[l] \in Widget!ProductIds
          BY <2>2 DEF WidgetInv, WidgetTypes
        <4>2. Null \notin Products
          BY BackofficeAssumption DEF Widget!WidgetAssumption
        <4> QED BY <3>1, <4>1, <4>2 DEF Widget!ProductIds
      <3>4. widgetCalm => DOMAIN widget.settings = Widget!SettingKeys(widget.provider)
        BY <2>1, <3>1 DEF Widget!IsAcceptable
      <3> HIDE DEF product
      <3> QED BY <3>1, <3>2, <3>3, <3>4
    <2> QED BY <2>1, <2>2 DEF WidgetIsSound, Widget!WidgetIsSound
  <1> QED BY WidgetInOrder, <1>1, PTL

(***************************************************************************)
(* The readers of a post.  The row of a viewer has the time of the latest  *)
(* view that counted, and one that counts is later by more than a window.  *)
(***************************************************************************)

\* Views have a time and an answer, rows a time, requests a viewer.
ViewsTypes ==
  /\ clock \in Nat
  /\ post \in [id : Int, exists : BOOLEAN, published : BOOLEAN, views : Int]
  /\ viewed \in [Viewers -> Int]
  /\ settled \in [Viewers -> SUBSET [at : Nat, counts : BOOLEAN]]
  /\ readers = [r \in Requests |-> readers[r]]
  /\ \A r \in Requests :
       /\ readers[r].pc = "opened" => readers[r].viewer \in Viewers
       /\ readers[r].pc = "track" => readers[r].viewer \in Viewers /\ readers[r].at \in Nat

\* The row of a viewer is that of the latest view that counted.
LatestCounts(v) ==
  /\ \/ settled[v] = {} /\ viewed[v] = Views!Never
     \/ [at |-> viewed[v], counts |-> TRUE] \in settled[v]
  /\ \A a \in Views!Counted(v) : a.at <= viewed[v]

\* The windows of OncePerWindow, for one viewer.
WindowsApart(v) ==
  /\ \A a, b \in Views!Counted(v) : Views!Within(a, b) /\ Views!Within(b, a) => a = b
  /\ \A a \in settled[v] : \E b \in Views!Counted(v) : Views!Within(a, b)

\* The translation shows what counted; one that is gone has no viewers.
ViewsAdded ==
  /\ IsFiniteSet(Views!CountedViews)
  /\ post.exists => post.views = Cardinality(Views!CountedViews)
  /\ ~post.exists => Views!CountedViews = {}

ViewsInv ==
  /\ ViewsTypes
  /\ \A v \in Viewers : LatestCounts(v) /\ WindowsApart(v)
  /\ ViewsAdded

\* The module counts as the theorems about finite sets do.
LEMMA ViewsCount == \A S : Views!Cardinality(S) = Cardinality(S)
  BY DEF Views!Cardinality, Cardinality

\* Where nothing has settled, nothing has counted.
LEMMA NothingCounted ==
  ASSUME \A v \in Viewers : settled[v] = {}
  PROVE  Views!CountedViews = {} /\ \A v \in Viewers : Views!Counted(v) = {}
  BY DEF Views!CountedViews, Views!Counted

\* A view settles: it counts when the viewer's row is older than a window.
LEMMA TrackViewKeeps ==
  ASSUME ViewsInv, NEW r \in Requests, Views!TrackView(r)
  PROVE  ViewsInv'
PROOF
  <1>0. Window \in Nat
    BY BackofficeAssumption DEF Views!ViewsAssumption
  <1> PICK v : v = readers[r].viewer
    OBVIOUS
  <1> PICK at : at = readers[r].at
    OBVIOUS
  <1> PICK counts \in BOOLEAN : counts <=> viewed[v] < at - Window
    OBVIOUS
  <1> PICK view : view = [at |-> at, counts |-> counts]
    OBVIOUS
  <1>1. v \in Viewers /\ at \in Nat
    BY DEF Views!TrackView, ViewsInv, ViewsTypes
  <1>2. /\ viewed' = [viewed EXCEPT ![v] = IF counts THEN at ELSE viewed[v]]
        /\ settled' = [settled EXCEPT ![v] = settled[v] \cup {view}]
        /\ readers' = [readers EXCEPT ![r] = Views!Idle] /\ clock' = clock
        /\ post.exists /\ post' = IF counts THEN [post EXCEPT !.views = @ + 1] ELSE post
    <2>1. Views!IsExpired(viewed[v], at) <=> counts
      BY DEF Views!IsExpired
    <2>2. viewed' = IF counts THEN [viewed EXCEPT ![v] = at] ELSE viewed
      BY <2>1 DEF Views!TrackView
    <2>3. viewed' = [viewed EXCEPT ![v] = IF counts THEN at ELSE viewed[v]]
      BY <1>1, <2>2 DEF ViewsInv, ViewsTypes
    <2>4. settled' = [settled EXCEPT ![v] = settled[v] \cup {[at |-> at, counts |-> Views!IsExpired(viewed[v], at)]}]
      BY DEF Views!TrackView, Views!Settle
    <2>5. Views!IsExpired(viewed[v], at) = counts
      BY <2>1 DEF Views!IsExpired
    <2> QED BY <2>1, <2>3, <2>4, <2>5 DEF Views!TrackView
  <1>3. view \in [at : Nat, counts : BOOLEAN] /\ view.at = at /\ view.counts = counts
    BY <1>1
  <1>4. /\ settled'[v] = settled[v] \cup {view} /\ viewed'[v] = IF counts THEN at ELSE viewed[v]
        /\ \A w \in Viewers : w # v => settled'[w] = settled[w] /\ viewed'[w] = viewed[w]
    BY <1>1, <1>2 DEF ViewsInv, ViewsTypes
  <1>5. ViewsTypes'
    BY <1>1, <1>2, <1>3 DEF ViewsInv, ViewsTypes, Views!Idle
  <1>6. /\ Views!Counted(v)' = IF counts THEN Views!Counted(v) \cup {view} ELSE Views!Counted(v)
        /\ \A w \in Viewers : w # v => Views!Counted(w)' = Views!Counted(w)
    BY <1>3, <1>4 DEF Views!Counted
  <1>7. ASSUME NEW w \in Viewers, w # v PROVE LatestCounts(w)' /\ WindowsApart(w)'
    BY <1>4, <1>6, <1>7 DEF ViewsInv, LatestCounts, WindowsApart, Views!Within
  <1>8. /\ viewed[v] \in Int
        /\ \A a \in settled[v] : a.at \in Nat
        /\ \A a \in Views!Counted(v) : a \in settled[v] /\ a.at <= viewed[v]
        /\ viewed[v] = Views!Never \/ [at |-> viewed[v], counts |-> TRUE] \in settled[v]
    BY <1>1 DEF ViewsInv, ViewsTypes, LatestCounts, Views!Counted
  <1>9. counts => \A a \in Views!Counted(v) : a.at < at - Window
    BY <1>0, <1>1, <1>8
  <1>10. LatestCounts(v)' /\ WindowsApart(v)'
    <2>1. CASE counts
      <3>1. LatestCounts(v)'
        BY <1>0, <1>1, <1>3, <1>4, <1>6, <1>8, <1>9, <2>1 DEF LatestCounts
      <3>2. \A a, b \in Views!Counted(v)' : Views!Within(a, b) /\ Views!Within(b, a) => a = b
        <4>1. \A a \in Views!Counted(v) : ~Views!Within(view, a)
          BY <1>0, <1>1, <1>3, <1>8, <1>9, <2>1 DEF Views!Within
        <4>2. \A a, b \in Views!Counted(v) : Views!Within(a, b) /\ Views!Within(b, a) => a = b
          BY <1>1 DEF ViewsInv, WindowsApart
        <4>3. Views!Counted(v)' = Views!Counted(v) \cup {view}
          BY <1>6, <2>1
        <4>4. ASSUME NEW a \in Views!Counted(v)', NEW b \in Views!Counted(v)',
                     Views!Within(a, b), Views!Within(b, a)
              PROVE  a = b
          BY <4>1, <4>2, <4>3, <4>4
        <4> QED BY <4>4
      <3>3. \A a \in settled'[v] : \E b \in Views!Counted(v)' : Views!Within(a, b)
        BY <1>0, <1>1, <1>3, <1>4, <1>6, <2>1 DEF ViewsInv, WindowsApart, Views!Within
      <3> QED BY <3>1, <3>2, <3>3 DEF WindowsApart, Views!Within
    <2>2. CASE ~counts
      <3>1. viewed[v] >= at - Window
        BY <1>0, <1>1, <1>8, <2>2
      <3>2. viewed[v] # Views!Never
        BY <1>0, <1>1, <3>1 DEF Views!Never
      <3>3. [at |-> viewed[v], counts |-> TRUE] \in Views!Counted(v)
        BY <1>8, <3>2 DEF Views!Counted
      <3>4. LatestCounts(v)'
        BY <1>3, <1>4, <1>6, <1>8, <2>2, <3>2 DEF LatestCounts
      <3>5. \A a \in settled'[v] : \E b \in Views!Counted(v)' : Views!Within(a, b)
        BY <1>0, <1>1, <1>3, <1>4, <1>6, <1>8, <2>2, <3>1, <3>3 DEF ViewsInv, WindowsApart, Views!Within
      <3> QED BY <1>1, <1>6, <2>2, <3>4, <3>5 DEF ViewsInv, WindowsApart, Views!Within
    <2> QED BY <2>1, <2>2
  <1>11. ViewsAdded'
    <2>1. CASE counts
      <3>1. Views!CountedViews' = Views!CountedViews \cup {<<v, view>>}
        BY <1>1, <1>6, <2>1 DEF Views!CountedViews
      <3>2. view \notin Views!Counted(v)
        BY <1>0, <1>1, <1>3, <1>9, <2>1
      <3>3. <<v, view>> \notin Views!CountedViews
        BY <3>2 DEF Views!CountedViews
      <3>4. /\ IsFiniteSet(Views!CountedViews')
            /\ Cardinality(Views!CountedViews') = Cardinality(Views!CountedViews) + 1
        BY <3>1, <3>3, FS_AddElement DEF ViewsInv, ViewsAdded
      <3> QED BY <1>2, <2>1, <3>4 DEF ViewsInv, ViewsAdded
    <2>2. CASE ~counts
      <3>1. \A w \in Viewers : Views!Counted(w)' = Views!Counted(w)
        BY <1>6, <2>2
      <3>2. Views!CountedViews' = Views!CountedViews
        BY <3>1 DEF Views!CountedViews
      <3> QED BY <1>2, <2>2, <3>2 DEF ViewsInv, ViewsAdded
    <2> QED BY <2>1, <2>2
  <1> QED BY <1>5, <1>7, <1>10, <1>11 DEF ViewsInv

\* Every step of the readers and of the post keeps the invariant.
LEMMA ViewsInvStep == ViewsInv /\ [Views!Next]_viewsVars => ViewsInv'
PROOF
  <1> SUFFICES ASSUME ViewsInv, [Views!Next]_viewsVars PROVE ViewsInv'
    OBVIOUS
  <1>1. ASSUME ViewsTypes', UNCHANGED <<viewed, settled>>, ViewsAdded' PROVE ViewsInv'
    BY <1>1 DEF ViewsInv, LatestCounts, WindowsApart, Views!Counted, Views!Within
  <1>2. ASSUME UNCHANGED <<post, settled>> PROVE ViewsAdded'
    BY <1>2 DEF ViewsInv, ViewsAdded, Views!CountedViews, Views!Counted
  <1>3. ASSUME NEW r \in Requests, NEW v \in Viewers, Views!Open(r, v) PROVE ViewsInv'
    <2>1. ViewsTypes'
      BY <1>3 DEF Views!Open, ViewsInv, ViewsTypes
    <2> QED BY <1>1, <1>2, <1>3, <2>1 DEF Views!Open
  <1>4. ASSUME NEW r \in Requests, Views!ReadClock(r) PROVE ViewsInv'
    <2>1. ViewsTypes'
      BY <1>4 DEF Views!ReadClock, ViewsInv, ViewsTypes
    <2> QED BY <1>1, <1>2, <1>4, <2>1 DEF Views!ReadClock
  <1>5. ASSUME NEW r \in Requests, Views!Fail(r) PROVE ViewsInv'
    <2>1. ViewsTypes'
      BY <1>5 DEF Views!Fail, Views!Idle, ViewsInv, ViewsTypes
    <2> QED BY <1>1, <1>2, <1>5, <2>1 DEF Views!Fail
  <1>6. CASE Views!Publish
    <2>1. post'.exists = post.exists /\ post'.views = post.views
      BY <1>6 DEF Views!Publish, ViewsInv, ViewsTypes
    <2>2. Views!CountedViews' = Views!CountedViews
      BY <1>6 DEF Views!Publish, Views!CountedViews, Views!Counted
    <2>3. ViewsAdded'
      BY <2>1, <2>2 DEF ViewsInv, ViewsAdded
    <2>4. ViewsTypes'
      BY <1>6 DEF Views!Publish, ViewsInv, ViewsTypes
    <2> QED BY <1>1, <1>6, <2>3, <2>4 DEF Views!Publish
  <1>7. CASE Views!Delete
    <2>1. /\ viewed' = [v \in Viewers |-> Views!Never] /\ settled' = [v \in Viewers |-> {}]
          /\ post' = [post EXCEPT !.exists = FALSE] /\ post.exists
          /\ clock' = clock /\ readers' = readers
      BY <1>7 DEF Views!Delete, Views!Unread
    <2>2. Views!CountedViews' = {} /\ \A v \in Viewers : Views!Counted(v)' = {}
      BY <2>1 DEF Views!CountedViews, Views!Counted
    <2>3. post'.exists = FALSE
      BY <2>1 DEF ViewsInv, ViewsTypes
    <2>4. ViewsAdded'
      BY <2>2, <2>3, FS_EmptySet DEF ViewsAdded
    <2>5. Views!Never \in Int
      BY BackofficeAssumption DEF Views!ViewsAssumption, Views!Never
    <2>6. ViewsTypes'
      BY <2>1, <2>5 DEF ViewsInv, ViewsTypes
    <2>7. \A v \in Viewers : LatestCounts(v)' /\ WindowsApart(v)'
      BY <2>1, <2>2 DEF LatestCounts, WindowsApart, Views!Never
    <2> QED BY <2>4, <2>6, <2>7 DEF ViewsInv
  <1>8. CASE Views!CreateAgain
    <2>1. ~post.exists /\ post'.exists /\ post'.views = 0
      BY <1>8 DEF Views!CreateAgain
    <2>2. Views!CountedViews' = Views!CountedViews
      BY <1>8 DEF Views!CreateAgain, Views!CountedViews, Views!Counted
    <2>3. ViewsAdded'
      BY <2>1, <2>2, FS_EmptySet DEF ViewsInv, ViewsAdded
    <2>4. ViewsTypes'
      BY <1>8 DEF Views!CreateAgain, ViewsInv, ViewsTypes
    <2> QED BY <1>1, <1>8, <2>3, <2>4 DEF Views!CreateAgain
  <1>9. CASE Views!Tick
    <2>1. ViewsTypes'
      BY <1>9 DEF Views!Tick, ViewsInv, ViewsTypes
    <2> QED BY <1>1, <1>2, <1>9, <2>1 DEF Views!Tick
  <1>10. CASE UNCHANGED viewsVars
    <2>1. ViewsTypes'
      BY <1>10 DEF viewsVars, ViewsInv, ViewsTypes
    <2> QED BY <1>1, <1>2, <1>10, <2>1 DEF viewsVars
  <1> QED BY <1>3, <1>4, <1>5, <1>6, <1>7, <1>8, <1>9, <1>10, TrackViewKeeps DEF Views!Next

\* A behaviour of the back office is one of the readers, who may rest.
LEMMA ViewsStep == [Next]_vars => [Views!Next]_viewsVars
  BY DEF Next, vars, viewsVars

\* Nobody has seen the post at first.
LEMMA ViewsInit == Init => ViewsInv
PROOF
  <1> SUFFICES ASSUME Views!Init PROVE ViewsInv
    BY DEF Init
  <1>1. /\ clock = 0 /\ post = [id |-> 1, exists |-> TRUE, published |-> TRUE, views |-> 0]
        /\ viewed = [v \in Viewers |-> Views!Never] /\ settled = [v \in Viewers |-> {}]
        /\ readers = [r \in Requests |-> Views!Idle]
    BY DEF Views!Init, Views!Unread
  <1>2. Views!CountedViews = {} /\ \A v \in Viewers : Views!Counted(v) = {}
    BY <1>1, NothingCounted
  <1>3. Views!Never \in Int
    BY BackofficeAssumption DEF Views!ViewsAssumption, Views!Never
  <1>4. ViewsTypes
    BY <1>1, <1>3 DEF ViewsTypes, Views!Idle
  <1>5. \A v \in Viewers : LatestCounts(v) /\ WindowsApart(v)
    BY <1>1, <1>2 DEF LatestCounts, WindowsApart
  <1>6. ViewsAdded
    BY <1>1, <1>2, FS_EmptySet DEF ViewsAdded
  <1> QED BY <1>4, <1>5, <1>6 DEF ViewsInv

\* The inductive invariant of the readers.
THEOREM ViewsInOrder == Spec => []ViewsInv
PROOF
  <1>1. ViewsInv /\ [Next]_vars => ViewsInv'
    BY ViewsStep, ViewsInvStep
  <1> QED BY ViewsInit, <1>1, PTL DEF Spec

\* In whatever order requests settle, a viewer counts once in a window and is let count again after
\* it, and the translation shows as many views as counted.
THEOREM ViewersCountOnce == Spec => []OncePerWindow
PROOF
  <1>1. ViewsInv => OncePerWindow
    BY ViewsCount DEF ViewsInv, ViewsAdded, WindowsApart, OncePerWindow, Views!OncePerWindow
  <1> QED BY ViewsInOrder, <1>1, PTL

(***************************************************************************)
(* The administrators.  Where no change meets another request, a copy is   *)
(* of the row as it is, and a claim is of a row without an identity, until *)
(* the request that made it has written.                                   *)
(***************************************************************************)

AdminRows == [email : Emails, identity : Access!Links, status : Access!Statuses]

\* What a request carries: a verified token, or a row's id and a copy of the row.
Carries(q) ==
  /\ q.pc = "claim" => q.token \in Tokens
  /\ q.pc \in {"admit", "compare", "write", "enter"} => q.id \in DOMAIN admins /\ q.copy \in AdminRows
  /\ q.pc \in {"compare", "write"} => q.then = "enter" \/ (q.then \in {"update", "admit"} /\ q.changes)
  /\ q.pc = "write" =>
       q = [pc |-> "write", id |-> q.id, base |-> q.base, copy |-> q.copy, then |-> q.then,
            changes |-> q.changes]

\* What it knows of the row while no change meets another request.
KnowsRow(q) ==
  /\ q.pc = "admit" => q.copy = admins[q.id] /\ q.copy.identity # NoIdentity
  /\ q.pc = "enter" => Access!IsAdmitted(admins[q.id])
  /\ q.pc = "write" => q.base = admins[q.id]
  /\ q.pc \in {"compare", "write"} /\ q.then = "enter" =>
       q.copy = admins[q.id] /\ Access!IsAdmitted(q.copy)
  /\ q.pc \in {"compare", "write"} /\ q.then = "admit" =>
       /\ admins[q.id].identity = NoIdentity
       /\ \E identity \in Identities : q.copy = Access!Bound(admins[q.id], identity)

AccessTypes ==
  /\ admins \in Seq(AdminRows)
  /\ adminRequests = [r \in Requests |-> adminRequests[r]]
  /\ \A r \in Requests : Carries(adminRequests[r])

\* Two requests in flight change nothing.
Apart(q1, q2) == q1 = Access!Idle \/ q2 = Access!Idle \/ (~q1.changes /\ ~q2.changes)

CalmAccess ==
  adminCalm =>
    /\ \A r, s \in Requests : r # s => Apart(adminRequests[r], adminRequests[s])
    /\ \A r \in Requests : KnowsRow(adminRequests[r])

AccessInv == AccessTypes /\ CalmAccess

\* A write makes a row of the table, and the copy of the row that is not written over.
LEMMA AdminOverlay ==
  ASSUME NEW entry \in AdminRows, NEW copy \in AdminRows
  PROVE  /\ \A base : Access!Overlay(entry, base, copy) \in AdminRows
         /\ Access!Overlay(entry, entry, copy) = copy
PROOF
  <1>1. /\ DOMAIN entry = {"email", "identity", "status"} /\ DOMAIN copy = {"email", "identity", "status"}
        /\ entry = [f \in {"email", "identity", "status"} |-> entry[f]]
        /\ copy = [f \in {"email", "identity", "status"} |-> copy[f]]
    BY DEF AdminRows
  <1>2. \A base : Access!Overlay(entry, base, copy) \in AdminRows
    BY <1>1 DEF AdminRows, Access!Overlay
  <1>3. Access!Overlay(entry, entry, copy) = copy
    BY <1>1 DEF Access!Overlay
  <1> QED BY <1>2, <1>3

\* One slot changes, and the table does not.
LEMMA AccessSlot ==
  ASSUME AccessInv, NEW r \in Requests, NEW q,
         adminRequests' = [adminRequests EXCEPT ![r] = q], admins' = admins,
         Carries(q),
         adminCalm' => /\ adminCalm /\ KnowsRow(q)
                       /\ \A s \in Requests : s # r => Apart(q, adminRequests[s])
  PROVE  AccessInv'
PROOF
  <1>1. adminRequests' = [s \in Requests |-> IF s = r THEN q ELSE adminRequests[s]]
    BY DEF AccessInv, AccessTypes
  <1>2. Carries(q)' /\ \A s \in Requests : Carries(adminRequests[s]) /\ s # r => Carries(adminRequests[s])'
    BY <1>1 DEF Carries
  <1>3. AccessTypes'
    BY <1>1, <1>2 DEF AccessInv, AccessTypes, Carries
  <1>4. CalmAccess'
    <2> SUFFICES ASSUME adminCalm' PROVE CalmAccess'
      BY DEF CalmAccess
    <2>1. \A s, t \in Requests : s # t => Apart(adminRequests'[s], adminRequests'[t])
      BY <1>1 DEF AccessInv, CalmAccess, Apart
    <2>2. \A s \in Requests : KnowsRow(adminRequests[s])'
      BY <1>1 DEF AccessInv, CalmAccess, KnowsRow
    <2> QED BY <2>1, <2>2 DEF CalmAccess, Apart
  <1> QED BY <1>3, <1>4 DEF AccessInv

\* A row is added, and those there stay.
LEMMA InsertKeeps ==
  ASSUME AccessInv, NEW entry \in AdminRows, Access!Insert(entry), UNCHANGED <<adminRequests, adminCalm>>
  PROVE  AccessInv'
PROOF
  <1>1. /\ admins' \in Seq(AdminRows) /\ DOMAIN admins \subseteq DOMAIN admins'
        /\ \A id \in DOMAIN admins : admins'[id] = admins[id]
    BY DEF Access!Insert, AccessInv, AccessTypes
  <1>2. \A r \in Requests : Carries(adminRequests[r])'
    BY <1>1 DEF AccessInv, AccessTypes, Carries
  <1>3. \A r \in Requests : KnowsRow(adminRequests[r]) => KnowsRow(adminRequests[r])'
    <2> SUFFICES ASSUME NEW r \in Requests, KnowsRow(adminRequests[r]) PROVE KnowsRow(adminRequests[r])'
      OBVIOUS
    <2>1. Carries(adminRequests[r])
      BY DEF AccessInv, AccessTypes
    <2> QED BY <1>1, <2>1 DEF Carries, KnowsRow
  <1> QED BY <1>1, <1>2, <1>3 DEF AccessInv, AccessTypes, CalmAccess, Apart

\* A request that comes in or claims a row, and may meet no other that changes something.
LEMMA ChangeKeeps ==
  ASSUME AccessInv, NEW r \in Requests, NEW q, Access!Change(r, q), UNCHANGED admins,
         Carries(q), adminCalm => KnowsRow(q)
  PROVE  AccessInv'
PROOF
  <1>1. adminCalm' => adminCalm /\ \A s \in Requests : s # r => adminRequests[s] = Access!Idle
    BY DEF Access!Change, Access!Others
  <1>2. adminRequests' = [adminRequests EXCEPT ![r] = q]
    BY DEF Access!Change, Access!Go
  <1>3. adminCalm' => adminCalm /\ KnowsRow(q) /\ \A s \in Requests : s # r => Apart(q, adminRequests[s])
    BY <1>1 DEF Apart
  <1> QED BY <1>2, <1>3, AccessSlot

LEMMA BeginKeeps ==
  ASSUME AccessInv, NEW r \in Requests, NEW q, Access!Begin(r, q), UNCHANGED admins,
         Carries(q), q.changes = FALSE, adminCalm => KnowsRow(q)
  PROVE  AccessInv'
PROOF
  <1>1. ASSUME adminCalm', NEW s \in Requests, s # r, adminRequests[s] # Access!Idle
        PROVE  ~adminRequests[s].changes
    <2>1. adminRequests[s] \in Access!Others(r)
      BY <1>1 DEF Access!Others
    <2> QED BY <1>1, <2>1 DEF Access!Begin
  <1>2. adminRequests' = [adminRequests EXCEPT ![r] = q] /\ (adminCalm' => adminCalm)
    BY DEF Access!Begin, Access!Go
  <1>3. adminCalm' => \A s \in Requests : s # r => Apart(q, adminRequests[s])
    BY <1>1 DEF Apart
  <1> QED BY <1>2, <1>3, AccessSlot

\* A request goes on with what it carries: it meets whom it met before.
LEMMA GoesOn ==
  ASSUME AccessInv, NEW r \in Requests, NEW q, Access!Go(r, q), UNCHANGED <<admins, adminCalm>>,
         Carries(q), adminCalm => KnowsRow(q),
         q = Access!Idle \/ (adminRequests[r] # Access!Idle /\ q.changes = adminRequests[r].changes)
  PROVE  AccessInv'
PROOF
  <1>1. adminRequests' = [adminRequests EXCEPT ![r] = q]
    BY DEF Access!Go
  <1>2. adminCalm => \A s \in Requests : s # r => Apart(q, adminRequests[s])
    BY DEF AccessInv, CalmAccess, Apart
  <1>3. adminCalm' => adminCalm /\ KnowsRow(q) /\ \A s \in Requests : s # r => Apart(q, adminRequests[s])
    BY <1>2
  <1> QED BY <1>1, <1>3, AccessSlot

LEMMA IdleCarriesNothing == Carries(Access!Idle) /\ KnowsRow(Access!Idle)
  BY DEF Carries, KnowsRow, Access!Idle

\* A write has the copy in the row if nothing came between it and the row it was compared with.
LEMMA WriteKeeps == ASSUME AccessInv, NEW r \in Requests, Access!Write(r) PROVE AccessInv'
PROOF
  <1> PICK q : q = adminRequests[r]
    OBVIOUS
  <1> PICK n : n = IF q.then = "update" THEN Access!Idle ELSE [q EXCEPT !.pc = q.then]
    OBVIOUS
  <1>1. /\ q.pc = "write" /\ q.id \in DOMAIN admins /\ q.copy \in AdminRows
        /\ q.then = "enter" \/ (q.then \in {"update", "admit"} /\ q.changes)
        /\ q = [pc |-> "write", id |-> q.id, base |-> q.base, copy |-> q.copy, then |-> q.then,
                changes |-> q.changes]
        /\ adminCalm => KnowsRow(q)
    BY DEF Access!Write, AccessInv, AccessTypes, CalmAccess, Carries
  <1>2. /\ admins' = [admins EXCEPT ![q.id] = Access!Overlay(admins[q.id], q.base, q.copy)]
        /\ adminRequests' = [adminRequests EXCEPT ![r] = n] /\ adminCalm' = adminCalm
    BY DEF Access!Write, Access!Finish, Access!Go
  <1>3. /\ q.then = "update" => n = Access!Idle
        /\ q.then # "update" => /\ n.pc = q.then /\ n.id = q.id /\ n.copy = q.copy
                                /\ n.then = q.then /\ n.changes = q.changes
    BY <1>1
  <1>4. admins \in Seq(AdminRows) /\ admins[q.id] \in AdminRows
    BY <1>1 DEF AccessInv, AccessTypes
  <1>5. admins' \in Seq(AdminRows) /\ DOMAIN admins' = DOMAIN admins
    <2> PICK entry : entry = Access!Overlay(admins[q.id], q.base, q.copy)
      OBVIOUS
    <2>1. entry \in AdminRows
      BY <1>1, <1>4, AdminOverlay
    <2>2. admins' = [admins EXCEPT ![q.id] = entry]
      BY <1>2
    <2> QED BY <2>1, <2>2, <1>1, <1>4
  <1>6. adminRequests' = [s \in Requests |-> IF s = r THEN n ELSE adminRequests[s]]
    BY <1>2 DEF AccessInv, AccessTypes
  <1>7. /\ n.pc \in {"admit", "enter"} \/ n = Access!Idle
        /\ n # Access!Idle => n.id \in DOMAIN admins' /\ n.copy \in AdminRows
    BY <1>1, <1>3, <1>5
  <1>8. AccessTypes'
    <2>1. \A s \in Requests : adminRequests'[s] = IF s = r THEN n ELSE adminRequests[s]
      BY <1>6
    <2>2. ASSUME NEW s \in Requests PROVE Carries(adminRequests[s])'
      <3>1. CASE s = r
        <4>1. adminRequests'[s] = n
          BY <2>1, <3>1
        <4>2. CASE n = Access!Idle
          BY <4>1, <4>2 DEF Carries, Access!Idle
        <4>3. CASE n # Access!Idle
          BY <4>1, <4>3, <1>7 DEF Carries
        <4> QED BY <4>2, <4>3
      <3>2. CASE s # r
        BY <2>1, <3>2, <1>5 DEF Carries, AccessInv, AccessTypes
      <3> QED BY <3>1, <3>2
    <2> QED BY <2>2, <1>5, <1>6 DEF AccessTypes
  <1>9. CalmAccess'
    <2> SUFFICES ASSUME adminCalm
                 PROVE  /\ \A s, t \in Requests : s # t => Apart(adminRequests'[s], adminRequests'[t])
                        /\ \A s \in Requests : KnowsRow(adminRequests[s])'
      BY <1>2 DEF CalmAccess, Apart
    <2>1. /\ \A s, t \in Requests : s # t => Apart(adminRequests[s], adminRequests[t])
          /\ \A s \in Requests : KnowsRow(adminRequests[s])
      BY DEF AccessInv, CalmAccess
    <2>2. q # Access!Idle
      BY <1>1 DEF Access!Idle
    <2>3. \A s, t \in Requests : s # t => Apart(adminRequests'[s], adminRequests'[t])
      <3>1. n = Access!Idle \/ n.changes = q.changes
        BY <1>3
      <3> QED BY <2>1, <2>2, <3>1, <1>6 DEF Apart
    <2>4. admins'[q.id] = q.copy /\ q.base = admins[q.id]
      <3>1. q.base = admins[q.id]
        BY <1>1 DEF KnowsRow
      <3> QED BY <3>1, <1>1, <1>2, <1>4, AdminOverlay
    <2>5. CASE q.then = "enter"
      <3>1. q.copy = admins[q.id] /\ Access!IsAdmitted(q.copy)
        BY <2>5, <1>1 DEF KnowsRow
      <3>2. admins' = admins
        BY <2>4, <3>1, <1>1, <1>2, <1>4, <1>5
      <3>3. KnowsRow(n)
        BY <2>5, <3>1, <1>3 DEF KnowsRow
      <3> QED BY <2>1, <2>3, <3>2, <3>3, <1>6 DEF KnowsRow
    <2>6. CASE q.then \in {"update", "admit"}
      <3>1. \A s \in Requests : s # r => adminRequests[s] = Access!Idle
        BY <2>1, <2>2, <2>6, <1>1 DEF Apart
      <3>2. \A s \in Requests : s # r => KnowsRow(adminRequests[s])'
        BY <3>1, <1>6 DEF KnowsRow, Access!Idle
      <3>3. CASE q.then = "update"
        BY <2>3, <3>2, <3>3, <1>3, <1>6 DEF KnowsRow, Access!Idle
      <3>4. CASE q.then = "admit"
        <4>1. PICK identity \in Identities : q.copy = Access!Bound(admins[q.id], identity)
          BY <3>4, <1>1 DEF KnowsRow
        <4>2. q.copy.identity = identity
          BY <4>1, <1>4 DEF Access!Bound, AdminRows
        <4>3. q.copy.identity # NoIdentity
          BY <4>2, BackofficeAssumption DEF Access!AdminAssumption
        <4>4. n.pc = "admit" /\ n.id = q.id /\ n.copy = q.copy /\ adminRequests'[r] = n
          BY <3>4, <1>3, <1>6
        <4>5. KnowsRow(adminRequests[r])'
          BY <4>3, <4>4, <2>4 DEF KnowsRow
        <4> QED BY <2>3, <3>2, <4>5
      <3> QED BY <2>6, <3>3, <3>4
    <2> QED BY <2>5, <2>6, <1>1
  <1> QED BY <1>8, <1>9 DEF AccessInv

\* Rows start with an identity that is not a hotel's, or with none.
LEMMA NewRowTyped ==
  \A e \in Emails, i \in Access!Links, s \in Access!Statuses : Access!NewRow(e, i, s) \in AdminRows
  BY DEF Access!NewRow, AdminRows

LEMMA EditsTyped == \A entry \in AdminRows : Access!Edits(entry) \subseteq AdminRows
  BY DEF Access!Edits, AdminRows

\* A claim gives a row an identity, and activates an invitation.
LEMMA BoundFields ==
  ASSUME NEW entry \in AdminRows, NEW t
  PROVE  Access!Bound(entry, t) =
           [email |-> entry.email, identity |-> t,
            status |-> IF entry.status = "invited" THEN "active" ELSE entry.status]
PROOF
  <1>1. entry = [email |-> entry.email, identity |-> entry.identity, status |-> entry.status]
    BY DEF AdminRows
  <1>2. [entry EXCEPT !.identity = t] = [email |-> entry.email, identity |-> t, status |-> entry.status]
    BY <1>1
  <1> PICK one : one = [email |-> entry.email, identity |-> t, status |-> entry.status]
    OBVIOUS
  <1>3. Access!Bound(entry, t) = [one EXCEPT !.status = IF @ = "invited" THEN "active" ELSE @]
    BY <1>2 DEF Access!Bound
  <1>4. [one EXCEPT !.status = IF @ = "invited" THEN "active" ELSE @] =
          [email |-> entry.email, identity |-> t,
           status |-> IF entry.status = "invited" THEN "active" ELSE entry.status]
    OBVIOUS
  <1> QED BY <1>3, <1>4

\* What a claim copies: an administrator's row with the identity of a verified token.
LEMMA BoundTyped ==
  ASSUME NEW entry \in AdminRows, NEW token \in Tokens, Access!IsEntitled(token)
  PROVE  token.identity \in Identities /\ Access!Bound(entry, token.identity) \in AdminRows
PROOF
  <1>1. token.identity \in Identities
    BY BackofficeAssumption DEF Access!AdminAssumption
  <1>2. token.identity \in Access!Links
    BY <1>1 DEF Access!IsEntitled, Access!Links
  <1>3. Access!Bound(entry, token.identity) =
          [email |-> entry.email, identity |-> token.identity,
           status |-> IF entry.status = "invited" THEN "active" ELSE entry.status]
    BY BoundFields
  <1> QED BY <1>1, <1>2, <1>3 DEF AdminRows, Access!Statuses

LEMMA AccessInvStep == AccessInv /\ [Access!Next]_accessVars => AccessInv'
PROOF
  <1> SUFFICES ASSUME AccessInv, [Access!Next]_accessVars PROVE AccessInv'
    OBVIOUS
  <1>1. CASE UNCHANGED accessVars
    BY <1>1 DEF accessVars, AccessInv, AccessTypes, CalmAccess, Carries, KnowsRow, Apart
  <1>2. ASSUME NEW e \in Emails, NEW i \in Access!Links, Access!Bootstrap(e, i) PROVE AccessInv'
    <2> PICK s \in Access!Statuses : s = IF i = NoIdentity THEN "invited" ELSE "active"
      BY DEF Access!Statuses
    <2> QED BY <1>2, NewRowTyped, InsertKeeps DEF Access!Bootstrap
  <1>3. ASSUME NEW e \in Emails, NEW i \in Access!Links, NEW s \in Access!Statuses,
               Access!Create(e, i, s)
        PROVE  AccessInv'
    BY <1>3, NewRowTyped, InsertKeeps DEF Access!Create
  <1> SUFFICES ASSUME NEW r \in Requests,
                      \/ \E id \in Access!Rows : \E copy \in Access!Edits(admins[id]) :
                           Access!StartUpdate(r, id, copy)
                      \/ Access!SignIn(r) \/ Access!Compare(r) \/ Access!Write(r) \/ Access!Abort(r)
               PROVE  AccessInv'
    BY <1>1, <1>2, <1>3 DEF Access!Next, Access!UpdateStep, Access!vars, accessVars
  <1> PICK q : q = adminRequests[r]
    OBVIOUS
  <1>4. /\ Carries(q) /\ (adminCalm => KnowsRow(q))
        /\ \A id \in DOMAIN admins : admins[id] \in AdminRows
    BY DEF AccessInv, AccessTypes, CalmAccess
  <1>5. ASSUME NEW id \in Access!Rows, NEW copy \in Access!Edits(admins[id]),
               Access!StartUpdate(r, id, copy)
        PROVE  AccessInv'
    <2>1. copy \in AdminRows
      BY <1>4, EditsTyped DEF Access!Rows
    <2>2. PICK n : n = Access!Save(id, copy, "update", TRUE)
      OBVIOUS
    <2>3. Carries(n) /\ KnowsRow(n)
      BY <2>1, <2>2 DEF Access!Save, Carries, KnowsRow, Access!Rows
    <2>4. Access!Change(r, n) /\ UNCHANGED admins
      BY <1>5, <2>2 DEF Access!StartUpdate
    <2> QED BY <2>3, <2>4, ChangeKeeps
  <1>6. ASSUME NEW token \in Tokens, Access!Resolve(r, token) PROVE AccessInv'
    <2>1. ASSUME NEW id \in Access!Rows, admins[id].identity = token.identity,
                 Access!Begin(r, [pc |-> "admit", id |-> id, copy |-> admins[id], changes |-> FALSE])
          PROVE  AccessInv'
      <3>1. PICK n : n = [pc |-> "admit", id |-> id, copy |-> admins[id], changes |-> FALSE]
        OBVIOUS
      <3>2. token.identity # NoIdentity
        BY BackofficeAssumption DEF Access!AdminAssumption
      <3>3. Carries(n) /\ KnowsRow(n) /\ n.changes = FALSE
        BY <2>1, <3>1, <3>2, <1>4 DEF Carries, KnowsRow, Access!Rows
      <3>4. Access!Begin(r, n) /\ UNCHANGED admins
        BY <1>6, <2>1, <3>1 DEF Access!Resolve
      <3> QED BY <3>3, <3>4, BeginKeeps
    <2>2. ASSUME Access!Begin(r, [pc |-> "claim", token |-> token, changes |-> FALSE])
          PROVE  AccessInv'
      <3>1. PICK n : n = [pc |-> "claim", token |-> token, changes |-> FALSE]
        OBVIOUS
      <3>2. Carries(n) /\ KnowsRow(n) /\ n.changes = FALSE
        BY <3>1 DEF Carries, KnowsRow
      <3>3. Access!Begin(r, n) /\ UNCHANGED admins
        BY <1>6, <2>2, <3>1 DEF Access!Resolve
      <3> QED BY <3>2, <3>3, BeginKeeps
    <2> QED BY <1>6, <2>1, <2>2 DEF Access!Resolve
  <1>7. ASSUME NEW id \in Access!Rows, Access!Claim(r, id) PROVE AccessInv'
    <2> PICK token : token = q.token
      OBVIOUS
    <2>1. /\ token \in Tokens /\ Access!IsEntitled(token) /\ admins[id].identity = NoIdentity
          /\ admins[id] \in AdminRows /\ id \in DOMAIN admins
      BY <1>4, <1>7 DEF Access!Claim, Carries, Access!Rows
    <2>2. /\ token.identity \in Identities
          /\ Access!Bound(admins[id], token.identity) \in AdminRows
      BY <2>1, BoundTyped
    <2>3. PICK n : n = Access!Save(id, Access!Bound(admins[id], token.identity), "admit", TRUE)
      OBVIOUS
    <2>4. Carries(n) /\ KnowsRow(n)
      BY <2>1, <2>2, <2>3 DEF Access!Save, Carries, KnowsRow
    <2>5. Access!Change(r, n) /\ UNCHANGED admins
      BY <1>7, <2>3 DEF Access!Claim
    <2> QED BY <2>4, <2>5, ChangeKeeps
  <1>8. ASSUME Access!Admit(r) PROVE AccessInv'
    <2>1. PICK n : n = Access!Save(q.id, q.copy, "enter", q.changes)
      OBVIOUS
    <2>2. q.pc = "admit" /\ Access!MayEnter(q.copy) /\ Access!Go(r, n) /\ UNCHANGED <<admins, adminCalm>>
      BY <1>8, <2>1 DEF Access!Admit
    <2>3. Carries(n) /\ (adminCalm => KnowsRow(n))
      <3>1. Carries(n)
        <4>1. q.id \in DOMAIN admins /\ q.copy \in AdminRows
          BY <2>2, <1>4 DEF Carries
        <4>2. n.pc = "compare" /\ n.then = "enter" /\ n.id = q.id /\ n.copy = q.copy
          BY <2>1 DEF Access!Save
        <4>3. n.pc # "claim" /\ n.pc # "write"
          BY <4>2
        <4>4. n.then = "enter" \/ (n.then \in {"update", "admit"} /\ n.changes)
          BY <4>2
        <4> QED BY <4>1, <4>2, <4>3, <4>4, Zenon DEF Carries
      <3>2. ASSUME adminCalm PROVE KnowsRow(n)
        <4>1. q.copy = admins[q.id] /\ Access!IsAdmitted(q.copy)
          BY <3>2, <2>2, <1>4 DEF KnowsRow, Access!MayEnter, Access!IsAdmitted
        <4>2. n.pc = "compare" /\ n.then = "enter" /\ n.id = q.id /\ n.copy = q.copy
          BY <2>1 DEF Access!Save
        <4> QED BY <4>1, <4>2 DEF KnowsRow
      <3> QED BY <3>1, <3>2
    <2>4. q # Access!Idle /\ n.changes = q.changes
      BY <2>1, <2>2 DEF Access!Idle, Access!Save
    <2> QED BY <2>2, <2>3, <2>4, GoesOn
  <1>9. ASSUME Access!Compare(r) PROVE AccessInv'
    <2>1. PICK n : n = [pc |-> "write", id |-> q.id, base |-> admins[q.id], copy |-> q.copy,
                        then |-> q.then, changes |-> q.changes]
      OBVIOUS
    <2>2. q.pc = "compare" /\ Access!Go(r, n) /\ UNCHANGED <<admins, adminCalm>>
      BY <1>9, <2>1 DEF Access!Compare
    <2>3. Carries(n) /\ (adminCalm => KnowsRow(n))
      BY <2>1, <2>2, <1>4 DEF Carries, KnowsRow
    <2>4. q # Access!Idle /\ n.changes = q.changes
      BY <2>1, <2>2 DEF Access!Idle
    <2> QED BY <2>2, <2>3, <2>4, GoesOn
  <1>10. ASSUME Access!Enter(r) \/ Access!Abort(r) PROVE AccessInv'
    <2>1. PICK n : n = Access!Idle
      OBVIOUS
    <2>2. Access!Go(r, n) /\ UNCHANGED <<admins, adminCalm>>
      BY <1>10, <2>1 DEF Access!Enter, Access!Abort, Access!Finish
    <2>3. Carries(n) /\ (adminCalm => KnowsRow(n))
      BY <2>1, IdleCarriesNothing
    <2>4. \/ n = Access!Idle
          \/ adminRequests[r] # Access!Idle /\ n.changes = adminRequests[r].changes
      BY <2>1
    <2> QED BY <2>2, <2>3, <2>4, GoesOn
  <1> QED BY <1>5, <1>6, <1>7, <1>8, <1>9, <1>10, WriteKeeps DEF Access!SignIn

LEMMA AccessInit == Init => AccessInv
PROOF
  <1> SUFFICES ASSUME Init PROVE AccessInv
    OBVIOUS
  <1>1. admins = <<>> /\ adminRequests = [r \in Requests |-> Access!Idle]
    BY DEF Init, Access!Init
  <1> QED BY <1>1, IdleCarriesNothing DEF AccessInv, AccessTypes, CalmAccess, Apart

LEMMA AccessStep == [Next]_vars => [Access!Next]_accessVars
  BY DEF Next, vars, accessVars

\* The inductive invariant of the administrators.
THEOREM AccessInOrder == Spec => []AccessInv
PROOF
  <1>1. AccessInv /\ [Next]_vars => AccessInv'
    BY AccessStep, AccessInvStep
  <1> QED BY AccessInit, <1>1, PTL DEF Spec

\* No hotel's identity is linked to an administrator, however requests meet; and whoever enters a
\* route is an active administrator, where no change meets another request.
THEOREM EntriesAreEarned == Spec => []EntryIsEarned
PROOF
  <1>1. AccessInv => EntryIsEarned
    <2> SUFFICES ASSUME AccessInv PROVE EntryIsEarned
      OBVIOUS
    <2>1. \A id \in DOMAIN admins : admins[id] \in AdminRows
      BY DEF AccessInv, AccessTypes
    <2>2. \A id \in DOMAIN admins : admins[id].identity \notin HotelIdentities
      BY <2>1, BackofficeAssumption DEF AdminRows, Access!Links, Access!AdminAssumption
    <2>3. adminCalm => \A r \in Requests :
            adminRequests[r].pc = "enter" => Access!IsAdmitted(admins[adminRequests[r].id])
      BY DEF AccessInv, CalmAccess, KnowsRow
    <2> QED BY <2>2, <2>3 DEF EntryIsEarned, Access!EntryIsEarned, Access!Rows
  <1> QED BY AccessInOrder, <1>1, PTL

\* Where no change meets another request, only an update takes back what was decided about a row:
\* a write for a sign-in leaves the row as it is, or gives it the identity it lacked.
THEOREM DecisionsAreKept == Spec => DecisionsStand
PROOF
  <1> DEFINE Stands(entry, later) ==
               /\ later.email = entry.email
               /\ later.identity # entry.identity => entry.identity = NoIdentity
               /\ later.status # entry.status =>
                    entry.status = "invited" /\ later.status = "active" /\ later.identity # entry.identity
             Stand == adminCalm => \A id \in Access!Rows : ~Access!Updates(id) =>
                        Stands(admins[id], admins'[id])
  <1>1. AccessInv /\ [Access!Next]_accessVars => Stand
    <2> SUFFICES ASSUME AccessInv, [Access!Next]_accessVars, adminCalm,
                        NEW id \in DOMAIN admins, ~Access!Updates(id), admins'[id] # admins[id]
                 PROVE  Stands(admins[id], admins'[id])
      BY DEF Access!Rows
    <2>1. admins' # admins
      OBVIOUS
    <2>2. \A entry : ~Access!Insert(entry)
      BY DEF Access!Insert, AccessInv, AccessTypes
    <2>3. PICK r \in Requests : Access!Write(r)
      BY <2>1, <2>2 DEF Access!Next, Access!UpdateStep, Access!SignIn, Access!Bootstrap, Access!Create,
           Access!StartUpdate, Access!Resolve, Access!Claim, Access!Admit, Access!Enter,
           Access!Compare, Access!Abort, Access!vars, accessVars
    <2> PICK q : q = adminRequests[r]
      OBVIOUS
    <2>4. /\ q.pc = "write" /\ q.copy \in AdminRows
          /\ q.then = "enter" \/ (q.then \in {"update", "admit"} /\ q.changes)
          /\ KnowsRow(q)
      BY <2>3 DEF Access!Write, AccessInv, AccessTypes, CalmAccess, Carries
    <2>5. /\ admins' = [admins EXCEPT ![q.id] = Access!Overlay(admins[q.id], q.base, q.copy)]
          /\ admins \in Seq(AdminRows) /\ admins[id] \in AdminRows
      BY <2>3 DEF Access!Write, AccessInv, AccessTypes
    <2>6. q.id = id
      BY <2>5
    <2>7. q.base = admins[id]
      BY <2>4, <2>6 DEF KnowsRow
    <2>8. admins'[id] = q.copy
      BY <2>4, <2>5, <2>6, <2>7, AdminOverlay
    <2>9. q.then = "admit"
      <3>1. q.then # "update"
        BY <2>4, <2>6 DEF Access!Updates
      <3>2. q.then # "enter"
        BY <2>4, <2>6, <2>8 DEF KnowsRow
      <3> QED BY <2>4, <3>1, <3>2
    <2>10. PICK identity \in Identities :
             q.copy = Access!Bound(admins[id], identity) /\ admins[id].identity = NoIdentity
      BY <2>4, <2>6, <2>9 DEF KnowsRow
    <2>11. identity # NoIdentity
      BY BackofficeAssumption DEF Access!AdminAssumption
    <2>12. /\ q.copy.email = admins[id].email /\ q.copy.identity = identity
           /\ q.copy.status = IF admins[id].status = "invited" THEN "active" ELSE admins[id].status
      BY <2>5, <2>10, BoundFields
    <2> QED BY <2>8, <2>10, <2>11, <2>12
  <1>2. AccessInv /\ [Next]_vars => [Stand]_(Access!vars)
    BY <1>1, AccessStep
  <1>3. DecisionsStand <=> [][Stand]_(Access!vars)
    BY PTL DEF DecisionsStand, Access!DecisionsStand
  <1> QED BY AccessInOrder, <1>2, <1>3, PTL DEF Spec

(***************************************************************************)
(* The import of the catalogue.  The keys hold for what the tables have,   *)
(* so that only what a file names twice is refused; and what it publishes  *)
(* it has told of every stop, until something else is written.             *)
(***************************************************************************)

\* A row of the tours' tables, and the keys.
CatalogRow(entry) == DOMAIN entry = DOMAIN Catalog!NewTour /\ Catalog!IsAccepted(entry)

CatalogInv ==
  /\ tours = [s \in Slugs |-> tours[s]]
  /\ \A s \in Slugs : tours[s] # None => CatalogRow(tours[s])
  /\ CatalogComesWhole

\* What the file brings meets the keys if the file names each once.
LEMMA ImportedIsRow ==
  ASSUME NEW old, NEW tour
  PROVE  LET entry == Catalog!Imported(old, tour) IN
         /\ DOMAIN entry = DOMAIN Catalog!NewTour
         /\ Catalog!IsAccepted(tour) => Catalog!IsAccepted(entry)
PROOF
  <1> PICK entry : entry = Catalog!Imported(old, tour)
    OBVIOUS
  <1>1. DOMAIN entry = DOMAIN Catalog!NewTour
    BY DEF Catalog!Imported, Catalog!NewTour
  <1>2. entry.stops = (IF tour.variant = "stops" THEN tour.stops ELSE <<>>) /\ entry.items = tour.items
    BY DEF Catalog!Imported, Catalog!Replaced
  <1>3. Catalog!IsInjective(<<>>)
    BY DEF Catalog!IsInjective
  <1>4. Catalog!IsAccepted(tour) => Catalog!IsAccepted(entry)
    BY <1>2, <1>3 DEF Catalog!IsAccepted
  <1> QED BY <1>1, <1>4

\* A valid file's tours are those of their slugs.
LEMMA RewrittenIsImported ==
  ASSUME NEW f \in Files, Catalog!IsValid(f), NEW i \in DOMAIN f.tours
  PROVE  /\ f.tours[i].slug \in Slugs
         /\ \E old : Catalog!Rewritten(f)[f.tours[i].slug] = Catalog!Imported(old, f.tours[i])
PROOF
  <1>1. f.tours[i].slug \in Slugs
    BY BackofficeAssumption DEF Catalog!CatalogAssumption
  <1>2. (CHOOSE j \in DOMAIN f.tours : f.tours[j].slug = f.tours[i].slug) = i
    BY DEF Catalog!IsValid
  <1>3. Catalog!Rewritten(f)[f.tours[i].slug] =
          Catalog!Imported(IF tours[f.tours[i].slug] = None THEN Catalog!NewTour
                           ELSE tours[f.tours[i].slug], f.tours[i])
    BY <1>1, <1>2 DEF Catalog!Rewritten
  <1> QED BY <1>1, <1>3

\* What is in the tables after a file came in is what was there or what the file brought.
LEMMA RewrittenIsEither ==
  ASSUME NEW f \in Files, Catalog!IsValid(f), NEW s \in Slugs
  PROVE  \/ Catalog!Rewritten(f)[s] = tours[s]
         \/ \E i \in DOMAIN f.tours : \E old : Catalog!Rewritten(f)[s] = Catalog!Imported(old, f.tours[i])
PROOF
  <1>1. CASE \E i \in DOMAIN f.tours : f.tours[i].slug = s
    BY <1>1, RewrittenIsImported
  <1>2. CASE ~\E i \in DOMAIN f.tours : f.tours[i].slug = s
    BY <1>2 DEF Catalog!Rewritten
  <1> QED BY <1>1, <1>2

\* What a text published with the file tells.
LEMMA PublishedIsTold ==
  ASSUME NEW f \in Files, Catalog!IsValid(f), NEW i \in DOMAIN f.tours, NEW old,
         NEW l \in DOMAIN f.tours[i].texts
  PROVE  LET entry == Catalog!Imported(old, f.tours[i]) IN
         entry.texts[l].published /\ entry.variant = "stops" =>
           entry.texts[l].described # None /\ Catalog!ToSet(entry.stops) \subseteq entry.texts[l].described
PROOF
  <1> PICK tour : tour = f.tours[i]
    OBVIOUS
  <1> PICK entry : entry = Catalog!Imported(old, tour)
    OBVIOUS
  <1>1. l \in Codes
    BY BackofficeAssumption DEF Catalog!CatalogAssumption, Catalog!IsValid
  <1>2. entry.texts[l] = [described |-> tour.texts[l].described,
                        ready |-> Catalog!IsReady(tour, tour.texts[l]),
                        published |-> Catalog!IsReady(tour, tour.texts[l])]
    BY <1>1 DEF Catalog!Imported, Catalog!Translated
  <1>3. entry.variant = tour.variant /\ (tour.variant = "stops" => entry.stops = tour.stops)
    BY DEF Catalog!Imported, Catalog!Replaced
  <1>4. entry.texts[l].published /\ entry.variant = "stops" =>
          entry.texts[l].described # None /\ Catalog!ToSet(entry.stops) \subseteq entry.texts[l].described
    BY <1>2, <1>3 DEF Catalog!IsReady
  <1> QED BY <1>4

LEMMA UpKeeps == ASSUME CatalogInv, NEW f \in Files, Catalog!Up(f) PROVE CatalogInv'
PROOF
  <1>1. Catalog!IsValid(f) /\ file' = f /\ phase = "pending"
    BY DEF Catalog!Up
  <1>2. CASE \A s \in Slugs : Catalog!Rewritten(f)[s] # None => Catalog!IsAccepted(Catalog!Rewritten(f)[s])
    <2>1. tours' = Catalog!Rewritten(f) /\ phase' = "imported" /\ refused' = FALSE
      BY <1>2 DEF Catalog!Up
    <2>2. tours' = [s \in Slugs |-> tours'[s]]
      BY <2>1 DEF Catalog!Rewritten
    <2>3. \A s \in Slugs : tours'[s] # None => DOMAIN tours'[s] = DOMAIN Catalog!NewTour
      BY <1>1, <2>1, RewrittenIsEither, ImportedIsRow DEF CatalogInv, CatalogRow
    <2>4. CatalogComesWhole'
      <3>1. ASSUME NEW i \in DOMAIN f.tours, NEW l \in DOMAIN f.tours[i].texts
            PROVE  LET entry == tours'[f.tours[i].slug] IN
                   entry.texts[l].published /\ entry.variant = "stops" =>
                     entry.texts[l].described # None /\ Catalog!ToSet(entry.stops) \subseteq entry.texts[l].described
        <4>1. PICK old : tours'[f.tours[i].slug] = Catalog!Imported(old, f.tours[i])
          BY <1>1, <2>1, RewrittenIsImported
        <4> QED BY <1>1, <4>1, PublishedIsTold
      <3>2. ~refused'
        BY <2>1
      <3> QED BY <1>1, <3>1, <3>2 DEF CatalogComesWhole, Catalog!CatalogComesWhole
    <2> QED BY <1>2, <2>1, <2>2, <2>3, <2>4 DEF CatalogInv, CatalogRow
  <1>3. CASE ~\A s \in Slugs : Catalog!Rewritten(f)[s] # None => Catalog!IsAccepted(Catalog!Rewritten(f)[s])
    <2>1. refused' /\ UNCHANGED <<tours, phase>>
      BY <1>3 DEF Catalog!Up, Catalog!tables
    <2>2. PICK s \in Slugs : Catalog!Rewritten(f)[s] # None /\ ~Catalog!IsAccepted(Catalog!Rewritten(f)[s])
      BY <1>3
    <2>3. PICK i \in DOMAIN f.tours : ~Catalog!IsAccepted(f.tours[i])
      BY <2>2, <1>1, RewrittenIsEither, ImportedIsRow DEF CatalogInv, CatalogRow
    <2>4. CatalogComesWhole'
      BY <1>1, <2>1, <2>3 DEF CatalogComesWhole, Catalog!CatalogComesWhole, Catalog!NamesEachOnce
    <2> QED BY <2>1, <2>4 DEF CatalogInv, CatalogRow
  <1> QED BY <1>2, <1>3

\* The reverted import deletes no medium that something refers to: it is never refused.
LEMMA DownKeeps == CatalogInv /\ Catalog!Down => CatalogInv'
PROOF
  <1> SUFFICES ASSUME CatalogInv, Catalog!Down PROVE CatalogInv'
    OBVIOUS
  <1> DEFINE left == [s \in Slugs |->
                        IF \E i \in DOMAIN file.tours : file.tours[i].slug = s THEN None ELSE tours[s]]
  <1>1. (file.media \ Catalog!Spared(left)) \cap Catalog!Referred(left) = {}
    BY DEF Catalog!Spared
  <1>2. tours' = left /\ phase' = "pending" /\ refused' = FALSE
    BY <1>1 DEF Catalog!Down
  <1> QED BY <1>2 DEF CatalogInv, CatalogRow, CatalogComesWhole, Catalog!CatalogComesWhole

\* What administrators write is of no file.
LEMMA WorkKeeps ==
  ASSUME CatalogInv, Catalog!Work, tours' = [s \in Slugs |-> tours'[s]],
         \A s \in Slugs : tours'[s] # None => CatalogRow(tours'[s])
  PROVE  CatalogInv'
PROOF
  <1>1. file' = file /\ refused' = refused /\ phase' # "imported"
    BY DEF Catalog!Work
  <1> QED BY <1>1 DEF CatalogInv, CatalogRow, CatalogComesWhole, Catalog!CatalogComesWhole, Catalog!NamesEachOnce

LEMMA CatalogInvStep == CatalogInv /\ [Catalog!Next]_catalogVars => CatalogInv'
PROOF
  <1> SUFFICES ASSUME CatalogInv, [Catalog!Next]_catalogVars PROVE CatalogInv'
    OBVIOUS
  <1>1. CASE UNCHANGED catalogVars
    BY <1>1 DEF catalogVars, CatalogInv, CatalogComesWhole, Catalog!CatalogComesWhole, Catalog!NamesEachOnce
  <1>2. ASSUME NEW s \in Slugs, NEW entry \in Found, Catalog!EditTour(s, entry) PROVE CatalogInv'
    <2>1. tours' = [t \in Slugs |-> IF t = s THEN entry ELSE tours[t]]
      BY <1>2 DEF Catalog!EditTour, CatalogInv
    <2>2. CatalogRow(entry)
      BY BackofficeAssumption DEF Catalog!CatalogAssumption, CatalogRow
    <2>3. tours' = [t \in Slugs |-> tours'[t]] /\ \A t \in Slugs : tours'[t] # None => CatalogRow(tours'[t])
      BY <2>1, <2>2 DEF CatalogInv
    <2> QED BY <1>2, <2>3, WorkKeeps DEF Catalog!EditTour
  <1>3. ASSUME NEW k \in Keys, Catalog!RemoveTag(k) PROVE CatalogInv'
    <2>1. tours' = [s \in Slugs |->
                      IF tours[s] = None THEN None ELSE [tours[s] EXCEPT !.tags = @ \ {k}]]
      BY <1>3 DEF Catalog!RemoveTag
    <2>2. ASSUME NEW entry, CatalogRow(entry) PROVE CatalogRow([entry EXCEPT !.tags = @ \ {k}])
      <3>1. {"stops", "items", "tags"} \subseteq DOMAIN entry
        BY <2>2 DEF CatalogRow, Catalog!NewTour
      <3> PICK cut : cut = [entry EXCEPT !.tags = @ \ {k}]
        OBVIOUS
      <3>2. DOMAIN cut = DOMAIN entry /\ cut.stops = entry.stops /\ cut.items = entry.items
        BY <3>1
      <3> QED BY <2>2, <3>2 DEF CatalogRow, Catalog!IsAccepted
    <2>3. tours' = [t \in Slugs |-> tours'[t]] /\ \A t \in Slugs : tours'[t] # None => CatalogRow(tours'[t])
      BY <2>1, <2>2 DEF CatalogInv
    <2> QED BY <1>3, <2>3, WorkKeeps DEF Catalog!RemoveTag
  <1>4. ASSUME Catalog!Work, tours' = tours PROVE CatalogInv'
    BY <1>4, WorkKeeps DEF CatalogInv
  <1> QED BY <1>1, <1>2, <1>3, <1>4, UpKeeps, DownKeeps DEF Catalog!Next, Catalog!SetHero, Catalog!Upload,
          Catalog!RemoveMedium, Catalog!ClearHero, Catalog!CreateTag

LEMMA CatalogInit == Init => CatalogInv
  BY DEF Init, Catalog!Init, CatalogInv, CatalogComesWhole, Catalog!CatalogComesWhole

LEMMA CatalogStep == [Next]_vars => [Catalog!Next]_catalogVars
  BY DEF Next, vars, catalogVars

\* Whatever the tables hold, the import and its reversal are refused only for a file that names a
\* stop, a medium or a position of a tour twice, and what it publishes tells of each of its stops.
THEOREM CatalogsComeWhole == Spec => []CatalogComesWhole
PROOF
  <1>1. CatalogInv /\ [Next]_vars => CatalogInv'
    BY CatalogStep, CatalogInvStep
  <1>2. CatalogInv => CatalogComesWhole
    BY DEF CatalogInv
  <1> QED BY CatalogInit, <1>1, <1>2, PTL DEF Spec

(***************************************************************************)
(* The blog.  While administrators' requests do not meet, the one in       *)
(* flight knows the row it loaded; the date agrees with the flags except   *)
(* between the change of a flag and the end of its request.                *)
(***************************************************************************)

AnyPublished == \E l \in Locales : translations[l] # NoRow /\ translations[l].published

\* Rows have the ids given out, each its own, and none without a text is published.
BlogTable ==
  /\ translations \in [Locales -> Blog!Row \cup {NoRow}]
  /\ ids \in 0..MaxIds
  /\ \A l \in Locales : translations[l] # NoRow =>
       /\ translations[l].id <= ids
       /\ translations[l].published => translations[l].ready
  /\ \A l, m \in Locales :
       translations[l] # NoRow /\ translations[m] # NoRow /\ translations[l].id = translations[m].id => l = m

\* A request that has changed a flag and not yet settled the date.
Settles(q) == q.pc \in {"synchronize", "clear"}

\* The copy of a row to be saved: it publishes what is ready, and only if the date is set after.
CopyOf(q, r) ==
  /\ q.copy \in Blog!Row /\ q.copy.id = r.id
  /\ q.copy.published => q.copy.ready
  /\ q.dates => q.copy.published
  /\ q.copy.published => q.dates \/ r.published

\* What a request in flight knows, while it is alone.
KnowsBlog(q) ==
  /\ q.pc = "create" => q.ready \in BOOLEAN
  /\ q.pc = "compare" =>
       /\ q.locale \in Locales /\ translations[q.locale] # NoRow
       /\ CopyOf(q, translations[q.locale])
       /\ unseen => q.copy.views = translations[q.locale].views
  /\ q.pc = "write" =>
       /\ \E l \in Locales : LET r == translations[l] IN
            /\ r # NoRow /\ CopyOf(q, r)
            /\ q.base.id = r.id /\ q.base.ready = r.ready /\ q.base.published = r.published
       /\ q.base \in Blog!Row
       /\ unseen => q.copy.views = q.base.views
  /\ q.pc # "insert"
  /\ q.pc = "synchronize" =>
       (q.dates => AnyPublished) /\ (~q.dates /\ AnyPublished => isDated)
  /\ q.pc = "clear" => ~AnyPublished
  /\ q.pc = "update" => q.isDated = isDated

CalmBlog ==
  /\ BlogTable
  /\ \A r, s \in Requests : r # s => blogRequests[r] = Blog!Idle \/ blogRequests[s] = Blog!Idle
  /\ \A r \in Requests : KnowsBlog(blogRequests[r])
  /\ (\A r \in Requests : ~Settles(blogRequests[r])) => (isDated <=> AnyPublished)

\* Each row has the views that counted, and an id not given out none.
Tally ==
  /\ counted \in [1..MaxIds -> Nat]
  /\ \A l \in Locales : translations[l] # NoRow => translations[l].views = counted[translations[l].id]
  /\ \A id \in 1..MaxIds : id > ids => counted[id] = 0

BlogInv ==
  /\ blogRequests = [r \in Requests |-> blogRequests[r]]
  /\ unseen => blogCalm
  /\ blogCalm => CalmBlog
  /\ unseen => Tally

LEMMA IdleKnowsNothing == KnowsBlog(Blog!Idle) /\ ~Settles(Blog!Idle)
  BY DEF KnowsBlog, Settles, Blog!Idle

\* One slot changes, and the post does not.
LEMMA BlogSlot ==
  ASSUME BlogInv, NEW r \in Requests, NEW q, blogRequests' = [blogRequests EXCEPT ![r] = q],
         UNCHANGED <<translations, isDated, ids>>,
         unseen' => unseen /\ blogCalm' /\ counted' = counted,
         blogCalm' =>
           /\ blogCalm /\ KnowsBlog(q)
           /\ q = Blog!Idle \/ \A s \in Requests : s # r => blogRequests[s] = Blog!Idle
           /\ Settles(blogRequests[r]) => Settles(q) \/ (isDated <=> AnyPublished)
  PROVE  BlogInv'
PROOF
  <1>1. blogRequests' = [s \in Requests |-> IF s = r THEN q ELSE blogRequests[s]]
    BY DEF BlogInv
  <1>2. AnyPublished' = AnyPublished /\ (BlogTable' <=> BlogTable)
    BY DEF AnyPublished, BlogTable
  <1>3. ASSUME blogCalm' PROVE CalmBlog'
    <2>1. CalmBlog /\ KnowsBlog(q)
      BY <1>3 DEF BlogInv
    <2>2. \A s, t \in Requests : s # t => blogRequests'[s] = Blog!Idle \/ blogRequests'[t] = Blog!Idle
      BY <1>1, <1>3, <2>1 DEF CalmBlog
    <2>3. \A s \in Requests : KnowsBlog(blogRequests[s])'
      <3>1. \A s \in Requests : KnowsBlog(blogRequests'[s])
        BY <1>1, <2>1 DEF CalmBlog
      <3> QED BY <3>1, <1>2 DEF KnowsBlog, CopyOf
    <2>4. (\A s \in Requests : ~Settles(blogRequests'[s])) => (isDated' <=> AnyPublished')
      <3> SUFFICES ASSUME \A s \in Requests : ~Settles(blogRequests'[s]) PROVE isDated <=> AnyPublished
        BY <1>2
      <3>1. CASE Settles(blogRequests[r])
        BY <1>1, <1>3, <3>1
      <3>2. CASE ~Settles(blogRequests[r])
        BY <1>1, <2>1, <3>2 DEF CalmBlog
      <3> QED BY <3>1, <3>2
    <2> QED BY <1>2, <2>1, <2>2, <2>3, <2>4 DEF CalmBlog, Settles
  <1>4. unseen' => Tally'
    BY DEF BlogInv, Tally
  <1> QED BY <1>1, <1>3, <1>4 DEF BlogInv

\* A request changes the post: where none meets another, it is alone.
LEMMA BlogChanges ==
  ASSUME BlogInv, NEW r \in Requests, NEW q, blogRequests' = [blogRequests EXCEPT ![r] = q],
         blogRequests[r] # Blog!Idle, UNCHANGED <<blogCalm, unseen>>,
         blogCalm => BlogTable' /\ KnowsBlog(q)' /\ (~Settles(q) => (isDated <=> AnyPublished)'),
         unseen => Tally'
  PROVE  BlogInv'
PROOF
  <1>1. blogRequests' = [s \in Requests |-> IF s = r THEN q ELSE blogRequests[s]]
    BY DEF BlogInv
  <1>2. ASSUME blogCalm PROVE CalmBlog'
    <2>1. \A s \in Requests : s # r => blogRequests'[s] = Blog!Idle
      BY <1>1, <1>2 DEF BlogInv, CalmBlog
    <2>2. blogRequests'[r] = q
      BY <1>1
    <2>3. KnowsBlog(Blog!Idle)'
      BY DEF KnowsBlog, Blog!Idle
    <2>4. ASSUME NEW s \in Requests PROVE KnowsBlog(blogRequests[s])'
      <3>1. CASE s = r
        BY <1>2, <2>2, <3>1 DEF KnowsBlog, CopyOf
      <3>2. CASE s # r
        BY <2>1, <3>2 DEF KnowsBlog, Blog!Idle
      <3> QED BY <3>1, <3>2
    <2>5. (\A s \in Requests : ~Settles(blogRequests[s]))' => (isDated <=> AnyPublished)'
      BY <1>2, <2>2 DEF Settles
    <2> QED BY <1>2, <2>1, <2>4, <2>5 DEF CalmBlog
  <1> QED BY <1>1, <1>2 DEF BlogInv

LEMMA BlogStarts ==
  ASSUME BlogInv, NEW r \in Requests, NEW q, Blog!Start(r, q), blogCalm => KnowsBlog(q)
  PROVE  BlogInv'
PROOF
  <1>1. /\ blogRequests[r] = Blog!Idle /\ blogRequests' = [blogRequests EXCEPT ![r] = q]
        /\ UNCHANGED <<translations, isDated, ids>>
    BY DEF Blog!Start, Blog!post
  <1>2. /\ blogCalm' => blogCalm /\ \A s \in Requests : blogRequests[s] = Blog!Idle
        /\ unseen' => unseen /\ blogCalm' /\ counted' = counted
    BY DEF Blog!Start, Blog!Quiet, Blog!Remember
  <1>3. ~Settles(blogRequests[r])
    BY <1>1, IdleKnowsNothing
  <1>4. blogCalm' => KnowsBlog(q)
    BY <1>2
  <1> QED BY <1>1, <1>2, <1>3, <1>4, BlogSlot

\* What a copy of a row is changed to.
LEMMA CopyFields ==
  ASSUME NEW r \in Blog!Row, NEW ready \in BOOLEAN
  PROVE  /\ Blog!Edited(r, ready) = [id |-> r.id, ready |-> ready, published |-> r.published /\ ready,
                                     views |-> r.views]
         /\ Blog!PublishedIfReady(r) = [id |-> r.id, ready |-> r.ready, published |-> r.ready,
                                        views |-> r.views]
         /\ [r EXCEPT !.published = FALSE] = [id |-> r.id, ready |-> r.ready, published |-> FALSE,
                                              views |-> r.views]
PROOF
  <1>1. r = [id |-> r.id, ready |-> r.ready, published |-> r.published, views |-> r.views]
    BY DEF Blog!Row
  <1> PICK one : one = [id |-> r.id, ready |-> ready, published |-> r.published, views |-> r.views]
    OBVIOUS
  <1>2. [r EXCEPT !.ready = ready] = one
    BY <1>1
  <1>3. [one EXCEPT !.published = @ /\ ready] =
          [id |-> r.id, ready |-> ready, published |-> r.published /\ ready, views |-> r.views]
    <2>1. one.published = r.published
      OBVIOUS
    <2>2. ASSUME NEW b
          PROVE  [one EXCEPT !.published = b] =
                   [id |-> r.id, ready |-> ready, published |-> b, views |-> r.views]
      OBVIOUS
    <2> QED BY <2>1, <2>2, Zenon
  <1>4. Blog!Edited(r, ready) = [one EXCEPT !.published = @ /\ ready]
    BY <1>2 DEF Blog!Edited
  <1>5. Blog!PublishedIfReady(r) =
          [id |-> r.id, ready |-> r.ready, published |-> r.ready, views |-> r.views]
    BY <1>1 DEF Blog!PublishedIfReady
  <1>6. [r EXCEPT !.published = FALSE] =
          [id |-> r.id, ready |-> r.ready, published |-> FALSE, views |-> r.views]
    <2> PICK b : b = FALSE
      OBVIOUS
    <2>1. [r EXCEPT !.published = b] = [id |-> r.id, ready |-> r.ready, published |-> b, views |-> r.views]
      BY <1>1
    <2> QED BY <2>1, Zenon
  <1> QED BY <1>3, <1>4, <1>5, <1>6

\* A copy is saved as it was loaded, but for its flags.
LEMMA SaveBegins ==
  ASSUME BlogInv, NEW r \in Requests, NEW l \in Locales, NEW copy, NEW dates,
         Blog!StartSave(r, l, copy, dates),
         blogCalm => LET was == translations[l] IN
           /\ copy.published \in BOOLEAN /\ copy.ready \in BOOLEAN
           /\ copy = [id |-> was.id, ready |-> copy.ready, published |-> copy.published,
                      views |-> was.views]
           /\ copy.published => copy.ready
           /\ dates => copy.published
           /\ copy.published => dates \/ was.published
  PROVE  BlogInv'
PROOF
  <1> PICK q : q = [pc |-> "compare", locale |-> l, copy |-> copy, dates |-> dates]
    OBVIOUS
  <1>1. translations[l] # NoRow /\ Blog!Start(r, q)
    BY DEF Blog!StartSave
  <1>2. ASSUME blogCalm PROVE KnowsBlog(q)
    <2>1. translations[l] \in Blog!Row
      BY <1>1, <1>2 DEF BlogInv, CalmBlog, BlogTable
    <2>2. copy \in Blog!Row /\ copy.id = translations[l].id /\ copy.views = translations[l].views
      BY <2>1, <1>2 DEF Blog!Row
    <2>3. CopyOf(q, translations[l])
      BY <2>2, <1>2 DEF CopyOf
    <2> QED BY <2>2, <2>3, <1>1 DEF KnowsBlog
  <1> QED BY <1>1, <1>2, BlogStarts

LEMMA SavesBegin ==
  ASSUME BlogInv, NEW r \in Requests, NEW l \in Locales,
         \/ \E ready \in BOOLEAN : Blog!UpdateTranslation(r, l, ready)
         \/ Blog!PublishTranslation(r, l) \/ Blog!UnpublishTranslation(r, l)
  PROVE  BlogInv'
PROOF
  <1>1. translations[l] # NoRow
    BY DEF Blog!UpdateTranslation, Blog!PublishTranslation, Blog!UnpublishTranslation, Blog!StartSave
  <1>2. blogCalm => /\ translations[l] \in Blog!Row
                    /\ translations[l].published => translations[l].ready
                    /\ translations[l].published \in BOOLEAN /\ translations[l].ready \in BOOLEAN
    BY <1>1 DEF BlogInv, CalmBlog, BlogTable, Blog!Row
  <1>3. ASSUME NEW ready \in BOOLEAN, Blog!UpdateTranslation(r, l, ready) PROVE BlogInv'
    <2> PICK copy : copy = Blog!Edited(translations[l], ready)
      OBVIOUS
    <2>1. Blog!StartSave(r, l, copy, FALSE)
      BY <1>3 DEF Blog!UpdateTranslation
    <2>2. blogCalm => copy = [id |-> translations[l].id, ready |-> ready,
                              published |-> translations[l].published /\ ready,
                              views |-> translations[l].views]
      BY <1>2, CopyFields
    <2> QED BY <1>2, <2>1, <2>2, SaveBegins
  <1>4. ASSUME Blog!PublishTranslation(r, l) PROVE BlogInv'
    <2> PICK copy : copy = Blog!PublishedIfReady(translations[l])
      OBVIOUS
    <2>1. Blog!StartSave(r, l, copy, translations[l].ready)
      BY <1>4 DEF Blog!PublishTranslation
    <2>2. blogCalm => copy = [id |-> translations[l].id, ready |-> translations[l].ready,
                              published |-> translations[l].ready, views |-> translations[l].views]
      BY <1>2, CopyFields
    <2> QED BY <1>2, <2>1, <2>2, SaveBegins
  <1>5. ASSUME Blog!UnpublishTranslation(r, l) PROVE BlogInv'
    <2> PICK copy : copy = [translations[l] EXCEPT !.published = FALSE]
      OBVIOUS
    <2>1. Blog!StartSave(r, l, copy, FALSE)
      BY <1>5 DEF Blog!UnpublishTranslation
    <2>2. blogCalm => copy = [id |-> translations[l].id, ready |-> translations[l].ready,
                              published |-> FALSE, views |-> translations[l].views]
      BY <1>2, CopyFields
    <2> QED BY <1>2, <2>1, <2>2, SaveBegins
  <1> QED BY <1>3, <1>4, <1>5

\* The other requests begin with what is there.
LEMMA OthersBegin ==
  ASSUME BlogInv, NEW r \in Requests,
         \/ \E l \in Locales, ready \in BOOLEAN : Blog!StartCreate(r, l, ready)
         \/ \E l \in Locales : Blog!StartDelete(r, l)
         \/ Blog!StartUpdate(r)
  PROVE  BlogInv'
PROOF
  <1>1. ASSUME NEW l \in Locales, NEW ready \in BOOLEAN, Blog!StartCreate(r, l, ready) PROVE BlogInv'
    <2>1. PICK q : q = [pc |-> "create", locale |-> l, ready |-> ready]
      OBVIOUS
    <2>2. q.pc = "create" /\ q.ready = ready
      BY <2>1
    <2>3. KnowsBlog(q) /\ Blog!Start(r, q)
      BY <1>1, <2>1, <2>2 DEF KnowsBlog, Blog!StartCreate
    <2> QED BY <2>3, BlogStarts
  <1>2. ASSUME NEW l \in Locales, Blog!StartDelete(r, l) PROVE BlogInv'
    <2>1. PICK q : q = [pc |-> "delete", id |-> translations[l].id]
      OBVIOUS
    <2>2. KnowsBlog(q) /\ Blog!Start(r, q)
      BY <1>2, <2>1 DEF KnowsBlog, Blog!StartDelete
    <2> QED BY <2>2, BlogStarts
  <1>3. ASSUME Blog!StartUpdate(r) PROVE BlogInv'
    <2>1. PICK q : q = [pc |-> "update", ids |-> { w.id : w \in Blog!Rows }, isDated |-> isDated]
      OBVIOUS
    <2>2. q.pc = "update" /\ q.isDated = isDated
      BY <2>1
    <2>3. KnowsBlog(q) /\ Blog!Start(r, q)
      BY <1>3, <2>1, <2>2 DEF KnowsBlog, Blog!StartUpdate
    <2> QED BY <2>3, BlogStarts
  <1> QED BY <1>1, <1>2, <1>3

\* A request that ends half way has changed no flag, where the history holds.
LEMMA AbortKeepsBlog == ASSUME BlogInv, NEW r \in Requests, Blog!Abort(r) PROVE BlogInv'
PROOF
  <1>1. /\ blogRequests' = [blogRequests EXCEPT ![r] = Blog!Idle]
        /\ UNCHANGED <<translations, isDated, ids>>
        /\ unseen' => unseen /\ blogCalm' /\ counted' = counted
        /\ blogCalm' => blogCalm /\ ~Settles(blogRequests[r])
    BY DEF Blog!Abort, Blog!Finish, Blog!Go, Blog!post, Blog!Remember, Settles
  <1> PICK q : q = Blog!Idle
    OBVIOUS
  <1>2. KnowsBlog(q)
    BY IdleKnowsNothing
  <1> QED BY <1>1, <1>2, BlogSlot

\* The only request finds the row it loaded, so that save inserts none.
LEMMA CompareKeepsBlog == ASSUME BlogInv, NEW r \in Requests, Blog!Compare(r) PROVE BlogInv'
PROOF
  <1> PICK q : q = blogRequests[r]
    OBVIOUS
  <1>1. q.pc = "compare" /\ UNCHANGED <<translations, isDated, ids, counted, blogCalm, unseen>>
    BY DEF Blog!Compare, Blog!post, Blog!history
  <1>2. unseen' => unseen /\ blogCalm' /\ counted' = counted
    BY <1>1 DEF BlogInv
  <1>3. ~Settles(q)
    BY <1>1 DEF Settles
  <1>4. ASSUME blogCalm
        PROVE  /\ KnowsBlog(q)
               /\ \A s \in Requests : s # r => blogRequests[s] = Blog!Idle
    BY <1>1, <1>4 DEF BlogInv, CalmBlog, Blog!Idle
  <1>5. ASSUME NEW base \in Blog!Rows, base.id = q.copy.id,
               Blog!Go(r, [pc |-> "write", base |-> base, copy |-> q.copy, dates |-> q.dates])
        PROVE  BlogInv'
    <2> PICK n : n = [pc |-> "write", base |-> base, copy |-> q.copy, dates |-> q.dates]
      OBVIOUS
    <2>1. blogRequests' = [blogRequests EXCEPT ![r] = n]
      BY <1>5 DEF Blog!Go
    <2>2. ASSUME blogCalm PROVE KnowsBlog(n)
      <3>1. PICK l \in Locales : base = translations[l] /\ base # NoRow
        BY DEF Blog!Rows
      <3>2. /\ q.locale \in Locales /\ translations[q.locale] # NoRow
            /\ CopyOf(q, translations[q.locale])
            /\ unseen => q.copy.views = translations[q.locale].views
        BY <1>1, <1>4, <2>2 DEF KnowsBlog
      <3>3. l = q.locale /\ base \in Blog!Row
        BY <1>5, <2>2, <3>1, <3>2 DEF BlogInv, CalmBlog, BlogTable, CopyOf
      <3>4. n.pc = "write" /\ n.base = base /\ n.copy = q.copy /\ n.dates = q.dates
        OBVIOUS
      <3> QED BY <3>1, <3>2, <3>3, <3>4 DEF KnowsBlog, CopyOf
    <2> QED BY <1>1, <1>2, <1>3, <1>4, <2>1, <2>2, BlogSlot
  <1>6. ASSUME \A base \in Blog!Rows : base.id # q.copy.id, Blog!Go(r, [q EXCEPT !.pc = "insert"])
        PROVE  BlogInv'
    <2>1. ~blogCalm
      <3> SUFFICES ASSUME blogCalm PROVE FALSE
        OBVIOUS
      <3>1. q.locale \in Locales /\ translations[q.locale] # NoRow /\ translations[q.locale].id = q.copy.id
        BY <1>1, <1>4 DEF KnowsBlog, CopyOf
      <3> QED BY <1>6, <3>1 DEF Blog!Rows
    <2>2. ~blogCalm' /\ ~unseen'
      BY <1>1, <2>1 DEF BlogInv
    <2>3. blogRequests' = [s \in Requests |-> IF s = r THEN [q EXCEPT !.pc = "insert"] ELSE blogRequests[s]]
      BY <1>6 DEF Blog!Go, BlogInv
    <2> QED BY <2>2, <2>3 DEF BlogInv
  <1> QED BY <1>5, <1>6 DEF Blog!Compare

\* What is written: the flags of the copy, and the views of the row unless the copy's differ.
LEMMA BlogOverlay ==
  ASSUME NEW now \in Blog!Row, NEW base \in Blog!Row, NEW copy \in Blog!Row,
         base.id = now.id, copy.id = now.id, base.ready = now.ready, base.published = now.published
  PROVE  LET w == Blog!Overlay(now, base, copy) IN
         /\ w \in Blog!Row /\ w.id = now.id /\ w.ready = copy.ready /\ w.published = copy.published
         /\ copy.views = base.views => w.views = now.views
PROOF
  <1> PICK w : w = Blog!Overlay(now, base, copy)
    OBVIOUS
  <1>1. DOMAIN now = {"id", "ready", "published", "views"}
    BY DEF Blog!Row
  <1>2. w = [f \in {"id", "ready", "published", "views"} |->
               IF copy[f] = base[f] THEN now[f] ELSE copy[f]]
    BY <1>1 DEF Blog!Overlay
  <1>3. /\ w.id = (IF copy.id = base.id THEN now.id ELSE copy.id)
        /\ w.ready = (IF copy.ready = base.ready THEN now.ready ELSE copy.ready)
        /\ w.published = (IF copy.published = base.published THEN now.published ELSE copy.published)
        /\ w.views = (IF copy.views = base.views THEN now.views ELSE copy.views)
    BY <1>2, Zenon
  <1>4. w.id = now.id /\ (copy.views = base.views => w.views = now.views)
    BY <1>3
  <1>5. w.ready = copy.ready /\ w.published = copy.published
    BY <1>3, Zenon
  <1>6. w = [id |-> w.id, ready |-> w.ready, published |-> w.published, views |-> w.views]
    BY <1>2
  <1>7. w.id \in 1..MaxIds /\ w.ready \in BOOLEAN /\ w.published \in BOOLEAN /\ w.views \in 0..MaxViews
    BY <1>3, <1>4, <1>5 DEF Blog!Row
  <1>8. w \in Blog!Row
    BY <1>6, <1>7 DEF Blog!Row
  <1> QED BY <1>4, <1>5, <1>8

\* A save makes the row the copy, with the views of the row if none counted unseen.
LEMMA WriteKeepsBlog == ASSUME BlogInv, NEW r \in Requests, Blog!Write(r) PROVE BlogInv'
PROOF
  <1> PICK q : q = blogRequests[r]
    OBVIOUS
  <1> PICK n : n = Blog!Synchronize(q)
    OBVIOUS
  <1>1. /\ q.pc = "write" /\ q # Blog!Idle
        /\ blogRequests' = [blogRequests EXCEPT ![r] = n]
        /\ UNCHANGED <<isDated, ids, counted, blogCalm, unseen>>
        /\ translations' = [l \in Locales |->
             IF translations[l] # NoRow /\ translations[l].id = q.copy.id
             THEN Blog!Overlay(translations[l], q.base, q.copy) ELSE translations[l]]
    BY DEF Blog!Write, Blog!Go, Blog!history, Blog!Idle
  <1>2. n.pc = "synchronize" /\ n.dates = q.dates
    BY DEF Blog!Synchronize
  <1>3. ASSUME blogCalm
        PROVE  \E l \in Locales : \E w \in Blog!Row :
                 /\ translations[l] # NoRow /\ translations[l] \in Blog!Row /\ CopyOf(q, translations[l])
                 /\ w.id = translations[l].id /\ w.ready = q.copy.ready /\ w.published = q.copy.published
                 /\ unseen => w.views = translations[l].views
                 /\ translations' = [m \in Locales |-> IF m = l THEN w ELSE translations[m]]
    <2>1. KnowsBlog(q) /\ BlogTable
      BY <1>3 DEF BlogInv, CalmBlog
    <2>2. PICK l \in Locales :
            /\ translations[l] # NoRow /\ CopyOf(q, translations[l])
            /\ q.base.id = translations[l].id /\ q.base.ready = translations[l].ready
            /\ q.base.published = translations[l].published
      BY <1>1, <2>1 DEF KnowsBlog
    <2>3. /\ translations[l] \in Blog!Row /\ q.base \in Blog!Row /\ q.copy \in Blog!Row
          /\ q.copy.id = translations[l].id
          /\ unseen => q.copy.views = q.base.views
      BY <1>1, <2>1, <2>2 DEF KnowsBlog, BlogTable, CopyOf
    <2> PICK w : w = Blog!Overlay(translations[l], q.base, q.copy)
      OBVIOUS
    <2>4. /\ w \in Blog!Row /\ w.id = translations[l].id /\ w.ready = q.copy.ready
          /\ w.published = q.copy.published
          /\ unseen => w.views = translations[l].views
      BY <2>2, <2>3, BlogOverlay
    <2>5. \A m \in Locales : translations[m] # NoRow /\ translations[m].id = q.copy.id <=> m = l
      BY <2>1, <2>2, <2>3 DEF BlogTable
    <2>6. translations' = [m \in Locales |-> IF m = l THEN w ELSE translations[m]]
      BY <1>1, <2>5
    <2> QED BY <2>2, <2>3, <2>4, <2>6
  <1>4. ASSUME blogCalm
        PROVE BlogTable' /\ KnowsBlog(n)' /\ (~Settles(n) => (isDated <=> AnyPublished)')
    <2>1. PICK l \in Locales, w \in Blog!Row :
            /\ translations[l] # NoRow /\ translations[l] \in Blog!Row /\ CopyOf(q, translations[l])
            /\ w.id = translations[l].id /\ w.ready = q.copy.ready /\ w.published = q.copy.published
            /\ translations' = [m \in Locales |-> IF m = l THEN w ELSE translations[m]]
      BY <1>3, <1>4
    <2>2. BlogTable /\ w # NoRow
      BY <1>4, BackofficeAssumption DEF BlogInv, CalmBlog, Blog!BlogAssumption
    <2>3. BlogTable'
      <3>1. translations' \in [Locales -> Blog!Row \cup {NoRow}]
        BY <2>1, <2>2 DEF BlogTable
      <3>2. w.published => w.ready
        BY <2>1 DEF CopyOf
      <3> QED BY <1>1, <2>1, <2>2, <3>1, <3>2 DEF BlogTable
    <2>4. isDated <=> AnyPublished
      <3>1. ~Settles(q) /\ \A s \in Requests : s # r => ~Settles(blogRequests[s])
        BY <1>1, <1>4, IdleKnowsNothing DEF BlogInv, CalmBlog, Settles
      <3> QED BY <1>4, <3>1 DEF BlogInv, CalmBlog
    <2>5. q.dates => AnyPublished'
      BY <2>1, <2>2 DEF AnyPublished, CopyOf
    <2>6. ~q.dates /\ AnyPublished' => AnyPublished
      BY <2>1, <2>2 DEF AnyPublished, CopyOf
    <2>7. KnowsBlog(n)'
      BY <1>1, <1>2, <2>4, <2>5, <2>6 DEF KnowsBlog
    <2> QED BY <1>2, <2>3, <2>7 DEF Settles
  <1>5. ASSUME unseen PROVE Tally'
    <2>1. PICK l \in Locales, w \in Blog!Row :
            /\ translations[l] # NoRow
            /\ w.id = translations[l].id /\ w.views = translations[l].views
            /\ translations' = [m \in Locales |-> IF m = l THEN w ELSE translations[m]]
      BY <1>3, <1>5 DEF BlogInv
    <2> QED BY <1>1, <1>5, <2>1 DEF BlogInv, Tally
  <1> QED BY <1>1, <1>4, <1>5, BlogChanges

\* Where none meets another, no save inserts the row it did not find.
LEMMA InsertKeepsBlog == ASSUME BlogInv, NEW r \in Requests, Blog!Insert(r) PROVE BlogInv'
PROOF
  <1>1. blogRequests[r].pc = "insert" /\ UNCHANGED <<blogCalm, unseen>>
    BY DEF Blog!Insert, Blog!history
  <1>2. ~blogCalm
    BY <1>1 DEF BlogInv, CalmBlog, KnowsBlog
  <1>3. blogRequests' = [s \in Requests |-> IF s = r THEN Blog!Synchronize(blogRequests[r]) ELSE blogRequests[s]]
    BY DEF Blog!Insert, Blog!Go, BlogInv
  <1> QED BY <1>1, <1>2, <1>3 DEF BlogInv

LEMMA CreateKeepsBlog == ASSUME BlogInv, NEW r \in Requests, Blog!Create(r) PROVE BlogInv'
PROOF
  <1> PICK q : q = blogRequests[r]
    OBVIOUS
  <1> PICK n : n = Blog!Idle
    OBVIOUS
  <1> PICK w : w = Blog!Blank(ids + 1, q.ready)
    OBVIOUS
  <1>1. /\ q.pc = "create" /\ q # Blog!Idle
        /\ blogRequests' = [blogRequests EXCEPT ![r] = n]
        /\ UNCHANGED <<isDated, counted, blogCalm, unseen>>
        /\ ids < MaxIds /\ ids' = ids + 1 /\ translations[q.locale] = NoRow
        /\ translations' = [translations EXCEPT ![q.locale] = w]
    BY DEF Blog!Create, Blog!Finish, Blog!Go, Blog!history, Blog!Idle, Blog!IsFree
  <1>2. w.id = ids + 1 /\ w.published = FALSE /\ w.views = 0
    BY DEF Blog!Blank
  <1>3. ASSUME blogCalm
        PROVE BlogTable' /\ KnowsBlog(n)' /\ (~Settles(n) => (isDated <=> AnyPublished)')
    <2>1. BlogTable /\ q.ready \in BOOLEAN
      BY <1>1, <1>3 DEF BlogInv, CalmBlog, KnowsBlog
    <2>2. w \in Blog!Row
      <3>1. ids + 1 \in 1..MaxIds /\ 0 \in 0..MaxViews
        BY <1>1, <2>1, BackofficeAssumption DEF BlogTable, Blog!BlogAssumption
      <3> QED BY <2>1, <3>1 DEF Blog!Blank, Blog!Row
    <2>3. \A l \in Locales : translations'[l] = IF l = q.locale THEN w ELSE translations[l]
      BY <1>1, <2>1 DEF BlogTable
    <2>4. BlogTable'
      <3>1. translations' \in [Locales -> Blog!Row \cup {NoRow}]
        BY <1>1, <2>1, <2>2 DEF BlogTable
      <3>2. ids' \in 0..MaxIds
        BY <1>1, <2>1, BackofficeAssumption DEF BlogTable, Blog!BlogAssumption
      <3>3. \A l \in Locales : translations[l] # NoRow =>
              translations[l].id \in Int /\ translations[l].id <= ids /\ ids \in Int
        BY <2>1, BackofficeAssumption DEF BlogTable, Blog!Row, Blog!BlogAssumption
      <3>4. \A l \in Locales : translations'[l] # NoRow =>
              translations'[l].id <= ids' /\ (translations'[l].published => translations'[l].ready)
        BY <1>1, <1>2, <2>1, <2>3, <3>3 DEF BlogTable
      <3>5. \A l, m \in Locales :
              translations'[l] # NoRow /\ translations'[m] # NoRow /\ translations'[l].id = translations'[m].id => l = m
        BY <1>1, <1>2, <2>1, <2>3, <3>3 DEF BlogTable
      <3> QED BY <3>1, <3>2, <3>4, <3>5 DEF BlogTable
    <2>5. AnyPublished' <=> AnyPublished
      BY <1>1, <1>2, <2>3 DEF AnyPublished
    <2>6. isDated <=> AnyPublished
      <3>1. ~Settles(q) /\ \A s \in Requests : s # r => ~Settles(blogRequests[s])
        BY <1>1, <1>3, IdleKnowsNothing DEF BlogInv, CalmBlog, Settles
      <3> QED BY <1>3, <3>1 DEF BlogInv, CalmBlog
    <2> QED BY <1>1, <2>4, <2>5, <2>6 DEF KnowsBlog, Blog!Idle
  <1>4. ASSUME unseen PROVE Tally'
    <2>1. BlogTable
      BY <1>4 DEF BlogInv, CalmBlog
    <2>2. \A l \in Locales : translations'[l] = IF l = q.locale THEN w ELSE translations[l]
      BY <1>1, <2>1 DEF BlogTable
    <2>3. ids \in Nat /\ ids + 1 \in 1..MaxIds
      BY <1>1, <2>1, BackofficeAssumption DEF BlogTable, Blog!BlogAssumption
    <2>4. counted[ids + 1] = 0
      BY <1>4, <2>3 DEF BlogInv, Tally
    <2>5. \A id \in 1..MaxIds : id > ids' => counted[id] = 0
      BY <1>1, <1>4, <2>3 DEF BlogInv, Tally
    <2> QED BY <1>1, <1>2, <1>4, <2>2, <2>4, <2>5 DEF BlogInv, Tally
  <1> QED BY <1>1, <1>3, <1>4, BlogChanges

LEMMA DeleteKeepsBlog == ASSUME BlogInv, NEW r \in Requests, Blog!Delete(r) PROVE BlogInv'
PROOF
  <1> PICK q : q = blogRequests[r]
    OBVIOUS
  <1> PICK n : n = [pc |-> "synchronize", dates |-> FALSE]
    OBVIOUS
  <1>1. /\ q.pc = "delete" /\ q # Blog!Idle
        /\ blogRequests' = [blogRequests EXCEPT ![r] = n]
        /\ UNCHANGED <<isDated, ids, counted, blogCalm, unseen>>
        /\ \A l \in Locales : translations'[l] =
             IF translations[l] # NoRow /\ translations[l].id = q.id THEN NoRow ELSE translations[l]
        /\ translations' = [l \in Locales |-> translations'[l]]
    BY DEF Blog!Delete, Blog!Go, Blog!history, Blog!Idle
  <1>2. n.pc = "synchronize" /\ ~n.dates
    OBVIOUS
  <1>3. \A l \in Locales : translations'[l] # NoRow => translations'[l] = translations[l]
    BY <1>1
  <1>4. ASSUME blogCalm
        PROVE BlogTable' /\ KnowsBlog(n)' /\ (~Settles(n) => (isDated <=> AnyPublished)')
    <2>1. BlogTable
      BY <1>4 DEF BlogInv, CalmBlog
    <2>2. BlogTable'
      <3>1. translations' \in [Locales -> Blog!Row \cup {NoRow}]
        BY <1>1, <2>1 DEF BlogTable
      <3> QED BY <1>1, <1>3, <2>1, <3>1 DEF BlogTable
    <2>3. AnyPublished' => AnyPublished
      BY <1>3 DEF AnyPublished
    <2>4. isDated <=> AnyPublished
      <3>1. ~Settles(q) /\ \A s \in Requests : s # r => ~Settles(blogRequests[s])
        BY <1>1, <1>4, IdleKnowsNothing DEF BlogInv, CalmBlog, Settles
      <3> QED BY <1>4, <3>1 DEF BlogInv, CalmBlog
    <2>5. KnowsBlog(n)'
      BY <1>1, <1>2, <2>3, <2>4 DEF KnowsBlog
    <2> QED BY <1>2, <2>2, <2>5 DEF Settles
  <1>5. ASSUME unseen PROVE Tally'
    BY <1>1, <1>3, <1>5 DEF BlogInv, Tally
  <1> QED BY <1>1, <1>4, <1>5, BlogChanges

\* The date, written or left by the request that settles it, and by an update of the post.
LEMMA DateKeepsBlog ==
  ASSUME BlogInv, NEW r \in Requests,
         Blog!SetDate(r) \/ Blog!CountPublished(r) \/ Blog!ClearDate(r) \/ Blog!Update(r)
  PROVE  BlogInv'
PROOF
  <1> PICK q : q = blogRequests[r]
    OBVIOUS
  <1>1. q # Blog!Idle /\ UNCHANGED <<translations, ids, counted, blogCalm, unseen>>
    BY DEF Blog!SetDate, Blog!CountPublished, Blog!ClearDate, Blog!Update, Blog!history, Blog!post, Blog!Idle
  <1>2. blogCalm => KnowsBlog(q) /\ BlogTable
    BY DEF BlogInv, CalmBlog
  <1>3. (AnyPublished' <=> AnyPublished) /\ (BlogTable' <=> BlogTable) /\ (unseen => Tally')
    BY <1>1 DEF AnyPublished, BlogTable, BlogInv, Tally
  <1> PICK idle : idle = Blog!Idle
    OBVIOUS
  <1>4. KnowsBlog(idle)' /\ idle.pc = "idle"
    BY DEF KnowsBlog, Blog!Idle
  <1>5. ASSUME blogRequests' = [blogRequests EXCEPT ![r] = idle], blogCalm => (isDated' <=> AnyPublished)
        PROVE  BlogInv'
    BY <1>1, <1>2, <1>3, <1>4, <1>5, BlogChanges
  <1>6. CASE Blog!SetDate(r)
    BY <1>2, <1>5, <1>6 DEF Blog!SetDate, Blog!Finish, Blog!Go, KnowsBlog
  <1>7. CASE Blog!ClearDate(r)
    BY <1>2, <1>5, <1>7 DEF Blog!ClearDate, Blog!Finish, Blog!Go, KnowsBlog
  <1>8. CASE Blog!Update(r)
    <2>1. q.pc = "update" /\ isDated' = q.isDated /\ blogRequests' = [blogRequests EXCEPT ![r] = idle]
      BY <1>8 DEF Blog!Update, Blog!Finish, Blog!Go
    <2>2. ASSUME blogCalm PROVE isDated' <=> AnyPublished
      <3>1. ~Settles(q) /\ \A s \in Requests : s # r => ~Settles(blogRequests[s])
        BY <1>1, <2>1, <2>2, IdleKnowsNothing DEF BlogInv, CalmBlog, Settles
      <3>2. isDated <=> AnyPublished
        BY <2>2, <3>1 DEF BlogInv, CalmBlog
      <3> QED BY <1>2, <2>1, <2>2, <3>2 DEF KnowsBlog
    <2> QED BY <2>1, <2>2, <1>5
  <1>9. CASE Blog!CountPublished(r)
    <2>1. q.pc = "synchronize" /\ ~q.dates /\ isDated' = isDated
      BY <1>9 DEF Blog!CountPublished, Blog!post
    <2>2. Blog!Published = {} <=> ~AnyPublished
      BY DEF Blog!Published, Blog!Rows, AnyPublished
    <2>3. CASE AnyPublished
      BY <1>2, <1>5, <1>9, <2>1, <2>2, <2>3 DEF Blog!CountPublished, Blog!AfterCount, Blog!Finish, Blog!Go, KnowsBlog
    <2>4. CASE ~AnyPublished
      <3> PICK n : n = [pc |-> "clear"]
        OBVIOUS
      <3>1. blogRequests' = [blogRequests EXCEPT ![r] = n]
        BY <1>9, <2>2, <2>4 DEF Blog!CountPublished, Blog!AfterCount, Blog!Go
      <3>2. KnowsBlog(n)' /\ Settles(n)
        BY <1>3, <2>4 DEF KnowsBlog, Settles
      <3> QED BY <1>1, <1>2, <1>3, <3>1, <3>2, BlogChanges
    <2> QED BY <2>3, <2>4
  <1> QED BY <1>6, <1>7, <1>8, <1>9

\* A view that counts changes no flag, and the history tells if a copy in flight misses it.
LEMMA ViewKeepsBlog == ASSUME BlogInv, NEW l \in Locales, Blog!CountView(l) PROVE BlogInv'
PROOF
  <1> PICK now, w : now = translations[l] /\ w = [now EXCEPT !.views = @ + 1]
    OBVIOUS
  <1>1. /\ now # NoRow /\ now.views < MaxViews
        /\ translations' = [translations EXCEPT ![l].views = @ + 1]
        /\ UNCHANGED <<isDated, blogRequests, ids, blogCalm>>
        /\ unseen' = (unseen /\ ~Blog!IsAbout(now.id))
        /\ counted' = IF unseen' THEN [counted EXCEPT ![now.id] = @ + 1] ELSE Blog!NoViews
    BY DEF Blog!CountView, Blog!Remember
  <1>2. ASSUME blogCalm
        PROVE  /\ now \in Blog!Row /\ w \in Blog!Row
               /\ w.id = now.id /\ w.ready = now.ready /\ w.published = now.published
               /\ w.views = now.views + 1
               /\ translations' = [m \in Locales |-> IF m = l THEN w ELSE translations[m]]
    <2>1. translations \in [Locales -> Blog!Row \cup {NoRow}] /\ now \in Blog!Row
      BY <1>1, <1>2 DEF BlogInv, CalmBlog, BlogTable
    <2>2. now = [id |-> now.id, ready |-> now.ready, published |-> now.published, views |-> now.views]
      BY <2>1 DEF Blog!Row
    <2>3. w = [id |-> now.id, ready |-> now.ready, published |-> now.published, views |-> now.views + 1]
      BY <2>2
    <2>4. now.views + 1 \in 0..MaxViews
      BY <1>1, <2>1, BackofficeAssumption DEF Blog!Row, Blog!BlogAssumption
    <2>5. w \in Blog!Row
      BY <2>1, <2>3, <2>4 DEF Blog!Row
    <2>6. translations' = [m \in Locales |-> IF m = l THEN w ELSE translations[m]]
      BY <1>1, <2>1
    <2>7. w.id = now.id /\ w.views = now.views + 1
      BY <2>3
    <2>8. w.ready = now.ready /\ w.published = now.published
      BY <2>3, Zenon
    <2> QED BY <2>1, <2>5, <2>6, <2>7, <2>8
  <1>3. ASSUME blogCalm PROVE w # NoRow
    BY <1>2, <1>3, BackofficeAssumption DEF Blog!BlogAssumption
  <1>4. ASSUME blogCalm' PROVE CalmBlog'
    <2>1. blogCalm /\ CalmBlog /\ BlogTable
      BY <1>1, <1>4 DEF BlogInv, CalmBlog
    <2>2. \A m \in Locales : translations'[m] = IF m = l THEN w ELSE translations[m]
      BY <1>2, <2>1
    <2>3. \A m \in Locales :
            /\ translations'[m] # NoRow <=> translations[m] # NoRow
            /\ translations[m] # NoRow =>
                 /\ translations'[m].id = translations[m].id
                 /\ translations'[m].ready = translations[m].ready
                 /\ translations'[m].published = translations[m].published
                 /\ m # l => translations'[m].views = translations[m].views
      BY <1>1, <1>2, <1>3, <2>1, <2>2
    <2>4. AnyPublished' <=> AnyPublished
      BY <2>3, Zenon DEF AnyPublished
    <2>5. BlogTable'
      <3>1. translations' \in [Locales -> Blog!Row \cup {NoRow}]
        BY <1>2, <2>1 DEF BlogTable
      <3>2. \A m \in Locales : translations'[m] # NoRow =>
              /\ translations'[m].id <= ids
              /\ translations'[m].published => translations'[m].ready
        BY <2>1, <2>3, Zenon DEF BlogTable
      <3>3. \A k, m \in Locales :
              translations'[k] # NoRow /\ translations'[m] # NoRow /\ translations'[k].id = translations'[m].id => k = m
        <4> SUFFICES ASSUME NEW k \in Locales, NEW m \in Locales, translations'[k] # NoRow,
                            translations'[m] # NoRow, translations'[k].id = translations'[m].id
                     PROVE  k = m
          OBVIOUS
        <4>1. /\ translations[k] # NoRow /\ translations'[k].id = translations[k].id
              /\ translations[m] # NoRow /\ translations'[m].id = translations[m].id
          BY <2>3
        <4>2. translations[k].id = translations[m].id
          BY <4>1
        <4> QED BY <2>1, <4>1, <4>2, Zenon DEF BlogTable
      <3> QED BY <1>1, <2>1, <3>1, <3>2, <3>3 DEF BlogTable
    <2>6. ASSUME NEW r \in Requests PROVE KnowsBlog(blogRequests[r])'
      <3> PICK q : q = blogRequests[r]
        OBVIOUS
      <3>1. KnowsBlog(q) /\ blogRequests'[r] = q /\ isDated' = isDated /\ (unseen' => unseen)
        BY <1>1, <2>1 DEF CalmBlog
      <3>2. \A m \in Locales : translations[m] # NoRow /\ CopyOf(q, translations[m]) => CopyOf(q, translations'[m])
        BY <2>3, Zenon DEF CopyOf
      <3>3. ASSUME q.pc = "compare"
            PROVE  /\ translations'[q.locale] # NoRow /\ CopyOf(q, translations'[q.locale])
                   /\ unseen' => q.copy.views = translations'[q.locale].views
        <4>1. /\ q.locale \in Locales /\ translations[q.locale] # NoRow
              /\ CopyOf(q, translations[q.locale])
              /\ unseen => q.copy.views = translations[q.locale].views
          BY <3>1, <3>3 DEF KnowsBlog
        <4>2. ASSUME q.locale = l PROVE ~unseen'
          <5>1. q.copy.id = now.id
            BY <4>1, <4>2 DEF CopyOf
          <5> QED BY <1>1, <3>3, <5>1 DEF Blog!IsAbout
        <4> QED BY <2>3, <3>1, <3>2, <4>1, <4>2
      <3>4. ASSUME q.pc = "write"
            PROVE  \E m \in Locales :
                     /\ translations'[m] # NoRow /\ CopyOf(q, translations'[m])
                     /\ q.base.id = translations'[m].id /\ q.base.ready = translations'[m].ready
                     /\ q.base.published = translations'[m].published
        <4>1. PICK m \in Locales :
                     /\ translations[m] # NoRow /\ CopyOf(q, translations[m])
                     /\ q.base.id = translations[m].id /\ q.base.ready = translations[m].ready
                     /\ q.base.published = translations[m].published
          BY <3>1, <3>4, Zenon DEF KnowsBlog
        <4> QED BY <2>3, <3>2, <4>1, Zenon
      <3>5. q.pc = "compare" => q.locale \in Locales
        BY <3>1 DEF KnowsBlog
      <3>6. KnowsBlog(q)'
        BY <2>4, <3>1, <3>3, <3>4, <3>5 DEF KnowsBlog, CopyOf
      <3> QED BY <3>1, <3>6 DEF KnowsBlog, CopyOf
    <2>7. (\A r \in Requests : ~Settles(blogRequests'[r])) => (isDated' <=> AnyPublished')
      BY <1>1, <2>1, <2>4 DEF CalmBlog
    <2>8. \A r, s \in Requests : r # s => blogRequests'[r] = Blog!Idle \/ blogRequests'[s] = Blog!Idle
      BY <1>1, <2>1 DEF CalmBlog
    <2> QED BY <2>5, <2>6, <2>7, <2>8 DEF CalmBlog, Settles
  <1>5. ASSUME unseen' PROVE Tally'
    <2>1. unseen /\ blogCalm /\ Tally /\ BlogTable
      BY <1>1, <1>5 DEF BlogInv, CalmBlog
    <2>2. now.id \in 1..MaxIds /\ now.id <= ids /\ ids \in Int
      BY <1>1, <1>2, <2>1, BackofficeAssumption DEF BlogTable, Blog!Row, Blog!BlogAssumption
    <2>3. counted \in [1..MaxIds -> Nat] /\ counted' = [id \in 1..MaxIds |-> IF id = now.id THEN counted[id] + 1 ELSE counted[id]]
      BY <1>1, <1>5, <2>1 DEF Tally
    <2>4. \A m \in Locales : translations'[m] = IF m = l THEN w ELSE translations[m]
      BY <1>2, <2>1
    <2>5. \A m \in Locales : translations[m] # NoRow =>
            /\ translations[m].id \in 1..MaxIds
            /\ m # l => translations[m].id # now.id
      BY <1>1, <2>1 DEF BlogTable, Blog!Row
    <2>6. \A m \in Locales : translations'[m] # NoRow => translations'[m].views = counted'[translations'[m].id]
      <3> SUFFICES ASSUME NEW m \in Locales, translations'[m] # NoRow
                   PROVE  translations'[m].views = counted'[translations'[m].id]
        OBVIOUS
      <3>1. CASE m = l
        <4>1. translations'[m] = w /\ now.views = counted[now.id]
          BY <1>1, <2>1, <2>4, <3>1 DEF Tally
        <4>2. counted'[now.id] = now.views + 1
          BY <2>2, <2>3, <4>1
        <4> QED BY <1>2, <2>1, <4>1, <4>2
      <3>2. CASE m # l
        <4>1. translations'[m] = translations[m] /\ translations[m] # NoRow
          BY <2>4, <3>2
        <4>2. translations[m].id \in 1..MaxIds /\ translations[m].id # now.id
          BY <2>5, <3>2, <4>1
        <4>3. counted'[translations[m].id] = counted[translations[m].id]
          BY <2>3, <4>2
        <4> QED BY <2>1, <4>1, <4>3 DEF Tally
      <3> QED BY <3>1, <3>2
    <2>7. counted' \in [1..MaxIds -> Nat]
      BY <2>3
    <2>8. \A id \in 1..MaxIds : id > ids => counted'[id] = 0
      BY <2>1, <2>2, <2>3 DEF Tally
    <2> QED BY <1>1, <2>6, <2>7, <2>8 DEF Tally
  <1> QED BY <1>1, <1>4, <1>5 DEF BlogInv

LEMMA BlogInvStep == BlogInv /\ [Blog!Next]_blogVars => BlogInv'
PROOF
  <1> SUFFICES ASSUME BlogInv, [Blog!Next]_blogVars PROVE BlogInv'
    OBVIOUS
  <1>1. CASE UNCHANGED blogVars
    <2>1. \A q : KnowsBlog(q)' <=> KnowsBlog(q)
      BY <1>1 DEF blogVars, KnowsBlog, CopyOf, AnyPublished
    <2>2. blogRequests' = blogRequests /\ (AnyPublished' <=> AnyPublished) /\ (BlogTable' <=> BlogTable)
      BY <1>1 DEF blogVars, AnyPublished, BlogTable
    <2>3. CalmBlog => CalmBlog'
      BY <1>1, <2>2 DEF blogVars, CalmBlog, KnowsBlog, CopyOf, Settles
    <2>4. Tally => Tally'
      BY <1>1 DEF blogVars, Tally
    <2> QED BY <1>1, <2>3, <2>4 DEF blogVars, BlogInv
  <1> SUFFICES ASSUME Blog!Next PROVE BlogInv'
    BY <1>1 DEF Blog!vars, blogVars
  <1>2. ASSUME NEW r \in Requests,
               Blog!PostStep(r) \/ Blog!EditStep(r) \/ Blog!PublishStep(r) \/ Blog!SaveStep(r) \/ Blog!Abort(r)
        PROVE  BlogInv'
    <2>1. CASE Blog!PostStep(r)
      BY <2>1, OthersBegin, DateKeepsBlog DEF Blog!PostStep
    <2>2. CASE Blog!EditStep(r)
      BY <2>2, OthersBegin, SavesBegin, CreateKeepsBlog, DeleteKeepsBlog DEF Blog!EditStep
    <2>3. CASE Blog!PublishStep(r)
      BY <2>3, SavesBegin, DateKeepsBlog DEF Blog!PublishStep
    <2>4. CASE Blog!SaveStep(r)
      BY <2>4, CompareKeepsBlog, WriteKeepsBlog, InsertKeepsBlog DEF Blog!SaveStep
    <2> QED BY <1>2, <2>1, <2>2, <2>3, <2>4, AbortKeepsBlog
  <1>3. ASSUME NEW l \in Locales, Blog!CountView(l) PROVE BlogInv'
    BY <1>3, ViewKeepsBlog
  <1> QED BY <1>2, <1>3 DEF Blog!Next

LEMMA BlogInit == Init => BlogInv
PROOF
  <1> SUFFICES ASSUME Init PROVE BlogInv
    OBVIOUS
  <1>1. /\ translations = [l \in Locales |-> NoRow] /\ isDated = FALSE /\ ids = 0
        /\ blogRequests = [r \in Requests |-> Blog!Idle]
        /\ counted = [id \in 1..MaxIds |-> 0]
    BY DEF Init, Blog!Init, Blog!NoViews
  <1>2. BlogTable /\ ~AnyPublished /\ Tally
    BY <1>1, BackofficeAssumption DEF BlogTable, AnyPublished, Tally, Blog!BlogAssumption
  <1>3. \A r \in Requests : blogRequests[r] = Blog!Idle /\ KnowsBlog(blogRequests[r])
    BY <1>1, IdleKnowsNothing
  <1>4. CalmBlog
    BY <1>1, <1>2, <1>3 DEF CalmBlog
  <1>5. blogCalm
    BY DEF Init, Blog!Init
  <1> QED BY <1>1, <1>2, <1>4, <1>5 DEF BlogInv

LEMMA BlogStep == [Next]_vars => [Blog!Next]_blogVars
  BY DEF Next, vars, blogVars

\* The inductive invariant of the blog.
THEOREM BlogInOrder == Spec => []BlogInv
PROOF
  <1>1. BlogInv /\ [Next]_vars => BlogInv'
    BY BlogStep, BlogInvStep
  <1> QED BY BlogInit, <1>1, PTL DEF Spec

\* Where administrators' requests do not meet or end half way, a post has a date if and only if a
\* translation is published, and each published one has a title and content.
THEOREM DatesAgree == Spec => []DateAgrees
PROOF
  <1>1. BlogInv => DateAgrees
    <2> SUFFICES ASSUME BlogInv, blogCalm
                 PROVE  /\ Blog!Quiet => (isDated <=> Blog!Published # {})
                        /\ \A w \in Blog!Published : w.ready
      BY DEF DateAgrees, Blog!DateAgrees
    <2>1. CalmBlog
      BY DEF BlogInv
    <2>2. Blog!Published # {} <=> AnyPublished
      BY DEF Blog!Published, Blog!Rows, AnyPublished
    <2>3. Blog!Quiet => (isDated <=> AnyPublished)
      BY <2>1, IdleKnowsNothing DEF Blog!Quiet, CalmBlog
    <2>4. \A w \in Blog!Published : w.ready
      BY <2>1 DEF Blog!Published, Blog!Rows, CalmBlog, BlogTable
    <2> QED BY <2>2, <2>3, <2>4
  <1> QED BY BlogInOrder, <1>1, PTL

\* There, every view that counted is in the row, unless it fell between a load and its comparison.
THEOREM ViewsAreNotLost == Spec => []ViewsAreKept
PROOF
  <1>1. BlogInv => ViewsAreKept
    BY DEF BlogInv, Tally, ViewsAreKept, Blog!ViewsAreKept, Blog!Rows
  <1> QED BY BlogInOrder, <1>1, PTL

(***************************************************************************)
(* The pages of a calendar.  Looking through the days of a window finds    *)
(* what counting out the rule gives there, so that pages that meet agree   *)
(* with it as long as none is cut off.                                     *)
(***************************************************************************)

CountOfMonths == Len(MonthLengths)

\* The equation monthStart is chosen to satisfy, for the first months.
IsStart(start, n) ==
  start = [m \in 1..n |-> IF m = 1 THEN 0 ELSE start[m - 1] + MonthLengths[m - 1]]

LEMMA CalendarConstants ==
  /\ {Day, Minute, Second, MaxExpanded} \subseteq Nat \ {0}
  /\ Minute % Second = 0 /\ Day % Minute = 0
  /\ FirstWeekday \in 0..6
  /\ MonthLengths \in Seq(Nat \ {0})
PROOF
  BY BackofficeAssumption DEF Calendar!RecurrenceAssumption

LEMMA MonthStarts ==
  /\ CountOfMonths \in Nat
  /\ Calendar!monthStart = [m \in 1..(CountOfMonths + 1) |-> Calendar!monthStart[m]]
  /\ Calendar!monthStart[1] = 0
  /\ \A m \in 1..CountOfMonths :
       Calendar!monthStart[m + 1] = Calendar!monthStart[m] + MonthLengths[m]
PROOF
  <1> DEFINE n == CountOfMonths
             S == {k \in Nat : k \in 1..(n + 1) /\ ~\E f : IsStart(f, k)}
  <1>1. n \in Nat
    BY CalendarConstants DEF CountOfMonths
  <1>2. S = {}
    <2> SUFFICES ASSUME S # {} PROVE FALSE
      OBVIOUS
    <2>1. PICK k \in S : \A j \in S : k <= j
      <3>1. S \in SUBSET Nat
        OBVIOUS
      <3> HIDE DEF S
      <3> QED BY <3>1, HasLeast
    <2>2. k # 1
      <3>1. IsStart([m \in 1..1 |-> 0], 1)
        BY DEF IsStart
      <3> QED BY <2>1, <3>1
    <2>3. PICK f : IsStart(f, k - 1)
      <3>1. k - 1 \in Nat /\ k - 1 \in 1..(n + 1) /\ ~(k <= k - 1)
        BY <1>1, <2>1, <2>2
      <3>2. k - 1 \notin S
        BY <2>1, <3>1
      <3> QED BY <3>1, <3>2
    <2>4. \E g : IsStart(g, k)
      <3> DEFINE starts(m) == IF m = 1 THEN 0 ELSE f[m - 1] + MonthLengths[m - 1]
                 g == [m \in 1..k |-> starts(m)]
      <3>0. k \in Nat /\ k >= 1
        BY <2>1
      <3>1. ASSUME NEW m \in 1..(k - 1) PROVE f[m] = starts(m)
        BY <2>3 DEF IsStart
      <3>2. ASSUME NEW m \in 1..k, m # 1 PROVE g[m - 1] = f[m - 1]
        <4>1. m - 1 \in 1..(k - 1) /\ m - 1 \in 1..k
          BY <3>0, <3>2
        <4>2. g[m - 1] = starts(m - 1) /\ f[m - 1] = starts(m - 1)
          BY <3>1, <4>1
        <4> QED BY <4>2
      <3>3. \A m \in 1..k : starts(m) = IF m = 1 THEN 0 ELSE g[m - 1] + MonthLengths[m - 1]
        BY <3>2
      <3>4. g = [m \in 1..k |-> IF m = 1 THEN 0 ELSE g[m - 1] + MonthLengths[m - 1]]
        <4> HIDE DEF starts
        <4> DEFINE h == [m \in 1..k |-> IF m = 1 THEN 0 ELSE g[m - 1] + MonthLengths[m - 1]]
        <4>1. \A m \in 1..k : g[m] = starts(m)
          OBVIOUS
        <4>2. \A m \in 1..k : h[m] = IF m = 1 THEN 0 ELSE g[m - 1] + MonthLengths[m - 1]
          OBVIOUS
        <4>3. DOMAIN g = 1..k /\ DOMAIN h = 1..k /\ g = [m \in 1..k |-> g[m]] /\ h = [m \in 1..k |-> h[m]]
          OBVIOUS
        <4>5. \A m \in 1..k : g[m] = h[m]
          BY <3>3, <4>1, <4>2
        <4> HIDE DEF g, h
        <4>4. g = h
          BY <4>5, <4>3
        <4> QED BY <4>4 DEF h
      <3> QED BY <3>4 DEF IsStart
    <2> QED BY <2>1, <2>4
  <1>3. IsStart(Calendar!monthStart, n + 1)
    <2>1. \E f : IsStart(f, n + 1)
      BY <1>1, <1>2
    <2> QED BY <2>1, Zenon DEF IsStart, Calendar!monthStart, CountOfMonths
  <1> DEFINE start == Calendar!monthStart
  <1> HIDE DEF start, n
  <1>4. start = [m \in 1..(n + 1) |-> IF m = 1 THEN 0 ELSE start[m - 1] + MonthLengths[m - 1]]
    BY <1>3 DEF start, IsStart
  <1>5. start = [m \in 1..(n + 1) |-> start[m]]
    BY <1>4
  <1>6. ASSUME NEW m \in 1..n PROVE start[m + 1] = start[m] + MonthLengths[m]
    <2>1. m + 1 \in 1..(n + 1) /\ m + 1 # 1 /\ (m + 1) - 1 = m
      BY <1>1
    <2> QED BY <1>4, <2>1
  <1>7. start[1] = 0
    BY <1>1, <1>4
  <1> QED BY <1>1, <1>5, <1>6, <1>7 DEF start, n

\* Months follow one another, each of a day at least.
LEMMA MonthOrder ==
  /\ \A m \in 1..(CountOfMonths + 1) : Calendar!monthStart[m] \in Nat
  /\ \A m, k \in 1..(CountOfMonths + 1) :
       m <= k => Calendar!monthStart[m] + (k - m) <= Calendar!monthStart[k]
PROOF
  <1> DEFINE n == CountOfMonths
             start == Calendar!monthStart
             Fails(k) == \/ start[k] \notin Nat
                         \/ \E m \in 1..k : ~(start[m] + (k - m) <= start[k])
             S == {k \in Nat : k \in 1..(n + 1) /\ Fails(k)}
  <1>1. /\ n \in Nat /\ start[1] = 0
        /\ \A m \in 1..n : start[m + 1] = start[m] + MonthLengths[m] /\ MonthLengths[m] \in Nat \ {0}
    <2>1. \A m \in 1..n : MonthLengths[m] \in Nat \ {0}
      BY CalendarConstants DEF CountOfMonths
    <2> QED BY <2>1, MonthStarts
  <1> HIDE DEF n, start
  <1>2. S = {}
    <2> SUFFICES ASSUME S # {} PROVE FALSE
      OBVIOUS
    <2>1. PICK k \in S : \A j \in S : k <= j
      <3>1. S \in SUBSET Nat
        OBVIOUS
      <3> HIDE DEF S
      <3> QED BY <3>1, HasLeast
    <2>2. k # 1
      BY <1>1, <2>1
    <2>3. PICK j \in 1..n : k = j + 1
      <3>1. k - 1 \in 1..n /\ k = (k - 1) + 1
        BY <1>1, <2>1, <2>2
      <3> QED BY <3>1
    <2>4. ~Fails(j)
      <3>1. j \in Nat /\ j \in 1..(n + 1) /\ ~(k <= j)
        BY <1>1, <2>3
      <3> QED BY <2>1, <3>1
    <2>5. start[k] = start[j] + MonthLengths[j] /\ start[j] \in Nat /\ MonthLengths[j] \in Nat \ {0}
      BY <1>1, <2>3, <2>4
    <2>6. ASSUME NEW m \in 1..k PROVE start[m] + (k - m) <= start[k]
      <3>1. CASE m = k
        BY <3>1, <2>5
      <3>2. CASE m # k
        <4>1. m \in 1..j
          BY <2>3, <2>6, <3>2
        <4>2. start[m] + (j - m) <= start[j]
          BY <2>4, <4>1
        <4>3. start[m] \in Int
          <5>1. m \in Nat /\ m \in 1..(n + 1) /\ ~(k <= m)
            BY <1>1, <2>3, <4>1
          <5>2. m \notin S
            BY <2>1, <5>1
          <5> QED BY <5>1, <5>2
        <4> QED BY <2>3, <2>5, <4>1, <4>2, <4>3
      <3> QED BY <3>1, <3>2
    <2> QED BY <2>1, <2>5, <2>6
  <1>3. ASSUME NEW k \in 1..(n + 1)
        PROVE  start[k] \in Nat /\ \A m \in 1..(n + 1) : m <= k => start[m] + (k - m) <= start[k]
    <2>1. k \in Nat /\ ~Fails(k)
      BY <1>1, <1>2
    <2> QED BY <1>1, <2>1
  <1> QED BY <1>3 DEF n, start

\* A day of the calendar is in one month.
LEMMA MonthOfDay ==
  ASSUME NEW d \in Calendar!Days
  PROVE  /\ Calendar!monthOf[d] \in 1..CountOfMonths
         /\ Calendar!monthStart[Calendar!monthOf[d]] <= d
         /\ d < Calendar!monthStart[Calendar!monthOf[d] + 1]
         /\ \A m \in 1..CountOfMonths :
              Calendar!monthStart[m] <= d /\ d < Calendar!monthStart[m + 1] => m = Calendar!monthOf[d]
PROOF
  <1> DEFINE n == CountOfMonths
             start == Calendar!monthStart
             Has(m) == start[m] <= d /\ d < start[m + 1]
             S == {m \in Nat : m \in 1..(n + 1) /\ d < start[m]}
  <1>1. /\ n \in Nat /\ start[1] = 0
        /\ \A m \in 1..(n + 1) : start[m] \in Nat
        /\ \A m, k \in 1..(n + 1) : m <= k => start[m] + (k - m) <= start[k]
    BY MonthStarts, MonthOrder
  <1>2. d \in Nat /\ d < start[n + 1]
    <2>1. d \in 0..(start[n + 1] - 1)
      BY DEF Calendar!Days, CountOfMonths
    <2> QED BY <1>1, <2>1
  <1>3. Calendar!monthOf[d] = CHOOSE m \in 1..n : Has(m)
    BY DEF Calendar!monthOf, Calendar!Months, CountOfMonths
  <1> HIDE DEF n, start
  <1>4. \E m \in 1..n : Has(m)
    <2>1. n + 1 \in S
      BY <1>1, <1>2
    <2>2. PICK k \in S : \A j \in S : k <= j
      <3>1. S \in SUBSET Nat /\ S # {}
        BY <2>1
      <3> HIDE DEF S
      <3> QED BY <3>1, HasLeast
    <2>3. k - 1 \in 1..n /\ k - 1 \in Nat /\ k = (k - 1) + 1
      BY <1>1, <1>2, <2>2
    <2>4. k - 1 \notin S /\ k - 1 \in 1..(n + 1)
      BY <1>1, <2>2, <2>3
    <2>5. start[k - 1] <= d
      BY <1>1, <1>2, <2>3, <2>4
    <2>6. d < start[(k - 1) + 1]
      BY <2>2, <2>3
    <2> QED BY <2>3, <2>5, <2>6
  <1>5. ASSUME NEW m \in 1..n, NEW k \in 1..n, Has(m), Has(k) PROVE m = k
    <2>1. {m, k, m + 1, k + 1} \subseteq 1..(n + 1)
      BY <1>1
    <2>2. m < k => start[m + 1] <= start[k]
      <3> SUFFICES ASSUME m < k PROVE start[m + 1] <= start[k]
        OBVIOUS
      <3>1. m + 1 <= k /\ start[m + 1] + (k - (m + 1)) <= start[k]
        BY <1>1, <2>1
      <3> QED BY <1>1, <2>1, <3>1
    <2>3. k < m => start[k + 1] <= start[m]
      <3> SUFFICES ASSUME k < m PROVE start[k + 1] <= start[m]
        OBVIOUS
      <3>1. k + 1 <= m /\ start[k + 1] + (m - (k + 1)) <= start[m]
        BY <1>1, <2>1
      <3> QED BY <1>1, <2>1, <3>1
    <2> QED BY <1>1, <1>2, <1>5, <2>1, <2>2, <2>3
  <1> DEFINE own == Calendar!monthOf[d]
  <1>6. own \in 1..n /\ Has(own)
    BY <1>3, <1>4
  <1> QED BY <1>5, <1>6 DEF n, start

\* A week is seven days, the days of each weekday.
LEMMA Weeks ==
  /\ \A d \in Int : \E q \in Int :
       /\ Calendar!WeekStart(d) = 7 * q - FirstWeekday
       /\ Calendar!Weekday(d) \in 0..6
       /\ d = Calendar!WeekStart(d) + Calendar!Weekday(d)
  /\ \A q \in Int, w \in 0..6 : Calendar!Weekday(7 * q - FirstWeekday + w) = w
PROOF
  <1>1. FirstWeekday \in Int
    BY CalendarConstants
  <1>2. ASSUME NEW d \in Int
        PROVE  \E q \in Int : /\ Calendar!WeekStart(d) = 7 * q - FirstWeekday
                              /\ Calendar!Weekday(d) \in 0..6
                              /\ d = Calendar!WeekStart(d) + Calendar!Weekday(d)
    <2>0. PICK x \in Int : x = d + FirstWeekday
      BY <1>1
    <2>1. PICK q \in Int : x = 7 * q + (x % 7)
      <3>1. x \div 7 \in Int /\ x = 7 * (x \div 7) + (x % 7)
        BY DivMod
      <3> QED BY <3>1
    <2>2. x % 7 \in 0..6
      BY DivMod
    <2> QED BY <1>1, <2>0, <2>1, <2>2 DEF Calendar!WeekStart, Calendar!Weekday
  <1>3. ASSUME NEW q \in Int, NEW w \in 0..6
        PROVE  Calendar!Weekday(7 * q - FirstWeekday + w) = w
    <2>1. (7 * q - FirstWeekday + w) + FirstWeekday = 7 * q + w
      BY <1>1
    <2>2. (7 * q + w) % 7 = w
      BY Divided
    <2> QED BY <2>1, <2>2 DEF Calendar!Weekday
  <1> QED BY <1>2, <1>3

\* The calendar has as many days as steps are counted out, and a month no later than its first day.
LEMMA DaysAreCounted ==
  \E n \in Nat :
    /\ Calendar!Days = 0..(n - 1) /\ Calendar!Cardinality(Calendar!Days) = n
    /\ CountOfMonths <= n
PROOF
  <1> DEFINE n == Calendar!monthStart[CountOfMonths + 1]
  <1>1. CountOfMonths \in Nat
    BY MonthStarts
  <1>2. n \in Nat /\ Calendar!monthStart[1] + ((CountOfMonths + 1) - 1) <= n
    BY <1>1, MonthOrder
  <1>3. CountOfMonths <= n
    BY <1>1, <1>2, MonthStarts
  <1>4. Calendar!Days = 0..(n - 1)
    BY DEF Calendar!Days, CountOfMonths
  <1> HIDE DEF n
  <1>5. Cardinality(0..(n - 1)) = n
    BY <1>2, FS_Interval
  <1>6. Calendar!Cardinality(0..(n - 1)) = Cardinality(0..(n - 1))
    BY DEF Calendar!Cardinality, Cardinality
  <1> QED BY <1>2, <1>3, <1>4, <1>5, <1>6

\* The days from the first one that the loop of the code picks are those counted out.
LEMMA RuleDaysAreOccurrences ==
  ASSUME NEW rule \in Calendar!RecurrenceRule, NEW first \in Calendar!Days, NEW d \in Calendar!Days,
         d >= first
  PROVE  Calendar!IsOccurrenceDay(d, first, rule) <=> d \in Calendar!RuleDays(rule, first)
PROOF
  <1>1. PICK n \in Nat : /\ Calendar!Days = 0..(n - 1) /\ Calendar!Cardinality(Calendar!Days) = n
                         /\ CountOfMonths <= n
    BY DaysAreCounted
  <1>2. PICK i \in Nat \ {0} : rule.interval = i
    BY DEF Calendar!RecurrenceRule
  <1>3. d \in Nat /\ first \in Nat /\ d - first \in 0..n /\ d <= n - 1
    BY <1>1
  <1> DEFINE steps == { k * i : k \in 0..n }
  <1>4. ASSUME NEW x \in 0..n PROVE x % i = 0 <=> x \in steps
    BY Multiples
  <1>5. CASE rule.freq = "daily"
    <2>1. Calendar!RuleDays(rule, first) = { e \in { first + k : k \in steps } \cap Calendar!Days : e >= first }
      BY <1>1, <1>2, <1>5 DEF Calendar!RuleDays
    <2>2. Calendar!IsOccurrenceDay(d, first, rule) <=> (d - first) % i = 0
      BY <1>2, <1>5 DEF Calendar!IsOccurrenceDay
    <2>3. d - first \in steps <=> d \in { first + k : k \in steps }
      <3>1. \A k \in steps : k \in Int
        OBVIOUS
      <3> HIDE DEF steps
      <3> QED BY <1>3, <3>1
    <2> HIDE DEF steps
    <2> QED BY <1>3, <1>4, <2>1, <2>2, <2>3
  <1>6. CASE rule.freq = "weekly"
    <2> DEFINE days == Calendar!ByDay(rule, first)
               reached == { Calendar!WeekStart(first) + 7 * k + w : k \in steps, w \in days }
    <2>1. Calendar!RuleDays(rule, first) = { e \in reached \cap Calendar!Days : e >= first }
      BY <1>1, <1>2, <1>6 DEF Calendar!RuleDays
    <2>2. Calendar!IsOccurrenceDay(d, first, rule) <=>
            /\ Calendar!Weekday(d) \in days
            /\ ((Calendar!WeekStart(d) - Calendar!WeekStart(first)) \div 7) % i = 0
      BY <1>2, <1>6 DEF Calendar!IsOccurrenceDay
    <2>3. PICK p \in Int : /\ Calendar!WeekStart(first) = 7 * p - FirstWeekday
                           /\ Calendar!Weekday(first) \in 0..6
                           /\ first = Calendar!WeekStart(first) + Calendar!Weekday(first)
      BY <1>3, Weeks
    <2>4. PICK q \in Int : /\ Calendar!WeekStart(d) = 7 * q - FirstWeekday
                           /\ Calendar!Weekday(d) \in 0..6
                           /\ d = Calendar!WeekStart(d) + Calendar!Weekday(d)
      BY <1>3, Weeks
    <2>5. FirstWeekday \in Int
      BY CalendarConstants
    <2>6. q - p \in 0..n
      BY <1>3, <2>3, <2>4, <2>5
    <2>7. (Calendar!WeekStart(d) - Calendar!WeekStart(first)) \div 7 = q - p
      <3>1. (7 * q - FirstWeekday) - (7 * p - FirstWeekday) = 7 * (q - p) + 0
        BY <2>5
      <3>2. (7 * (q - p) + 0) \div 7 = q - p
        BY Divided
      <3> QED BY <2>3, <2>4, <3>1, <3>2
    <2>8. days \subseteq 0..6
      BY <2>3 DEF Calendar!ByDay, Calendar!RecurrenceRule
    <2>9. Calendar!IsOccurrenceDay(d, first, rule) <=> Calendar!Weekday(d) \in days /\ q - p \in steps
      BY <1>4, <2>2, <2>6, <2>7
    <2>10. ASSUME Calendar!Weekday(d) \in days, q - p \in steps PROVE d \in reached
      <3>1. d = Calendar!WeekStart(first) + 7 * (q - p) + Calendar!Weekday(d)
        BY <2>3, <2>4, <2>5
      <3> HIDE DEF steps, days
      <3> QED BY <2>10, <3>1
    <2>11. ASSUME d \in reached PROVE Calendar!Weekday(d) \in days /\ q - p \in steps
      <3>1. PICK k \in steps, w \in days : d = Calendar!WeekStart(first) + 7 * k + w
        BY <2>11
      <3>2. k \in Int /\ w \in 0..6
        <4>1. \A j \in steps : j \in Int
          OBVIOUS
        <4> HIDE DEF steps, days
        <4> QED BY <2>8, <4>1
      <3>6. PICK s \in Int : s = p + k
        BY <3>2
      <3>3. d = 7 * s - FirstWeekday + w
        BY <2>3, <2>5, <3>1, <3>2, <3>6
      <3>4. Calendar!Weekday(d) = w
        BY <3>2, <3>3, Weeks
      <3>5. q - p = k
        BY <2>3, <2>4, <2>5, <3>2, <3>3, <3>4, <3>6
      <3> HIDE DEF steps, days
      <3> QED BY <3>4, <3>5
    <2> HIDE DEF steps, days, reached
    <2> QED BY <2>1, <2>9, <2>10, <2>11
  <1>7. CASE rule.freq = "monthly"
    <2> DEFINE own == Calendar!monthOf[first]
               month == Calendar!monthOf[d]
               day == first - Calendar!monthStart[own]
               fits == { m \in 1..CountOfMonths : m - own \in steps /\ day < MonthLengths[m] }
               reached == { Calendar!monthStart[m] + day : m \in fits }
    <2>0. Calendar!MonthDay(first) = day /\ Calendar!MonthDay(d) = d - Calendar!monthStart[month]
      BY DEF Calendar!MonthDay
    <2>1. Calendar!RuleDays(rule, first) = { e \in reached \cap Calendar!Days : e >= first }
      <3>1. Calendar!Months = 1..CountOfMonths
        BY DEF Calendar!Months, CountOfMonths
      <3>2. Calendar!RuleDays(rule, first) =
              { e \in { Calendar!monthStart[m] + Calendar!MonthDay(first) : m \in
                          { m \in Calendar!Months : m - own \in steps /\ Calendar!MonthDay(first) < MonthLengths[m] } }
                     \cap Calendar!Days : e >= first }
        BY <1>1, <1>2, <1>7 DEF Calendar!RuleDays
      <3> HIDE DEF own, steps, day
      <3> QED BY <2>0, <3>1, <3>2
    <2>2. Calendar!IsOccurrenceDay(d, first, rule) <=>
            d - Calendar!monthStart[month] = day /\ (month - own) % i = 0
      BY <1>2, <1>7, <2>0 DEF Calendar!IsOccurrenceDay
    <2>3. /\ own \in 1..CountOfMonths /\ month \in 1..CountOfMonths /\ CountOfMonths \in Nat
          /\ Calendar!monthStart[own] <= first /\ first < Calendar!monthStart[own + 1]
          /\ Calendar!monthStart[month] <= d /\ d < Calendar!monthStart[month + 1]
          /\ \A m \in 1..CountOfMonths :
               Calendar!monthStart[m] <= d /\ d < Calendar!monthStart[m + 1] => m = month
      BY MonthOfDay, MonthStarts
    <2>4. \A m \in 1..CountOfMonths :
             /\ Calendar!monthStart[m] \in Nat /\ MonthLengths[m] \in Nat
             /\ Calendar!monthStart[m + 1] = Calendar!monthStart[m] + MonthLengths[m]
      <3>1. \A m \in 1..CountOfMonths : MonthLengths[m] \in Nat
        BY CalendarConstants DEF CountOfMonths
      <3>2. \A m \in 1..CountOfMonths : m \in 1..(CountOfMonths + 1)
        BY <2>3
      <3>3. \A m \in 1..CountOfMonths : Calendar!monthStart[m] \in Nat
        BY <3>2, MonthOrder
      <3> QED BY <3>1, <3>3, MonthStarts
    <2> HIDE DEF own, month
    <2>5. own <= month
      <3> SUFFICES ASSUME month + 1 <= own PROVE FALSE
        BY <2>3
      <3>1. month + 1 \in 1..(CountOfMonths + 1) /\ own \in 1..(CountOfMonths + 1)
        BY <2>3
      <3>2. Calendar!monthStart[month + 1] + (own - (month + 1)) <= Calendar!monthStart[own]
        BY <3>1, MonthOrder
      <3>3. Calendar!monthStart[month + 1] \in Nat /\ Calendar!monthStart[own] \in Nat
        BY <3>1, MonthOrder
      <3> QED BY <1>3, <2>3, <3>2, <3>3
    <2>6. month - own \in 0..n
      BY <1>1, <2>3, <2>5
    <2>7. Calendar!IsOccurrenceDay(d, first, rule) <=>
            d = Calendar!monthStart[month] + day /\ month - own \in steps
      <3>1. d - Calendar!monthStart[month] = day <=> d = Calendar!monthStart[month] + day
        BY <1>3, <2>3, <2>4
      <3> HIDE DEF steps
      <3> QED BY <1>4, <2>2, <2>6, <3>1
    <2>8. day \in Nat
      BY <1>3, <2>3, <2>4
    <2>9. ASSUME d = Calendar!monthStart[month] + day, month - own \in steps PROVE d \in reached
      <3>1. day < MonthLengths[month]
        BY <1>3, <2>3, <2>4, <2>8, <2>9
      <3> HIDE DEF steps, day
      <3> QED BY <2>3, <2>9, <3>1
    <2>10. ASSUME d \in reached PROVE d = Calendar!monthStart[month] + day /\ month - own \in steps
      <3>1. PICK m \in fits : d = Calendar!monthStart[m] + day
        BY <2>10
      <3> HIDE DEF steps, day
      <3>2. m \in 1..CountOfMonths /\ m - own \in steps /\ day < MonthLengths[m]
        OBVIOUS
      <3>3. Calendar!monthStart[m] <= d /\ d < Calendar!monthStart[m + 1]
        BY <2>4, <2>8, <3>1, <3>2
      <3>4. m = month
        BY <2>3, <3>2, <3>3
      <3> QED BY <3>1, <3>2, <3>4
    <2> HIDE DEF reached
    <2> QED BY <2>1, <2>7, <2>9, <2>10
  <1> QED BY <1>5, <1>6, <1>7 DEF Calendar!RecurrenceRule, Calendar!Frequencies

\* The first instants of a set are all of them when they are fewer than were asked for.
LEMMA EarliestAreFirst ==
  ASSUME NEW S \in SUBSET Nat, IsFiniteSet(S), NEW n \in Nat \ {0}
  PROVE  /\ Calendar!Earliest(S, n) \subseteq S
         /\ Calendar!Cardinality(Calendar!Earliest(S, n)) # n => Calendar!Earliest(S, n) = S
PROOF
  <1> DEFINE Before(t) == { u \in S : u < t }
             E == Calendar!Earliest(S, n)
  <1>1. E = { t \in S : Cardinality(Before(t)) < n } /\ Calendar!Cardinality(E) = Cardinality(E)
    BY DEF Calendar!Earliest, Calendar!Cardinality, Cardinality
  <1>2. ASSUME NEW t PROVE IsFiniteSet(Before(t)) /\ Cardinality(Before(t)) \in Nat
    BY FS_Subset, FS_CardinalityType
  <1>0. \A u \in S : u \in Nat
    OBVIOUS
  <1> HIDE DEF E
  <1>3. E \subseteq S
    BY <1>1
  <1>4. ASSUME E # S PROVE Cardinality(E) = n
    <2> DEFINE late == { t \in S : ~(Cardinality(Before(t)) < n) }
    <2>1. PICK t \in late : \A u \in late : t <= u
      <3>1. late \in SUBSET Nat /\ late # {}
        BY <1>1, <1>4
      <3> HIDE DEF late
      <3> QED BY <3>1, HasLeast
    <2>2. t \in Nat /\ t \in S /\ Cardinality(Before(t)) >= n
      BY <1>2, <2>1
    <2>3. E = Before(t)
      <3>1. ASSUME NEW u \in S, u < t PROVE u \in E
        <4>1. u \notin late
          BY <2>1, <2>2, <3>1
        <4> QED BY <1>1, <4>1
      <3>2. ASSUME NEW u \in E PROVE u < t
        <4> SUFFICES ASSUME t <= u PROVE FALSE
          BY <1>3, <2>2
        <4>1. Before(t) \subseteq Before(u) /\ u \in S
          <5>1. u \in S /\ u \in Nat
            BY <1>0, <1>3
          <5>2. ASSUME NEW w \in S, w < t PROVE w < u
            <6>1. w \in Nat
              BY <1>0
            <6> QED BY <2>2, <5>1, <5>2, <6>1
          <5> QED BY <5>1, <5>2
        <4>2. Cardinality(Before(t)) <= Cardinality(Before(u))
          <5> HIDE DEF Before
          <5> QED BY <1>2, <4>1, FS_Subset
        <4>3. Cardinality(Before(u)) < n
          BY <1>1
        <4> HIDE DEF Before
        <4> QED BY <1>2, <2>2, <4>2, <4>3
      <3> QED BY <1>3, <3>1, <3>2
    <2>4. Cardinality(Before(t)) <= n
      <3>1. Before(t) # {}
        BY <2>2, FS_EmptySet
      <3>2. PICK v \in Before(t) : \A u \in Before(t) : u <= v
        <4>1. Before(t) \in SUBSET Nat /\ \A u \in Before(t) : u <= t
          <5>1. ASSUME NEW w \in S, w < t PROVE w \in Nat /\ w <= t
            <6>1. w \in Nat
              BY <1>0
            <6> QED BY <2>2, <5>1, <6>1
          <5> QED BY <5>1
        <4> HIDE DEF Before
        <4> QED BY <2>2, <3>1, <4>1, HasGreatest
      <3>3. Before(t) = Before(v) \cup {v} /\ v \notin Before(v)
        <4>1. v \in S /\ v < t /\ \A u \in S : u < t => u <= v
          BY <3>2
        <4>2. \A u \in S : u < t <=> u < v \/ u = v
          BY <1>0, <2>2, <4>1
        <4>3. ~(v < v)
          BY <1>0, <4>1
        <4>4. Before(t) \subseteq Before(v) \cup {v}
          BY <4>2
        <4>5. Before(v) \cup {v} \subseteq Before(t)
          BY <4>1, <4>2
        <4> QED BY <4>3, <4>4, <4>5
      <3>4. v \in E
        BY <2>3
      <3>5. Cardinality(Before(v)) < n
        BY <1>1, <3>4
      <3>6. Cardinality(Before(t)) = Cardinality(Before(v)) + 1
        <4> HIDE DEF Before
        <4> QED BY <1>2, <3>3, FS_AddElement
      <3> QED BY <1>2, <3>5, <3>6
    <2> QED BY <1>2, <2>2, <2>3, <2>4
  <1> QED BY <1>1, <1>3, <1>4 DEF E

\* Days follow one another as their instants do.
LEMMA DaysFollow ==
  /\ \A t \in Int : Calendar!DayOf(t) \in Int
  /\ \A t, u \in Int : t <= u => Calendar!DayOf(t) <= Calendar!DayOf(u)
PROOF
  <1>1. Day \in Nat \ {0}
    BY CalendarConstants
  <1>2. ASSUME NEW t \in Int, NEW u \in Int, t <= u PROVE Calendar!DayOf(t) <= Calendar!DayOf(u)
    <2> SUFFICES ASSUME Calendar!DayOf(u) + 1 <= Calendar!DayOf(t) PROVE FALSE
      BY <1>1 DEF Calendar!DayOf
    <2>1. PICK p \in Int : p = t \div Day /\ t >= Day * p
      <3>1. t \div Day \in Int /\ t % Day \in 0..(Day - 1) /\ t = Day * (t \div Day) + (t % Day)
        BY <1>1, DivMod
      <3> QED BY <1>1, <3>1
    <2>2. PICK q \in Int : q = u \div Day /\ u < Day * q + Day
      <3>1. u \div Day \in Int /\ u % Day \in 0..(Day - 1) /\ u = Day * (u \div Day) + (u % Day)
        BY <1>1, DivMod
      <3> QED BY <1>1, <3>1
    <2>3. p - (q + 1) \in Nat
      BY <2>1, <2>2 DEF Calendar!DayOf
    <2>4. Day * (p - (q + 1)) >= 0 /\ Day * p = Day * q + Day + Day * (p - (q + 1))
      BY <1>1, <2>3
    <2> QED BY <1>1, <1>2, <2>1, <2>2, <2>4
  <1> QED BY <1>1, <1>2 DEF Calendar!DayOf

\* The instant of a day at the time of one that starts at a whole second.
LEMMA AtIsDaysLater ==
  ASSUME NEW start \in Nat, start % Second = 0, NEW d \in Int
  PROVE  /\ Calendar!At(d, start) = start + (d - Calendar!DayOf(start)) * Day
         /\ Calendar!At(d, start) \in Int /\ Calendar!DayOf(Calendar!At(d, start)) = d
         /\ Calendar!DayOf(start) <= d => start <= Calendar!At(d, start)
PROOF
  <1>1. Day \in Nat \ {0}
    BY CalendarConstants
  <1>2. PICK q \in Int, r \in 0..(Day - 1) : q = start \div Day /\ r = start % Day /\ start = Day * q + r
    <2>1. /\ start \div Day \in Int /\ start % Day \in 0..(Day - 1)
          /\ start = Day * (start \div Day) + (start % Day)
      BY <1>1, DivMod
    <2> QED BY <2>1
  <1>3. Calendar!At(d, start) = Day * d + r
    BY <1>1, <1>2 DEF Calendar!At
  <1>4. (Day * d + r) \div Day = d
    BY <1>1, <1>2, Divided
  <1>5. Calendar!DayOf(start) = q
    BY <1>2 DEF Calendar!DayOf
  <1>6. (d - q) * Day = Day * d - Day * q
    BY <1>1
  <1>7. q <= d => (d - q) * Day >= 0
    BY <1>1
  <1> QED BY <1>1, <1>2, <1>3, <1>4, <1>5, <1>6, <1>7 DEF Calendar!DayOf

\* What a page has of an event that starts at a whole second.
LEMMA PageIsScheduled ==
  ASSUME NEW event \in Events, event.start % Second = 0,
         NEW from \in Nat, NEW to \in Int, Calendar!DayOf(to + 1) \in Calendar!Days
  PROVE  LET page == Calendar!Expand(event, from, to)
             due == { t \in Calendar!Scheduled(event) : from <= t /\ t <= to }
         IN  page \subseteq due /\ (Calendar!Cardinality(page) # MaxExpanded => page = due)
PROOF
  <1> DEFINE rule == Calendar!RuleOf(event)
             first == Calendar!DayOf(event.start)
             due == { t \in Calendar!Scheduled(event) : from <= t /\ t <= to }
             Due(d) == IF rule.until = NoEnd THEN TRUE ELSE d <= Calendar!DayOf(rule.until)
             days == { d \in Calendar!LoopDays(event.start, rule, from, to) :
                         Calendar!IsOccurrenceDay(d, first, rule) }
             found == { t \in { Calendar!At(d, event.start) : d \in days } :
                          from <= t /\ t <= to /\ event.start <= t }
  <1>1. /\ event.start \in Nat /\ first \in Calendar!Days
        /\ rule \in Calendar!RecurrenceRule \cup {NoRule}
    BY BackofficeAssumption DEF Calendar!PagingAssumption, Calendar!RuleOf
  <1>2. MaxExpanded \in Nat \ {0}
    BY CalendarConstants
  <1>3. CASE rule = NoRule
    <2>1. Calendar!Expand(event, from, to) = {event.start} \cap (from..to)
      BY <1>3 DEF Calendar!Expand
    <2>2. Calendar!Scheduled(event) = {event.start}
      BY <1>3 DEF Calendar!Scheduled
    <2> QED BY <1>1, <2>1, <2>2
  <1>4. CASE rule # NoRule
    <2>1. rule \in Calendar!RecurrenceRule /\ rule.until \in Nat \cup {NoEnd}
      BY <1>1, <1>4 DEF Calendar!RecurrenceRule
    <2>2. Calendar!Expand(event, from, to) = Calendar!Earliest(found, MaxExpanded)
      BY <1>4 DEF Calendar!Expand
    <2>3. Calendar!Scheduled(event) =
            { event.start + (d - first) * Day : d \in { d \in Calendar!RuleDays(rule, first) : Due(d) } }
      BY <1>4 DEF Calendar!Scheduled
    <2>4. PICK n \in Nat : Calendar!Days = 0..(n - 1)
      BY DaysAreCounted
    <2> HIDE DEF rule, first
    <2>5. Calendar!RuleDays(rule, first) \subseteq { d \in Calendar!Days : d >= first }
      BY DEF Calendar!RuleDays
    <2>6. /\ first \in Int /\ Calendar!DayOf(from) \in Int /\ Calendar!DayOf(to) \in Int
          /\ Calendar!DayOf(to) <= n - 1
          /\ rule.until # NoEnd => Calendar!DayOf(rule.until) \in Int
      <3>1. Calendar!DayOf(to) <= Calendar!DayOf(to + 1) /\ Calendar!DayOf(to) \in Int
        BY DaysFollow
      <3>2. Calendar!DayOf(to + 1) \in 0..(n - 1) /\ first \in 0..(n - 1)
        BY <1>1, <2>4
      <3>3. Calendar!DayOf(from) \in Int /\ (rule.until # NoEnd => Calendar!DayOf(rule.until) \in Int)
        BY <2>1, DaysFollow
      <3> QED BY <3>1, <3>2, <3>3
    <2>7. ASSUME NEW d \in Int
          PROVE  d \in Calendar!LoopDays(event.start, rule, from, to) <=>
                   first <= d /\ Calendar!DayOf(from) <= d /\ d <= Calendar!DayOf(to) /\ Due(d)
      BY <2>6 DEF Calendar!LoopDays, Calendar!LastDay, Calendar!MaxOf, Calendar!MinOf, first
    <2>8. ASSUME NEW t \in found PROVE t \in due
      <3>1. PICK d \in days : t = Calendar!At(d, event.start)
        OBVIOUS
      <3>2. d \in Int /\ d \in Calendar!LoopDays(event.start, rule, from, to)
        BY DEF Calendar!LoopDays
      <3>3. d \in Calendar!Days /\ first <= d /\ Due(d)
        BY <1>1, <2>4, <2>6, <2>7, <3>2
      <3>4. d \in Calendar!RuleDays(rule, first)
        BY <1>1, <2>1, <3>3, RuleDaysAreOccurrences
      <3>5. t = event.start + (d - first) * Day
        BY <1>1, <3>1, <3>2, AtIsDaysLater DEF first
      <3>6. t \in Calendar!Scheduled(event)
        BY <2>3, <3>3, <3>4, <3>5
      <3> QED BY <3>6
    <2>9. ASSUME NEW t \in due PROVE t \in found
      <3>1. PICK d \in { d \in Calendar!RuleDays(rule, first) : Due(d) } : t = event.start + (d - first) * Day
        BY <2>3
      <3>2. d \in Calendar!RuleDays(rule, first) /\ Due(d)
        BY <3>1
      <3>3. d \in Int /\ d \in Calendar!Days /\ first <= d
        BY <2>4, <2>5, <3>2
      <3>4. t = Calendar!At(d, event.start) /\ t \in Int /\ Calendar!DayOf(t) = d /\ event.start <= t
        BY <1>1, <3>1, <3>3, AtIsDaysLater DEF first
      <3>5. Calendar!DayOf(from) <= d /\ d <= Calendar!DayOf(to)
        BY <3>4, DaysFollow
      <3>6. d \in days
        BY <1>1, <2>1, <2>7, <3>2, <3>3, <3>5, RuleDaysAreOccurrences
      <3> HIDE DEF days
      <3> QED BY <3>4, <3>6
    <2>10. found = due
      <3> HIDE DEF found, due
      <3> QED BY <2>8, <2>9
    <2>11. found \in SUBSET Nat /\ IsFiniteSet(found)
      <3>1. \A t \in found : t \in Int /\ t \in from..to
        <4>1. ASSUME NEW t \in found PROVE t \in Int
          <5>1. PICK d \in days : t = Calendar!At(d, event.start)
            OBVIOUS
          <5>2. d \in Int
            BY DEF Calendar!LoopDays
          <5> QED BY <1>1, <5>1, <5>2, AtIsDaysLater
        <4> HIDE DEF days
        <4> QED BY <4>1
      <3>2. IsFiniteSet(from..to)
        BY FS_Interval
      <3> HIDE DEF found
      <3>3. found \in SUBSET (from..to) /\ found \in SUBSET Nat
        BY <3>1
      <3> QED BY <3>2, <3>3, FS_Subset
    <2> HIDE DEF found, due
    <2>12. /\ Calendar!Earliest(found, MaxExpanded) \subseteq found
           /\ Calendar!Cardinality(Calendar!Earliest(found, MaxExpanded)) # MaxExpanded =>
                Calendar!Earliest(found, MaxExpanded) = found
      BY <1>2, <2>11, EarliestAreFirst
    <2> QED BY <2>2, <2>10, <2>12 DEF due
  <1> QED BY <1>3, <1>4

PagingInv ==
  /\ row \in Events \cup {NoEvent} /\ next \in Nat /\ isFull \in BOOLEAN
  /\ row = NoEvent => next = 0 /\ listed = {} /\ ~isFull
  /\ Calendar!PagingIsExact

\* Nothing is due before the event starts.
LEMMA ScheduledLater ==
  ASSUME NEW event \in Events, NEW t \in Calendar!Scheduled(event)
  PROVE  t \in Nat
PROOF
  <1> DEFINE rule == Calendar!RuleOf(event)
             first == Calendar!DayOf(event.start)
  <1>1. event.start \in Nat /\ first \in Int
    BY BackofficeAssumption, DaysFollow DEF Calendar!PagingAssumption
  <1>2. CASE rule = NoRule
    BY <1>1, <1>2 DEF Calendar!Scheduled
  <1>3. CASE rule # NoRule
    <2>1. PICK d \in Calendar!RuleDays(rule, first) : t = event.start + (d - first) * Day
      BY <1>3 DEF Calendar!Scheduled
    <2> HIDE DEF rule, first
    <2>2. d \in Calendar!Days /\ d >= first
      BY DEF Calendar!RuleDays
    <2>3. d \in Int
      BY <2>2, DaysAreCounted
    <2>4. Day \in Nat /\ d - first \in Nat
      BY <1>1, <2>2, <2>3, CalendarConstants
    <2>5. (d - first) * Day \in Nat
      BY <2>4
    <2> QED BY <1>1, <2>1, <2>5
  <1> QED BY <1>2, <1>3

LEMMA PagingInvStep == PagingInv /\ [Calendar!Next]_calendarVars => PagingInv'
PROOF
  <1> SUFFICES ASSUME PagingInv, [Calendar!Next]_calendarVars PROVE PagingInv'
    OBVIOUS
  <1>1. CASE UNCHANGED calendarVars
    BY <1>1 DEF PagingInv, calendarVars, Calendar!PagingIsExact
  <1>2. ASSUME NEW event \in Events, Calendar!Open(event) PROVE PagingInv'
    <2>1. row' = event /\ next' = 0 /\ listed' = {} /\ isFull' = FALSE
      BY <1>2 DEF Calendar!Open, PagingInv
    <2>2. ~ \E t \in Calendar!Scheduled(event) : t < 0
      BY ScheduledLater
    <2>3. { t \in Calendar!Scheduled(event) : t < 0 } = {}
      BY <2>2
    <2>4. event # NoEvent
      BY BackofficeAssumption DEF Calendar!PagingAssumption
    <2> QED BY <2>1, <2>3, <2>4 DEF PagingInv, Calendar!PagingIsExact
  <1>3. ASSUME NEW length \in Pages, Calendar!ListPage(length) PROVE PagingInv'
    <2> DEFINE page == Calendar!Expand(row, next, next + length - 1)
               had == { t \in Calendar!Scheduled(row) : t < next }
               due == { t \in Calendar!Scheduled(row) : next <= t /\ t <= next + length - 1 }
               has == { t \in Calendar!Scheduled(row) : t < next + length }
    <2>1. /\ row # NoEvent /\ row' = row /\ next' = next + length
          /\ listed' = listed \cup page
          /\ isFull' = (isFull \/ Calendar!Cardinality(page) = MaxExpanded)
          /\ Calendar!DayOf(next + length) \in Calendar!Days
      BY <1>3 DEF Calendar!ListPage
    <2>2. length \in Nat \ {0} /\ next \in Nat /\ row \in Events
      BY <2>1, BackofficeAssumption DEF Calendar!PagingAssumption, PagingInv
    <2>3. has = had \cup due
      <3>1. ASSUME NEW t \in Calendar!Scheduled(row)
            PROVE  t < next + length <=> t < next \/ (next <= t /\ t <= next + length - 1)
        <4>1. t \in Nat
          BY <2>2, ScheduledLater
        <4> QED BY <2>2, <4>1
      <3> QED BY <3>1
    <2>4. ASSUME row.start % Second = 0
          PROVE  page \subseteq due /\ (Calendar!Cardinality(page) # MaxExpanded => page = due)
      <3>1. next + length - 1 \in Int /\ Calendar!DayOf((next + length - 1) + 1) \in Calendar!Days
        BY <2>1, <2>2
      <3> QED BY <2>2, <2>4, <3>1, PageIsScheduled
    <2>5. row.start % Second = 0 => listed \subseteq had /\ (~isFull => listed = had)
      BY <2>1 DEF PagingInv, Calendar!PagingIsExact
    <2> HIDE DEF page, had, due
    <2>6. row.start % Second = 0 => listed' \subseteq has /\ (~isFull' => listed' = has)
      <3> HIDE DEF has
      <3> QED BY <2>1, <2>3, <2>4, <2>5
    <2>7. Calendar!PagingIsExact'
      BY <2>1, <2>6 DEF Calendar!PagingIsExact
    <2>8. isFull' \in BOOLEAN /\ next' \in Nat
      BY <2>1, <2>2
    <2> QED BY <2>1, <2>2, <2>7, <2>8 DEF PagingInv
  <1> QED BY <1>1, <1>2, <1>3 DEF Calendar!Next

LEMMA PagingInit == Init => PagingInv
PROOF
  <1> SUFFICES ASSUME Init PROVE PagingInv
    OBVIOUS
  <1>1. row = NoEvent /\ next = 0 /\ listed = {} /\ isFull = FALSE
    BY DEF Init, Calendar!Init
  <1>2. Calendar!PagingIsExact
    BY <1>1, Zenon DEF Calendar!PagingIsExact
  <1>3. row \in Events \cup {NoEvent} /\ next \in Nat
    BY <1>1
  <1>4. isFull \in BOOLEAN /\ ~isFull
    BY <1>1
  <1> QED BY <1>1, <1>2, <1>3, <1>4 DEF PagingInv

LEMMA PagingStep == [Next]_vars => [Calendar!Next]_calendarVars
PROOF
  BY DEF Next, vars, calendarVars

\* The inductive invariant of a reader of the calendar.
THEOREM PagesInOrder == Spec => []PagingInv
PROOF
  <1> QED BY PagingInit, PagingStep, PagingInvStep, PTL DEF Spec

\* Page after page, listOccurrences gives exactly the dates a rule has when they are counted out,
\* none twice and none missed where two pages meet, for every calendar of months; a page cut off at
\* the limit loses dates but invents none.
THEOREM PagesAreExact == Spec => []PagingIsExact
PROOF
  <1>1. PagingInv => PagingIsExact
    BY DEF PagingInv, PagingIsExact
  <1> QED BY <1>1, PagesInOrder, PTL

=============================================================================
