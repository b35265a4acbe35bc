----------------------------- MODULE WebsiteProofs -----------------------------
(***************************************************************************)
(* Proofs about Website: the newsletter, its limiter and the proposals,    *)
(* for every number of addresses, keys, offers and requests.               *)
(***************************************************************************)
EXTENDS Website, NumberTheorems, FiniteSetTheorems, TLAPS

-----------------------------------------------------------------------------
(* The newsletter: the inductive invariant *)

\* Types, and a request that will mail has a pair of tokens to mail.
LettersTypes ==
  /\ Letters!TypeOK
  /\ inbox = [e \in Emails |-> inbox[e]]
  /\ \A r \in Requests : mailRequests[r].pc \in {"inserting", "updating", "mailing"} =>
                           mailRequests[r].token # 0

\* The stamps tell the story of the status, and a confirmation outstanding has
\* the number of the link to leave.
TellsOneStory(row) ==
  /\ row.status = "pending_confirmation" <=> row.confirm # 0
  /\ row.status = "pending_confirmation" => ~row.confirmedAt
  /\ row.status = "subscribed" => row.confirmedAt
  /\ row.status = "unsubscribed" <=> row.unsubscribedAt
  /\ row.confirm # 0 => row.confirm = row.unsub

\* So do the rows and the copies that may overwrite them, however stale.
StoriesAgree ==
  /\ \A e \in Emails : rows[e] # NoRow => TellsOneStory(rows[e])
  /\ \A r \in Requests : mailRequests[r] # Letters!Idle =>
       LET q == mailRequests[r] IN
       /\ TellsOneStory(q.copy)
       /\ q.pc \in {"inserting", "updating"} =>
            q.copy.status = "pending_confirmation" /\ q.copy.unsub = q.token

\* A mail for e gives the link of a row to leave.
Links(e, row) == \E m \in Letters!Received(e) : m.unsub = row.unsub

\* Both tokens of a mail are of one pair, and whoever is or is about to be
\* subscribed has the link.
LinksWork ==
  /\ \A e \in Emails : \A m \in Letters!Received(e) : m.confirm = m.unsub
  /\ \A e \in Emails : rows[e] # NoRow /\ rows[e].status = "subscribed" => Links(e, rows[e])
  /\ \A r \in Requests : LET q == mailRequests[r] IN
       q.pc = "saving" /\ q.copy.status = "subscribed" => Links(q.email, q.copy)

Handles(r, e) == Letters!Touches(mailRequests[r], e)

\* What a request about e knows of it when it is alone with it.
KnowsRow(q, e) ==
  /\ q.pc = "inserting" => rows[e] = NoRow
  /\ q.pc = "saving" =>
       /\ rows[e] # NoRow
       /\ q.copy.unsub = rows[e].unsub
       /\ q.copy.status = "subscribed" => rows[e].status = "pending_confirmation"
  /\ q.pc = "mailing" =>
       rows[e].unsub = q.token /\ rows[e].status = "pending_confirmation"

\* The newest mail carries the link of the row, but for one that is being sent.
NewestLinks(e) ==
  rows[e] # NoRow /\ (\A r \in Requests : Handles(r, e) => mailRequests[r].pc # "mailing") =>
    inbox[e] # <<>> /\ Letters!Last(inbox[e]).unsub = rows[e].unsub

InOrder(e) ==
  /\ \A r, s \in Requests : Handles(r, e) /\ Handles(s, e) => r = s
  /\ \A r \in Requests : Handles(r, e) => KnowsRow(mailRequests[r], e)
  /\ NewestLinks(e)

CalmInOrder == \A e \in CalmEmails : InOrder(e)

LettersInv == LettersTypes /\ StoriesAgree /\ LinksWork /\ CalmInOrder

-----------------------------------------------------------------------------
(* The newsletter: every step keeps the invariant *)

\* A request in flight has the fields of one.
LEMMA LetterInFlight ==
  ASSUME LettersTypes, NEW r \in Requests, mailRequests[r].pc # "idle"
  PROVE  mailRequests[r] \in Letters!Request
  BY DEF LettersTypes, Letters!TypeOK, Letters!Idle

\* The rows subscribe, confirm and unsubscribe mean to save are rows.
LEMMA SavedRowTypes ==
  ASSUME NEW row \in Letters!Row, NEW t \in 1..MaxIssued
  PROVE  /\ Letters!Fresh(t) \in Letters!Row
         /\ Letters!Restarted(row, t) \in Letters!Row
         /\ Letters!Confirmed(row) \in Letters!Row
         /\ Letters!Left(row) \in Letters!Row
PROOF
  <1> USE DEF Letters!Row, Letters!Statuses
  <1>1. MaxIssued \in Nat /\ t \in 0..MaxIssued /\ 0 \in 0..MaxIssued
    BY WebsiteAssumption DEF Letters!NewsletterAssumption
  <1>2. Letters!Fresh(t) \in Letters!Row
    BY <1>1 DEF Letters!Fresh
  <1>3. Letters!Restarted(row, t) \in Letters!Row
    BY <1>1 DEF Letters!Restarted
  <1>4. Letters!Confirmed(row) \in Letters!Row
    BY <1>1 DEF Letters!Confirmed
  <1>5. Letters!Left(row) \in Letters!Row
    BY <1>1 DEF Letters!Left
  <1> QED BY <1>2, <1>3, <1>4, <1>5

\* A step of a request leaves the others and, given one of the kind, keeps their types.
LEMMA LetterStep ==
  ASSUME LettersTypes, NEW r \in Requests, NEW q \in {Letters!Idle} \cup Letters!Request,
         Letters!Step(r, q), q = Letters!Idle \/ q.pc = "saving" \/ q.token # 0
  PROVE  /\ mailRequests' \in [Requests -> {Letters!Idle} \cup Letters!Request]
         /\ mailRequests'[r] = q
         /\ \A s \in Requests : s # r => mailRequests'[s] = mailRequests[s]
         /\ \A s \in Requests : mailRequests'[s].pc \in {"inserting", "updating", "mailing"} =>
                                 mailRequests'[s].token # 0
PROOF
  <1>1. mailRequests \in [Requests -> {Letters!Idle} \cup Letters!Request]
    BY DEF LettersTypes, Letters!TypeOK
  <1>2. mailRequests' = [mailRequests EXCEPT ![r] = q]
    BY DEF Letters!Step
  <1>3. \A s \in Requests : mailRequests'[s] = IF s = r THEN q ELSE mailRequests[s]
    BY <1>1, <1>2
  <1>4. q.pc \in {"inserting", "updating", "mailing"} => q.token # 0
    BY DEF Letters!Idle
  <1>5. mailRequests' \in [Requests -> {Letters!Idle} \cup Letters!Request]
    BY <1>1, <1>2
  <1> QED BY <1>3, <1>4, <1>5 DEF LettersTypes

\* Rows, mails and requests keep their types, and a request keeps its tokens.
LEMMA LettersTypesStep == LettersTypes /\ [Letters!Next]_mailVars => LettersTypes'
PROOF
  <1> SUFFICES ASSUME LettersTypes, [Letters!Next]_mailVars PROVE LettersTypes'
    OBVIOUS
  <1> USE DEF mailVars
  <1>0. MaxIssued \in Nat
    BY WebsiteAssumption DEF Letters!NewsletterAssumption
  <1>1. ASSUME NEW r \in Requests, NEW e \in Emails, Letters!StartSubscribe(r, e)
        PROVE  LettersTypes'
    <2>1. issued' \in 1..MaxIssued
      BY <1>0, <1>1 DEF Letters!StartSubscribe, LettersTypes, Letters!TypeOK
    <2>2. PICK q \in Letters!Request :
            Letters!Step(r, q) /\ q.token # 0
      <3>1. CASE rows[e] = NoRow
        <4> DEFINE q == [pc |-> "inserting", email |-> e, copy |-> Letters!Fresh(issued'),
                         token |-> issued']
        <4>1. Letters!Fresh(issued') \in Letters!Row
          BY <2>1, <1>0 DEF Letters!Fresh, Letters!Row, Letters!Statuses
        <4>2. q \in Letters!Request
          BY <2>1, <4>1, <1>0 DEF Letters!Request
        <4>3. Letters!Step(r, q)
          BY <1>1, <3>1 DEF Letters!StartSubscribe
        <4> QED BY <2>1, <4>2, <4>3
      <3>2. CASE rows[e] # NoRow
        <4> DEFINE q == [pc |-> "updating", email |-> e,
                         copy |-> Letters!Restarted(rows[e], issued'), token |-> issued']
        <4>1. rows[e] \in Letters!Row
          BY <3>2 DEF LettersTypes, Letters!TypeOK
        <4>2. q \in Letters!Request
          BY <2>1, <4>1, <1>0, SavedRowTypes DEF Letters!Request
        <4>3. Letters!Step(r, q)
          BY <1>1, <3>2 DEF Letters!StartSubscribe
        <4> QED BY <2>1, <4>2, <4>3
      <3> QED BY <3>1, <3>2
    <2>3. issued' \in 0..MaxIssued /\ rows' = rows /\ inbox' = inbox
      BY <1>0, <1>1, <2>1 DEF Letters!StartSubscribe
    <2> QED BY <2>2, <2>3, LetterStep DEF LettersTypes, Letters!TypeOK
  <1>2. ASSUME NEW r \in Requests, NEW e \in Emails,
               Letters!StartConfirm(r, e) \/ Letters!StartUnsubscribe(r, e)
        PROVE  LettersTypes'
    <2>1. rows[e] \in Letters!Row
      BY <1>2 DEF Letters!StartConfirm, Letters!StartUnsubscribe, LettersTypes, Letters!TypeOK
    <2>2. PICK copy \in Letters!Row, t \in 0..MaxIssued :
            Letters!Step(r, [pc |-> "saving", email |-> e, copy |-> copy, token |-> t])
      <3>1. rows[e].confirm \in 0..MaxIssued /\ 0 \in 0..MaxIssued /\ rows[e].unsub \in 1..MaxIssued
        BY <2>1, <1>0 DEF Letters!Row
      <3>2. Letters!Confirmed(rows[e]) \in Letters!Row /\ Letters!Left(rows[e]) \in Letters!Row
        BY <2>1, <3>1, SavedRowTypes
      <3> QED BY <1>2, <3>1, <3>2 DEF Letters!StartConfirm, Letters!StartUnsubscribe
    <2> DEFINE q == [pc |-> "saving", email |-> e, copy |-> copy, token |-> t]
    <2>3. q \in Letters!Request
      BY DEF Letters!Request
    <2>5. rows' = rows /\ inbox' = inbox /\ issued' = issued
      BY <1>2 DEF Letters!StartConfirm, Letters!StartUnsubscribe
    <2> QED BY <2>2, <2>3, <2>5, LetterStep DEF LettersTypes, Letters!TypeOK
  <1>3. ASSUME NEW r \in Requests, Letters!SaveSubscription(r) PROVE LettersTypes'
    <2> DEFINE q == mailRequests[r]
    <2>1. q \in Letters!Request /\ q.token # 0
      BY <1>3, LetterInFlight DEF Letters!SaveSubscription, LettersTypes
    <2>2. [q EXCEPT !.pc = "mailing"] \in Letters!Request
      BY <2>1 DEF Letters!Request
    <2>3. rows' \in [Emails -> Letters!Row \cup {NoRow}]
      BY <1>3, <2>1 DEF Letters!SaveSubscription, LettersTypes, Letters!TypeOK, Letters!Request
    <2>4. PICK p \in {Letters!Idle, [q EXCEPT !.pc = "mailing"]} : Letters!Step(r, p)
      BY <1>3 DEF Letters!SaveSubscription, Letters!AfterSave
    <2>5. p = Letters!Idle \/ p.token # 0
      BY <2>1 DEF Letters!Request
    <2>6. inbox' = inbox /\ issued' = issued
      BY <1>3 DEF Letters!SaveSubscription
    <2> QED BY <2>2, <2>3, <2>4, <2>5, <2>6, LetterStep DEF LettersTypes, Letters!TypeOK
  <1>4. ASSUME NEW r \in Requests, Letters!SendMail(r) PROVE LettersTypes'
    <2> DEFINE q == mailRequests[r]
    <2>1. q \in Letters!Request /\ q.token # 0
      BY <1>4, LetterInFlight DEF Letters!SendMail, LettersTypes
    <2>2. Letters!MailOf(q) \in Letters!Mail
      BY <2>1, <1>0 DEF Letters!MailOf, Letters!Mail, Letters!Request
    <2>3. Append(inbox[q.email], Letters!MailOf(q)) \in Seq(Letters!Mail)
      BY <2>1, <2>2 DEF Letters!Request, LettersTypes, Letters!TypeOK
    <2>4. inbox' = [inbox EXCEPT ![q.email] = Append(inbox[q.email], Letters!MailOf(q))]
      BY <1>4 DEF Letters!SendMail
    <2>5. /\ inbox' = [e \in Emails |-> inbox'[e]]
          /\ \A e \in Emails : inbox'[e] \in Seq(Letters!Mail)
      BY <2>3, <2>4 DEF LettersTypes, Letters!TypeOK
    <2> QED BY <1>4, <2>5 DEF Letters!SendMail, Letters!Step, Letters!Idle, LettersTypes,
              Letters!TypeOK
  <1>5. ASSUME NEW r \in Requests, Letters!SaveRow(r) PROVE LettersTypes'
    <2>1. mailRequests[r] \in Letters!Request
      BY <1>5, LetterInFlight DEF Letters!SaveRow
    <2> QED BY <1>5, <2>1 DEF Letters!SaveRow, Letters!Step, Letters!Idle, Letters!Request,
              LettersTypes, Letters!TypeOK
  <1>6. ASSUME NEW r \in Requests, Letters!Fail(r) PROVE LettersTypes'
    BY <1>6 DEF Letters!Fail, Letters!Step, Letters!Idle, LettersTypes, Letters!TypeOK
  <1>7. CASE UNCHANGED mailVars
    BY <1>7 DEF LettersTypes, Letters!TypeOK
  <1> QED BY <1>1, <1>2, <1>3, <1>4, <1>5, <1>6, <1>7 DEF Letters!Next, Letters!Continue

\* What becomes of the requests and of the row of the address: the cases of a step
\* that begins a request about e.
LEMMA LetterStarts ==
  ASSUME LettersTypes, NEW r \in Requests, NEW e \in Emails,
         Letters!StartSubscribe(r, e) \/ Letters!StartConfirm(r, e) \/ Letters!StartUnsubscribe(r, e)
  PROVE  /\ rows' = rows /\ inbox' = inbox
         /\ mailRequests[r] = Letters!Idle /\ Letters!Alone(e)
         /\ mailRequests'[r].pc # "idle" /\ mailRequests'[r].pc # "mailing"
         /\ mailRequests'[r].email = e
         /\ \A s \in Requests : s # r => mailRequests'[s] = mailRequests[s]
  BY DEF Letters!StartSubscribe, Letters!StartConfirm, Letters!StartUnsubscribe, Letters!MayStart,
     Letters!Step, LettersTypes, Letters!TypeOK

\* A row saved is a copy, and every copy is made consistent from a consistent row.
LEMMA StoriesAgreeStep ==
  LettersTypes /\ StoriesAgree /\ [Letters!Next]_mailVars => StoriesAgree'
PROOF
  <1> SUFFICES ASSUME LettersTypes, StoriesAgree, [Letters!Next]_mailVars PROVE StoriesAgree'
    OBVIOUS
  <1> USE DEF mailVars
  <1> DEFINE Told(q) == /\ TellsOneStory(q.copy)
                        /\ q.pc \in {"inserting", "updating"} =>
                             q.copy.status = "pending_confirmation" /\ q.copy.unsub = q.token
  <1>0. mailRequests \in [Requests -> {Letters!Idle} \cup Letters!Request]
    BY DEF LettersTypes, Letters!TypeOK
  <1>1. ASSUME NEW r \in Requests, NEW e \in Emails, Letters!StartSubscribe(r, e)
        PROVE  StoriesAgree'
    <2>1. issued' # 0 /\ rows' = rows
      BY <1>1, WebsiteAssumption
      DEF Letters!StartSubscribe, LettersTypes, Letters!TypeOK, Letters!NewsletterAssumption
    <2>2. TellsOneStory(Letters!Fresh(issued'))
      BY <2>1 DEF TellsOneStory, Letters!Fresh
    <2>3. rows[e] # NoRow /\ rows[e].status # "subscribed" =>
            TellsOneStory(Letters!Restarted(rows[e], issued'))
      <3> SUFFICES ASSUME rows[e] # NoRow, rows[e].status # "subscribed"
                   PROVE  TellsOneStory(Letters!Restarted(rows[e], issued'))
        OBVIOUS
      <3>1. rows[e] \in Letters!Row
        BY DEF LettersTypes, Letters!TypeOK
      <3> QED BY <2>1, <3>1 DEF TellsOneStory, Letters!Restarted, Letters!Row
    <2>4. Told(mailRequests'[r])
      <3>1. CASE rows[e] = NoRow
        <4>1. mailRequests'[r] = [pc |-> "inserting", email |-> e,
                                  copy |-> Letters!Fresh(issued'), token |-> issued']
          BY <1>0, <1>1, <3>1 DEF Letters!StartSubscribe, Letters!Step
        <4>2. /\ Letters!Fresh(issued').status = "pending_confirmation"
              /\ Letters!Fresh(issued').unsub = issued'
          BY DEF Letters!Fresh
        <4> QED BY <2>2, <4>1, <4>2
      <3>2. CASE rows[e] # NoRow
        <4>1. rows[e] \in Letters!Row
          BY <3>2 DEF LettersTypes, Letters!TypeOK
        <4>2. /\ mailRequests'[r] = [pc |-> "updating", email |-> e,
                                     copy |-> Letters!Restarted(rows[e], issued'),
                                     token |-> issued']
              /\ rows[e].status # "subscribed"
          BY <1>0, <1>1, <3>2 DEF Letters!StartSubscribe, Letters!Step
        <4>3. /\ Letters!Restarted(rows[e], issued').status = "pending_confirmation"
              /\ Letters!Restarted(rows[e], issued').unsub = issued'
          BY <4>1 DEF Letters!Restarted, Letters!Row
        <4> QED BY <2>3, <3>2, <4>2, <4>3
      <3> QED BY <3>1, <3>2
    <2> QED BY <1>1, <2>1, <2>4, LetterStarts DEF StoriesAgree
  <1>2. ASSUME NEW r \in Requests, NEW e \in Emails,
               Letters!StartConfirm(r, e) \/ Letters!StartUnsubscribe(r, e)
        PROVE  StoriesAgree'
    <2>1. rows[e] \in Letters!Row /\ TellsOneStory(rows[e])
      BY <1>2 DEF Letters!StartConfirm, Letters!StartUnsubscribe, LettersTypes, Letters!TypeOK,
                  StoriesAgree
    <2>2. TellsOneStory(Letters!Confirmed(rows[e])) /\ TellsOneStory(Letters!Left(rows[e]))
      BY <2>1 DEF TellsOneStory, Letters!Confirmed, Letters!Left, Letters!Row
    <2>3. Told(mailRequests'[r])
      BY <1>0, <1>2, <2>2 DEF Letters!StartConfirm, Letters!StartUnsubscribe, Letters!Step
    <2> QED BY <1>2, <2>3, LetterStarts DEF StoriesAgree
  <1>3. ASSUME NEW r \in Requests, Letters!SaveSubscription(r) \/ Letters!SaveRow(r)
        PROVE  StoriesAgree'
    <2> DEFINE q == mailRequests[r]
    <2>1. q # Letters!Idle /\ q \in Letters!Request
      BY <1>3, LetterInFlight DEF Letters!SaveSubscription, Letters!SaveRow, Letters!Idle
    <2>2. TellsOneStory(q.copy)
      BY <2>1 DEF StoriesAgree
    <2>3. rows' = rows \/ rows' = [rows EXCEPT ![q.email] = q.copy]
      BY <1>3 DEF Letters!SaveSubscription, Letters!SaveRow
    <2>4. \A e \in Emails : rows'[e] # NoRow => TellsOneStory(rows'[e])
      BY <2>2, <2>3 DEF StoriesAgree, LettersTypes, Letters!TypeOK
    <2>5. \/ Letters!Step(r, Letters!Idle)
          \/ Letters!Step(r, [q EXCEPT !.pc = "mailing"])
      BY <1>3 DEF Letters!SaveSubscription, Letters!AfterSave, Letters!SaveRow
    <2>6. \/ mailRequests'[r] = Letters!Idle
          \/ mailRequests'[r].copy = q.copy /\ mailRequests'[r].pc = "mailing"
      BY <1>0, <2>1, <2>5 DEF Letters!Step, Letters!Request
    <2>7. \A s \in Requests : s # r => mailRequests'[s] = mailRequests[s]
      BY <1>0, <2>5 DEF Letters!Step
    <2>8. \A s \in Requests : mailRequests'[s] # Letters!Idle => Told(mailRequests'[s])
      BY <2>2, <2>6, <2>7 DEF StoriesAgree
    <2> QED BY <2>4, <2>8 DEF StoriesAgree
  <1>4. ASSUME NEW r \in Requests, Letters!SendMail(r) \/ Letters!Fail(r) PROVE StoriesAgree'
    BY <1>0, <1>4 DEF Letters!SendMail, Letters!Fail, Letters!Step, StoriesAgree
  <1>5. CASE UNCHANGED mailVars
    BY <1>5 DEF StoriesAgree
  <1> QED BY <1>1, <1>2, <1>3, <1>4, <1>5 DEF Letters!Next, Letters!Continue

\* No mail is taken back, and the one a confirmation is begun from has the link.
LEMMA LinksWorkStep ==
  LettersTypes /\ StoriesAgree /\ LinksWork /\ [Letters!Next]_mailVars => LinksWork'
PROOF
  <1> SUFFICES ASSUME LettersTypes, StoriesAgree, LinksWork, [Letters!Next]_mailVars
               PROVE  LinksWork'
    OBVIOUS
  <1> USE DEF mailVars
  <1>0. mailRequests \in [Requests -> {Letters!Idle} \cup Letters!Request]
    BY DEF LettersTypes, Letters!TypeOK
  <1>1. ASSUME NEW r \in Requests, NEW e \in Emails,
               Letters!StartSubscribe(r, e) \/ Letters!StartUnsubscribe(r, e)
        PROVE  LinksWork'
    <2>1. ~(mailRequests'[r].pc = "saving" /\ mailRequests'[r].copy.status = "subscribed")
      <3>1. CASE Letters!StartSubscribe(r, e)
        BY <1>0, <3>1 DEF Letters!StartSubscribe, Letters!Step
      <3>2. CASE Letters!StartUnsubscribe(r, e)
        <4>1. rows[e] \in Letters!Row
          BY <3>2 DEF Letters!StartUnsubscribe, LettersTypes, Letters!TypeOK
        <4> QED BY <1>0, <3>2, <4>1 DEF Letters!StartUnsubscribe, Letters!Step, Letters!Left,
                  Letters!Row
      <3> QED BY <1>1, <3>1, <3>2
    <2> QED BY <1>1, <2>1, LetterStarts DEF LinksWork, Links, Letters!Received
  <1>2. ASSUME NEW r \in Requests, NEW e \in Emails, Letters!StartConfirm(r, e) PROVE LinksWork'
    <2>1. /\ rows[e] \in Letters!Row /\ TellsOneStory(rows[e])
          /\ rows[e].status = "pending_confirmation"
      BY <1>2 DEF Letters!StartConfirm, LettersTypes, Letters!TypeOK, StoriesAgree
    <2>2. PICK m \in Letters!Received(e) : m.confirm = rows[e].confirm
      BY <1>2 DEF Letters!StartConfirm
    <2>3. m.unsub = rows[e].unsub
      BY <2>1, <2>2 DEF LinksWork, TellsOneStory
    <2>4. mailRequests'[r].copy.unsub = rows[e].unsub
      BY <1>0, <1>2, <2>1 DEF Letters!StartConfirm, Letters!Step, Letters!Confirmed, Letters!Row
    <2>5. Links(e, mailRequests'[r].copy)
      BY <2>2, <2>3, <2>4 DEF Links
    <2> QED BY <1>2, <2>5, LetterStarts DEF LinksWork, Links, Letters!Received
  <1>3. ASSUME NEW r \in Requests, Letters!SaveSubscription(r) \/ Letters!SaveRow(r)
        PROVE  LinksWork'
    <2> DEFINE q == mailRequests[r]
    <2>1. q # Letters!Idle /\ q \in Letters!Request
      BY <1>3, LetterInFlight DEF Letters!SaveSubscription, Letters!SaveRow, Letters!Idle
    <2>2. rows' = rows \/ rows' = [rows EXCEPT ![q.email] = q.copy]
      BY <1>3 DEF Letters!SaveSubscription, Letters!SaveRow
    <2>3. q.copy.status = "subscribed" => Links(q.email, q.copy)
      BY <1>3, <2>1 DEF Letters!SaveSubscription, Letters!SaveRow, LinksWork, StoriesAgree
    <2>4. inbox' = inbox
      BY <1>3 DEF Letters!SaveSubscription, Letters!SaveRow
    <2>5. \A e \in Emails : rows'[e] # NoRow /\ rows'[e].status = "subscribed" => Links(e, rows'[e])
      BY <2>2, <2>3 DEF LinksWork, LettersTypes, Letters!TypeOK
    <2>6. \/ Letters!Step(r, Letters!Idle)
          \/ Letters!Step(r, [q EXCEPT !.pc = "mailing"])
      BY <1>3 DEF Letters!SaveSubscription, Letters!AfterSave, Letters!SaveRow
    <2>7. \A s \in Requests : \/ mailRequests'[s] = mailRequests[s]
                              \/ mailRequests'[s].pc # "saving"
      BY <1>0, <2>1, <2>6 DEF Letters!Step, Letters!Request, Letters!Idle
    <2>8. \A s \in Requests :
            mailRequests'[s].pc = "saving" /\ mailRequests'[s].copy.status = "subscribed" =>
              Links(mailRequests'[s].email, mailRequests'[s].copy)
      BY <2>7 DEF LinksWork
    <2> QED BY <2>4, <2>5, <2>8 DEF LinksWork, Links, Letters!Received
  <1>4. ASSUME NEW r \in Requests, Letters!SendMail(r) PROVE LinksWork'
    <2> DEFINE q == mailRequests[r]
    <2>1. q \in Letters!Request
      BY <1>4, LetterInFlight DEF Letters!SendMail
    <2>2. inbox' = [inbox EXCEPT ![q.email] = Append(inbox[q.email], Letters!MailOf(q))]
      BY <1>4 DEF Letters!SendMail
    <2>3. \A e \in Emails : inbox[e] \in Seq(Letters!Mail)
      BY DEF LettersTypes, Letters!TypeOK
    <2>4. \A e \in Emails : /\ Letters!Received(e) \subseteq Letters!Received(e)'
                            /\ Letters!Received(e)' \subseteq
                                 Letters!Received(e) \cup {Letters!MailOf(q)}
      <3> SUFFICES ASSUME NEW e \in Emails
                   PROVE  /\ Letters!Received(e) \subseteq Letters!Received(e)'
                          /\ Letters!Received(e)' \subseteq
                               Letters!Received(e) \cup {Letters!MailOf(q)}
        OBVIOUS
      <3>1. CASE e # q.email
        <4>1. inbox'[e] = inbox[e]
          BY <2>2, <3>1 DEF LettersTypes
        <4> QED BY <4>1 DEF Letters!Received, Letters!Range
      <3>2. CASE e = q.email
        <4> DEFINE old == inbox[e]
                   new == Append(old, Letters!MailOf(q))
        <4>1. inbox'[e] = new
          BY <2>2, <3>2 DEF LettersTypes
        <4>2. old \in Seq(Letters!Mail)
          BY <2>3
        <4> HIDE DEF old
        <4>3. /\ DOMAIN old = 1..Len(old) /\ DOMAIN new = 1..(Len(old) + 1)
              /\ Len(old) \in Nat
              /\ \A i \in 1..Len(old) : new[i] = old[i]
              /\ new[Len(old) + 1] = Letters!MailOf(q)
          BY <4>2
        <4>4. { old[i] : i \in DOMAIN old } \subseteq { new[i] : i \in DOMAIN new }
          BY <4>3
        <4>5. { new[i] : i \in DOMAIN new } \subseteq { old[i] : i \in DOMAIN old } \cup {Letters!MailOf(q)}
          BY <4>3
        <4> QED BY <4>1, <4>4, <4>5 DEF Letters!Received, Letters!Range, old
      <3> QED BY <3>1, <3>2
    <2>5. Letters!MailOf(q).confirm = Letters!MailOf(q).unsub
      BY DEF Letters!MailOf
    <2>6. \A e \in Emails : \A m \in Letters!Received(e)' : m.confirm = m.unsub
      BY <2>4, <2>5 DEF LinksWork
    <2>7. rows' = rows /\ mailRequests' = [mailRequests EXCEPT ![r] = Letters!Idle]
      BY <1>4 DEF Letters!SendMail, Letters!Step
    <2>8. \A e \in Emails : rows'[e] # NoRow /\ rows'[e].status = "subscribed" =>
            \E m \in Letters!Received(e)' : m.unsub = rows'[e].unsub
      BY <2>4, <2>7 DEF LinksWork, Links
    <2> DEFINE LinkOf(s) == mailRequests[s].pc = "saving" /\ mailRequests[s].copy.status = "subscribed" =>
                              Links(mailRequests[s].email, mailRequests[s].copy)
    <2>9. ASSUME NEW s \in Requests PROVE LinkOf(s)'
      <3>1. CASE mailRequests'[s].pc # "saving"
        BY <3>1
      <3>2. CASE mailRequests'[s].pc = "saving"
        <4>1. mailRequests'[s] = mailRequests[s] /\ LinkOf(s)
          BY <1>0, <2>7, <3>2 DEF Letters!Idle, LinksWork
        <4>2. mailRequests[s].email \in Emails
          BY <3>2, <4>1, LetterInFlight DEF Letters!Request
        <4> QED BY <2>4, <4>1, <4>2 DEF Links
      <3> QED BY <3>1, <3>2
    <2> QED BY <2>6, <2>8, <2>9 DEF LinksWork, Links
  <1>5. ASSUME NEW r \in Requests, Letters!Fail(r) PROVE LinksWork'
    BY <1>0, <1>5 DEF Letters!Fail, Letters!Step, Letters!Idle, LinksWork, Links, Letters!Received
  <1>6. CASE UNCHANGED mailVars
    BY <1>6 DEF LinksWork, Links, Letters!Received
  <1> QED BY <1>1, <1>2, <1>3, <1>4, <1>5, <1>6 DEF Letters!Next, Letters!Continue

\* Steps about another address leave e in order.
LEMMA OtherAddress ==
  ASSUME LettersTypes, NEW e \in CalmEmails, InOrder(e), rows'[e] = rows[e], inbox'[e] = inbox[e],
         NEW r \in Requests,
         \A s \in Requests : s # r => mailRequests'[s] = mailRequests[s],
         ~Handles(r, e), ~Handles(r, e)'
  PROVE  InOrder(e)'
PROOF
  <1>1. \A s \in Requests : Handles(s, e) \/ Handles(s, e)' =>
          s # r /\ mailRequests'[s] = mailRequests[s] /\ Handles(s, e) /\ Handles(s, e)'
    BY DEF Handles, Letters!Touches
  <1>2. \A q \in Requests, s \in Requests : Handles(q, e)' /\ Handles(s, e)' => q = s
    BY <1>1 DEF InOrder
  <1>3. \A s \in Requests : Handles(s, e)' => KnowsRow(mailRequests[s], e)'
    BY <1>1 DEF InOrder, KnowsRow
  <1>4. NewestLinks(e)'
    BY <1>1 DEF InOrder, NewestLinks
  <1> QED BY <1>2, <1>3, <1>4 DEF InOrder

\* A request about e alone with it leaves it in order when it knows the row and the newest mail
\* gives the link, unless it is the one to send it.
LEMMA SoleRequest ==
  ASSUME LettersTypes, NEW e \in CalmEmails, NEW r \in Requests,
         \A s \in Requests : s # r => mailRequests'[s] = mailRequests[s],
         \A s \in Requests : s # r => ~Handles(s, e),
         Handles(r, e)' => KnowsRow(mailRequests[r], e)',
         ~(Handles(r, e)' /\ mailRequests'[r].pc = "mailing") /\ rows'[e] # NoRow =>
           inbox'[e] # <<>> /\ Letters!Last(inbox'[e]).unsub = rows'[e].unsub
  PROVE  InOrder(e)'
PROOF
  <1>1. \A s \in Requests : Handles(s, e)' => s = r
    BY DEF Handles, Letters!Touches
  <1>2. \A q \in Requests, s \in Requests : Handles(q, e)' /\ Handles(s, e)' => q = s
    BY <1>1
  <1>3. \A s \in Requests : Handles(s, e)' => KnowsRow(mailRequests[s], e)'
    BY <1>1
  <1>4. NewestLinks(e)'
    BY <1>1 DEF NewestLinks
  <1> QED BY <1>2, <1>3, <1>4 DEF InOrder

\* Where requests neither overlap nor fail, the one in flight acts on the row as it is.
LEMMA CalmInOrderStep ==
  LettersTypes /\ StoriesAgree /\ CalmInOrder /\ [Letters!Next]_mailVars => CalmInOrder'
PROOF
  <1> SUFFICES ASSUME LettersTypes, StoriesAgree, CalmInOrder, [Letters!Next]_mailVars,
                      NEW e \in CalmEmails
               PROVE  InOrder(e)'
    BY DEF CalmInOrder
  <1> USE DEF mailVars
  <1>0. /\ mailRequests \in [Requests -> {Letters!Idle} \cup Letters!Request]
        /\ e \in Emails /\ InOrder(e)
    BY WebsiteAssumption DEF LettersTypes, Letters!TypeOK, CalmInOrder, Letters!NewsletterAssumption
  <1>1. ASSUME NEW r \in Requests, NEW d \in Emails,
               Letters!StartSubscribe(r, d) \/ Letters!StartConfirm(r, d) \/ Letters!StartUnsubscribe(r, d)
        PROVE  InOrder(e)'
    <2>1. /\ rows' = rows /\ inbox' = inbox
          /\ mailRequests[r] = Letters!Idle /\ Letters!Alone(d)
          /\ mailRequests'[r].pc # "idle" /\ mailRequests'[r].pc # "mailing"
          /\ mailRequests'[r].email = d
          /\ \A s \in Requests : s # r => mailRequests'[s] = mailRequests[s]
      BY <1>1, LetterStarts
    <2>2. CASE d # e
      BY <1>0, <2>1, <2>2, OtherAddress DEF Handles, Letters!Touches
    <2>3. CASE d = e
      <3>1. \A s \in Requests : ~Handles(s, e)
        BY <2>1, <2>3 DEF Handles, Letters!Alone
      <3>2. rows[e] # NoRow => inbox[e] # <<>> /\ Letters!Last(inbox[e]).unsub = rows[e].unsub
        BY <1>0, <3>1 DEF InOrder, NewestLinks
      <3>3. KnowsRow(mailRequests[r], e)'
        <4>1. CASE Letters!StartSubscribe(r, e)
          <5>1. \/ rows[e] = NoRow /\ mailRequests'[r].pc = "inserting"
                \/ mailRequests'[r].pc = "updating"
            BY <1>0, <4>1 DEF Letters!StartSubscribe, Letters!Step
          <5> QED BY <2>1, <5>1 DEF KnowsRow
        <4>2. CASE Letters!StartConfirm(r, e)
          <5>1. rows[e] \in Letters!Row /\ rows[e] # NoRow /\ rows[e].status = "pending_confirmation"
            BY <1>0, <4>2 DEF Letters!StartConfirm, LettersTypes, Letters!TypeOK
          <5>2. mailRequests'[r].pc = "saving" /\ mailRequests'[r].copy.unsub = rows[e].unsub
            BY <1>0, <4>2, <5>1 DEF Letters!StartConfirm, Letters!Step, Letters!Confirmed, Letters!Row
          <5> QED BY <2>1, <5>1, <5>2 DEF KnowsRow
        <4>3. CASE Letters!StartUnsubscribe(r, e)
          <5>1. rows[e] \in Letters!Row /\ rows[e] # NoRow
            BY <1>0, <4>3 DEF Letters!StartUnsubscribe, LettersTypes, Letters!TypeOK
          <5>2. /\ mailRequests'[r].pc = "saving" /\ mailRequests'[r].copy.unsub = rows[e].unsub
                /\ mailRequests'[r].copy.status = "unsubscribed"
            BY <1>0, <4>3, <5>1 DEF Letters!StartUnsubscribe, Letters!Step, Letters!Left, Letters!Row
          <5> QED BY <2>1, <5>1, <5>2 DEF KnowsRow
        <4> QED BY <1>1, <2>3, <4>1, <4>2, <4>3
      <3> QED BY <2>1, <3>1, <3>2, <3>3, SoleRequest
    <2> QED BY <2>2, <2>3
  <1>2. ASSUME NEW r \in Requests,
               Letters!SaveSubscription(r) \/ Letters!SaveRow(r) \/ Letters!SendMail(r)
        PROVE  InOrder(e)'
    <2> DEFINE q == mailRequests[r]
    <2>1. q \in Letters!Request /\ q # Letters!Idle
      BY <1>2, LetterInFlight
      DEF Letters!SaveSubscription, Letters!SaveRow, Letters!SendMail, Letters!Idle
    <2>2. \/ Letters!Step(r, Letters!Idle)
          \/ Letters!Step(r, [q EXCEPT !.pc = "mailing"])
      BY <1>2 DEF Letters!SaveSubscription, Letters!AfterSave, Letters!SaveRow, Letters!SendMail
    <2>3. /\ \A s \in Requests : s # r => mailRequests'[s] = mailRequests[s]
          /\ mailRequests'[r] \in {Letters!Idle, [q EXCEPT !.pc = "mailing"]}
      BY <1>0, <2>2 DEF Letters!Step
    <2>4. CASE q.email # e
      <3>1. rows'[e] = rows[e] /\ inbox'[e] = inbox[e]
        BY <1>0, <1>2, <2>1, <2>4 DEF Letters!SaveSubscription, Letters!SaveRow, Letters!SendMail,
           LettersTypes, Letters!TypeOK
      <3>2. ~Handles(r, e) /\ ~Handles(r, e)'
        BY <2>1, <2>3, <2>4 DEF Handles, Letters!Touches, Letters!Request
      <3> QED BY <1>0, <2>3, <3>1, <3>2, OtherAddress
    <2>5. CASE q.email = e
      <3>1. Handles(r, e)
        BY <2>1, <2>5 DEF Handles, Letters!Touches
      <3>2. (\A s \in Requests : s # r => ~Handles(s, e)) /\ KnowsRow(q, e)
        BY <1>0, <3>1 DEF InOrder
      <3>3. CASE Letters!SaveSubscription(r)
        <4>1. q.pc \in {"inserting", "updating"} /\ ~(q.pc = "inserting" /\ rows[e] # NoRow)
          BY <3>2, <3>3 DEF Letters!SaveSubscription, KnowsRow
        <4>2. /\ rows' = [rows EXCEPT ![e] = q.copy]
              /\ Letters!Step(r, [q EXCEPT !.pc = "mailing"])
          BY <2>5, <3>3, <4>1 DEF Letters!SaveSubscription, Letters!AfterSave
        <4>3. rows'[e] = q.copy
          BY <1>0, <4>2 DEF LettersTypes, Letters!TypeOK
        <4>4. mailRequests'[r].pc = "mailing" /\ mailRequests'[r].token = q.token
              /\ mailRequests'[r] # Letters!Idle /\ mailRequests'[r].email = e
          BY <1>0, <2>1, <2>5, <4>2 DEF Letters!Step, Letters!Request, Letters!Idle
        <4>5. q.copy.status = "pending_confirmation" /\ q.copy.unsub = q.token
          BY <2>1, <4>1 DEF StoriesAgree
        <4>6. Handles(r, e)' /\ KnowsRow(mailRequests[r], e)'
          BY <4>3, <4>4, <4>5 DEF Handles, Letters!Touches, KnowsRow
        <4> QED BY <2>3, <3>2, <4>4, <4>6, SoleRequest
      <3>4. CASE Letters!SaveRow(r)
        <4>1. /\ q.pc = "saving" /\ inbox' = inbox
              /\ rows' = [rows EXCEPT ![e] = q.copy]
              /\ Letters!Step(r, Letters!Idle)
          BY <2>5, <3>4 DEF Letters!SaveRow
        <4>2. rows'[e].unsub = rows[e].unsub /\ rows[e] # NoRow
          BY <1>0, <3>2, <4>1 DEF KnowsRow, LettersTypes, Letters!TypeOK
        <4>3. inbox[e] # <<>> /\ Letters!Last(inbox[e]).unsub = rows[e].unsub
          BY <1>0, <3>2, <4>1, <4>2 DEF InOrder, NewestLinks
        <4>4. ~Handles(r, e)'
          BY <1>0, <4>1 DEF Letters!Step, Handles, Letters!Touches
        <4> QED BY <2>3, <3>2, <4>1, <4>2, <4>3, <4>4, SoleRequest
      <3>5. CASE Letters!SendMail(r)
        <4>1. /\ q.pc = "mailing" /\ rows' = rows
              /\ inbox' = [inbox EXCEPT ![e] = Append(inbox[e], Letters!MailOf(q))]
              /\ Letters!Step(r, Letters!Idle)
          BY <2>5, <3>5 DEF Letters!SendMail
        <4>2. rows[e].unsub = q.token
          BY <3>2, <4>1 DEF KnowsRow
        <4>3. inbox'[e] # <<>> /\ Letters!Last(inbox'[e]).unsub = q.token
          <5> DEFINE old == inbox[e]
                     mail == Letters!MailOf(q)
          <5>1. inbox'[e] = Append(old, mail) /\ mail.unsub = q.token
            BY <1>0, <4>1 DEF LettersTypes, Letters!MailOf
          <5>2. old \in Seq(Letters!Mail)
            BY <1>0 DEF LettersTypes, Letters!TypeOK
          <5> HIDE DEF old, mail
          <5>3. /\ Append(old, mail) # <<>>
                /\ Append(old, mail)[Len(Append(old, mail))] = mail
            BY <5>2
          <5> QED BY <5>1, <5>3 DEF Letters!Last
        <4>4. ~Handles(r, e)'
          BY <1>0, <4>1 DEF Letters!Step, Handles, Letters!Touches
        <4> QED BY <2>3, <3>2, <4>1, <4>2, <4>3, <4>4, SoleRequest
      <3> QED BY <1>2, <3>3, <3>4, <3>5
    <2> QED BY <2>4, <2>5
  <1>3. ASSUME NEW r \in Requests, Letters!Fail(r) PROVE InOrder(e)'
    <2>1. /\ mailRequests[r].email \notin CalmEmails
          /\ rows' = rows /\ inbox' = inbox
          /\ mailRequests' = [mailRequests EXCEPT ![r] = Letters!Idle]
      BY <1>3 DEF Letters!Fail, Letters!Step
    <2>2. ~Handles(r, e) /\ ~Handles(r, e)'
      BY <1>0, <2>1 DEF Handles, Letters!Touches
    <2> QED BY <1>0, <2>1, <2>2, OtherAddress
  <1>4. CASE UNCHANGED mailVars
    BY <1>0, <1>4 DEF InOrder, NewestLinks, KnowsRow, Handles, Letters!Touches
  <1> QED BY <1>1, <1>2, <1>3, <1>4 DEF Letters!Next, Letters!Continue

-----------------------------------------------------------------------------
(* The newsletter: what holds *)

\* A behaviour of the website is one of the newsletter, which may rest.
LEMMA LettersStep == [Next]_vars => [Letters!Next]_mailVars
  BY DEF Next, vars, mailVars

\* Nobody is known and nothing is mailed when the program starts.
LEMMA LettersInit == Init => LettersInv
PROOF
  <1> SUFFICES ASSUME Letters!Init PROVE LettersInv
    BY DEF Init
  <1>1. LettersTypes
    BY WebsiteAssumption
    DEF Letters!NewsletterAssumption, Letters!Init, LettersTypes, Letters!TypeOK, Letters!Idle
  <1>2. StoriesAgree
    BY DEF Letters!Init, StoriesAgree
  <1>3. LinksWork
    BY DEF Letters!Init, LinksWork, Letters!Idle, Letters!Received, Letters!Range
  <1>4. CalmInOrder
    BY WebsiteAssumption DEF Letters!NewsletterAssumption, Letters!Init, CalmInOrder, InOrder,
       Handles, Letters!Touches, NewestLinks
  <1> QED BY <1>1, <1>2, <1>3, <1>4 DEF LettersInv

\* The newsletter is always in order: the inductive invariant of its properties.
THEOREM LettersInOrder == Spec => []LettersInv
PROOF
  <1>1. LettersInv /\ [Next]_vars => LettersInv'
    BY LettersStep, LettersTypesStep, StoriesAgreeStep, LinksWorkStep, CalmInOrderStep
    DEF LettersInv
  <1> QED BY LettersInit, <1>1, PTL DEF Spec

\* The stamps and the confirmation token of a subscription tell the same story as its status,
\* although confirm, unsubscribe and subscribe each save a whole row they read before.
THEOREM StampsAlwaysAgree == Spec => []StampsAgree
PROOF
  <1>1. LettersInv => StampsAgree
    BY DEF LettersInv, StoriesAgree, TellsOneStory, StampsAgree, Letters!StampsAgree
  <1> QED BY LettersInOrder, <1>1, PTL

\* Whoever is subscribed holds a mail with a link to leave, the newest one where requests neither
\* overlap nor fail.
THEOREM SubscribersCanLeave == Spec => []SubscribedCanLeave
PROOF
  <1>1. LettersInv => SubscribedCanLeave
    <2> SUFFICES ASSUME LettersInv, NEW e \in Emails, rows[e] # NoRow,
                        rows[e].status = "subscribed"
                 PROVE  /\ \E m \in Letters!Received(e) : m.unsub = rows[e].unsub
                        /\ e \in CalmEmails => Letters!Last(inbox[e]).unsub = rows[e].unsub
      BY DEF SubscribedCanLeave, Letters!SubscribedCanLeave
    <2>1. \E m \in Letters!Received(e) : m.unsub = rows[e].unsub
      BY DEF LettersInv, LinksWork, Links
    <2>2. ASSUME e \in CalmEmails PROVE Letters!Last(inbox[e]).unsub = rows[e].unsub
      BY <2>2 DEF LettersInv, CalmInOrder, InOrder, NewestLinks, KnowsRow
    <2> QED BY <2>1, <2>2
  <1> QED BY LettersInOrder, <1>1, PTL

\* Where requests neither overlap nor fail, whoever has left is not subscribed again but by a new
\* confirmation: no save of confirm brings a row from unsubscribed to subscribed.
THEOREM LeavingAlwaysSticks == Spec => LeavingSticks
PROOF
  <1> DEFINE Sticks == \A e \in CalmEmails :
        rows[e] # NoRow /\ rows[e].status = "unsubscribed" => rows'[e].status # "subscribed"
  <1>1. LettersInv /\ [Letters!Next]_mailVars => [Sticks]_(Letters!vars)
    <2> SUFFICES ASSUME LettersInv, Letters!Next, NEW e \in CalmEmails,
                        rows[e] # NoRow, rows[e].status = "unsubscribed"
                 PROVE  rows'[e].status # "subscribed"
      BY DEF mailVars, Letters!vars
    <2>0. /\ LettersTypes /\ StoriesAgree /\ InOrder(e) /\ e \in Emails
          /\ rows \in [Emails -> Letters!Row \cup {NoRow}]
      BY WebsiteAssumption DEF LettersInv, CalmInOrder, LettersTypes, Letters!TypeOK,
         Letters!NewsletterAssumption
    <2>1. PICK r \in Requests :
            \/ \E d \in Emails : \/ Letters!StartSubscribe(r, d) \/ Letters!StartConfirm(r, d)
                                 \/ Letters!StartUnsubscribe(r, d)
            \/ Letters!SaveSubscription(r) \/ Letters!SendMail(r) \/ Letters!SaveRow(r)
            \/ Letters!Fail(r)
      BY DEF Letters!Next, Letters!Continue
    <2> DEFINE q == mailRequests[r]
    <2>2. CASE rows' = rows
      BY <2>2
    <2>3. CASE Letters!SaveSubscription(r) /\ rows' # rows
      <3>1. /\ q \in Letters!Request /\ q # Letters!Idle
            /\ q.pc \in {"inserting", "updating"}
            /\ rows' = [rows EXCEPT ![q.email] = q.copy]
        BY <2>0, <2>3, LetterInFlight DEF Letters!SaveSubscription, Letters!Idle
      <3>2. q.copy.status = "pending_confirmation"
        BY <2>0, <3>1 DEF StoriesAgree
      <3> QED BY <2>0, <3>1, <3>2
    <2>4. CASE Letters!SaveRow(r)
      <3>1. /\ q \in Letters!Request /\ q # Letters!Idle /\ q.pc = "saving"
            /\ rows' = [rows EXCEPT ![q.email] = q.copy]
        BY <2>0, <2>4, LetterInFlight DEF Letters!SaveRow, Letters!Idle
      <3>2. q.email = e => q.copy.status # "subscribed"
        BY <2>0, <3>1 DEF InOrder, Handles, Letters!Touches, KnowsRow
      <3> QED BY <2>0, <3>1, <3>2
    <2> QED BY <2>1, <2>2, <2>3, <2>4
          DEF Letters!StartSubscribe, Letters!StartConfirm, Letters!StartUnsubscribe,
              Letters!SendMail, Letters!Fail
  <1>2. LeavingSticks <=> [][Sticks]_(Letters!vars)
    BY PTL DEF LeavingSticks, Letters!LeavingSticks
  <1> QED BY LettersInOrder, LettersStep, <1>1, <1>2, PTL DEF Spec

-----------------------------------------------------------------------------
(* The proposals: the inductive invariant *)

\* Requests about a version that they found.
Holding == {"saving", "removing", "counting", "unpublishing"}

\* Such a request and the version, if it is still there, are about one proposal, and a
\* version is never of one proposal for one request and of another for the next.
VersionsStay ==
  /\ \A r \in Requests : LET q == offerRequests[r] IN
       /\ q.pc \in Holding /\ versions[q.version] # NoRow =>
            versions[q.version].proposal = q.proposal
       /\ q.pc = "saving" => q.copy.proposal = q.proposal
  /\ \A r, s \in Requests : LET q == offerRequests[r] t == offerRequests[s] IN
       q.pc \in Holding /\ t.pc \in Holding /\ q.version = t.version => q.proposal = t.proposal

Concerns(r, p) == Offering!Touches(offerRequests[r], p)

\* One request at a time about a calm proposal, and what a mail is about to offer is there.
Stands(p) ==
  /\ \A r, s \in Requests : Concerns(r, p) /\ Concerns(s, p) => r = s
  /\ \A r \in Requests : offerRequests[r].pc = "sending" /\ offerRequests[r].proposal = p =>
       Offering!IsPublished(p) /\ Offering!VersionsOf(p) # {}

CalmOffersStand == \A p \in CalmOffers : Stands(p)

OffersInv == Offering!TypeOK /\ VersionsStay /\ CalmOffersStand

-----------------------------------------------------------------------------
(* The proposals: every step keeps the invariant *)

\* The next order index is one more than those there are.
LEMMA NextOrderType ==
  ASSUME Offering!TypeOK, NEW p \in Offers,
         Offering!NextOrder(Offering!Orders(p)) <= MaxOrder
  PROVE  Offering!NextOrder(Offering!Orders(p)) \in 0..MaxOrder
PROOF
  <1> DEFINE S == Offering!Orders(p)
  <1>0. MaxOrder \in Nat
    BY WebsiteAssumption DEF Offering!ProposalsAssumption
  <1>1. S \in SUBSET (0..MaxOrder)
    <2> SUFFICES ASSUME NEW v \in Versions, versions[v] # NoRow PROVE versions[v].order \in 0..MaxOrder
      BY DEF Offering!Orders, Offering!VersionsOf
    <2> QED BY DEF Offering!TypeOK, Offering!Version
  <1>2. CASE S = {}
    BY <1>0, <1>2 DEF Offering!NextOrder
  <1>3. CASE S # {}
    <2>1. \E m \in S : \A n \in S : n <= m
      <3>1. S \in SUBSET Nat /\ \A n \in S : n <= MaxOrder
        BY <1>0, <1>1
      <3> HIDE DEF S
      <3> QED BY <1>0, <1>3, <3>1, HasGreatest
    <2>2. Offering!Max(S) \in S
      <3>1. \E m \in S : \A n \in S : m >= n
        BY <1>0, <1>1, <2>1
      <3> HIDE DEF S
      <3> QED BY <3>1 DEF Offering!Max
    <2> QED BY <1>0, <1>1, <1>3, <2>2 DEF Offering!NextOrder
  <1> QED BY <1>2, <1>3

\* A request in flight is one of its kind.
LEMMA OfferInFlight ==
  ASSUME Offering!TypeOK, NEW r \in Requests, offerRequests[r].pc # "idle"
  PROVE  /\ offerRequests[r] \in Offering!Request
         /\ offerRequests[r] # Offering!Idle
         /\ offerRequests[r].proposal \in Offers
         /\ offerRequests[r].pc \in Holding => offerRequests[r].version \in Versions
         /\ offerRequests[r].pc = "saving" => offerRequests[r].copy \in Offering!Version
         /\ offerRequests[r].pc = "adding" => offerRequests[r].order \in 0..MaxOrder
PROOF
  <1>1. offerRequests[r] \in Offering!Request /\ offerRequests[r] # Offering!Idle
    BY DEF Offering!TypeOK, Offering!Idle
  <1> QED BY <1>1 DEF Offering!Request, Holding

\* A step of a request leaves the others and, given one of the kind, keeps their types.
LEMMA OfferStep ==
  ASSUME Offering!TypeOK, NEW r \in Requests, NEW q, Offering!Step(r, q)
  PROVE  /\ offerRequests'[r] = q
         /\ \A s \in Requests : s # r => offerRequests'[s] = offerRequests[s]
         /\ q \in {Offering!Idle} \cup Offering!Request =>
              offerRequests' \in [Requests -> {Offering!Idle} \cup Offering!Request]
  BY DEF Offering!TypeOK, Offering!Step

\* A request about p begins.
OfferBegins(r, p) ==
  \/ Offering!StartUpdate(r, p) \/ Offering!StartSend(r, p) \/ Offering!StartAddVersion(r, p)
  \/ \E v \in Versions : /\ versions[v] # NoRow /\ versions[v].proposal = p
                         /\ Offering!StartUpdateVersion(r, v) \/ Offering!StartRemoveVersion(r, v)

\* What it has found and leaves.
OfferBegun(r, p) ==
  /\ UNCHANGED <<proposals, versions>>
  /\ offerRequests[r] = Offering!Idle /\ proposals[p] # NoRow /\ Offering!Alone(p)
  /\ offerRequests' \in [Requests -> {Offering!Idle} \cup Offering!Request]
  /\ \A s \in Requests : s # r => offerRequests'[s] = offerRequests[s]
  /\ offerRequests'[r].proposal = p /\ offerRequests'[r] # Offering!Idle
  /\ offerRequests'[r].pc = "sending" => Offering!IsSendable(p)
  /\ offerRequests'[r].pc \in Holding =>
       /\ versions[offerRequests'[r].version] # NoRow
       /\ versions[offerRequests'[r].version].proposal = p
  /\ offerRequests'[r].pc = "saving" => offerRequests'[r].copy.proposal = p

\* Whatever request begins, what it has found is what it wrote down.
LEMMA OfferStarts ==
  ASSUME Offering!TypeOK, NEW r \in Requests, NEW p \in Offers, OfferBegins(r, p)
  PROVE  OfferBegun(r, p)
PROOF
  <1>0. MaxOrder \in Nat
    BY WebsiteAssumption DEF Offering!ProposalsAssumption
  <1>1. CASE Offering!StartUpdate(r, p)
    <2>1. PICK status \in {"published", "unpublished", "kept"}, recipient \in BOOLEAN :
            Offering!Step(r, [pc |-> "updating", proposal |-> p,
                              change |-> [status |-> status, recipient |-> recipient]])
      BY <1>1 DEF Offering!StartUpdate
    <2> DEFINE q == [pc |-> "updating", proposal |-> p,
                     change |-> [status |-> status, recipient |-> recipient]]
    <2>2. q \in Offering!Request /\ q # Offering!Idle
      BY DEF Offering!Request, Offering!Idle
    <2> QED BY <1>1, <2>1, <2>2, OfferStep
        DEF OfferBegun, Offering!StartUpdate, Offering!Reads, Holding
  <1>2. CASE Offering!StartSend(r, p)
    <2> DEFINE q == [pc |-> "sending", proposal |-> p]
    <2>1. q \in Offering!Request /\ q # Offering!Idle
      BY DEF Offering!Request, Offering!Idle
    <2> QED BY <1>2, <2>1, OfferStep
        DEF OfferBegun, Offering!StartSend, Offering!Reads, Holding
  <1>3. CASE Offering!StartAddVersion(r, p)
    <2>1. PICK order \in 0..MaxOrder :
            Offering!Step(r, [pc |-> "adding", proposal |-> p, order |-> order])
      BY <1>3, NextOrderType DEF Offering!StartAddVersion
    <2> DEFINE q == [pc |-> "adding", proposal |-> p, order |-> order]
    <2>2. q \in Offering!Request /\ q # Offering!Idle
      BY DEF Offering!Request, Offering!Idle
    <2> QED BY <1>3, <2>1, <2>2, OfferStep
        DEF OfferBegun, Offering!StartAddVersion, Offering!Reads, Holding
  <1>4. CASE \E v \in Versions : /\ versions[v] # NoRow /\ versions[v].proposal = p
                                 /\ Offering!StartUpdateVersion(r, v)
    <2>1. PICK v \in Versions, order \in 0..MaxOrder :
            /\ versions[v] # NoRow /\ versions[v].proposal = p
            /\ Offering!Reads(r, p) /\ UNCHANGED <<proposals, versions>>
            /\ Offering!Step(r, [pc |-> "saving", proposal |-> p, version |-> v,
                                 copy |-> [versions[v] EXCEPT !.order = order]])
      BY <1>4 DEF Offering!StartUpdateVersion
    <2> DEFINE copy == [versions[v] EXCEPT !.order = order]
               q == [pc |-> "saving", proposal |-> p, version |-> v, copy |-> copy]
    <2>2. copy \in Offering!Version /\ copy.proposal = p
      BY <2>1 DEF Offering!TypeOK, Offering!Version
    <2> HIDE DEF copy
    <2>3. q \in Offering!Request /\ q # Offering!Idle
      BY <2>2 DEF Offering!Request, Offering!Idle
    <2>4. Offering!Step(r, q)
      BY <2>1 DEF copy
    <2> QED BY <2>1, <2>2, <2>3, <2>4, OfferStep DEF OfferBegun, Offering!Reads
  <1>5. CASE \E v \in Versions : /\ versions[v] # NoRow /\ versions[v].proposal = p
                                 /\ Offering!StartRemoveVersion(r, v)
    <2>1. PICK v \in Versions :
            /\ versions[v] # NoRow /\ versions[v].proposal = p
            /\ Offering!Reads(r, p) /\ UNCHANGED <<proposals, versions>>
            /\ Offering!Step(r, [pc |-> "removing", proposal |-> p, version |-> v,
                                 published |-> proposals[p].status = "published"])
      BY <1>5 DEF Offering!StartRemoveVersion
    <2> DEFINE q == [pc |-> "removing", proposal |-> p, version |-> v,
                     published |-> proposals[p].status = "published"]
    <2>2. q \in Offering!Request /\ q # Offering!Idle
      BY DEF Offering!Request, Offering!Idle
    <2> QED BY <2>1, <2>2, OfferStep DEF OfferBegun, Offering!Reads
  <1>6. \/ Offering!StartUpdate(r, p) \/ Offering!StartSend(r, p) \/ Offering!StartAddVersion(r, p)
        \/ \E v \in Versions : /\ versions[v] # NoRow /\ versions[v].proposal = p
                               /\ Offering!StartUpdateVersion(r, v)
        \/ \E v \in Versions : /\ versions[v] # NoRow /\ versions[v].proposal = p
                               /\ Offering!StartRemoveVersion(r, v)
    BY DEF OfferBegins
  <1> QED BY <1>1, <1>2, <1>3, <1>4, <1>5, <1>6

\* The ways a step of the proposals goes.
LEMMA OfferSteps ==
  ASSUME Offering!TypeOK, Offering!Next
  PROVE  \/ \E p \in Offers : Offering!Create(p) \/ Offering!Remove(p)
         \/ \E r \in Requests :
              \/ \E p \in Offers : OfferBegins(r, p)
              \/ Offering!CommitUpdate(r) \/ Offering!Send(r)
              \/ Offering!AddVersion(r) \/ Offering!SaveVersion(r)
              \/ Offering!DeleteVersion(r) \/ Offering!CountVersions(r) \/ Offering!Unpublish(r)
PROOF
  <1>1. ASSUME NEW r \in Requests, NEW v \in Versions,
               Offering!StartUpdateVersion(r, v) \/ Offering!StartRemoveVersion(r, v)
        PROVE  \E p \in Offers : OfferBegins(r, p)
    <2>1. versions[v] # NoRow /\ versions[v].proposal \in Offers
      BY <1>1 DEF Offering!StartUpdateVersion, Offering!StartRemoveVersion, Offering!TypeOK,
         Offering!Version
    <2> QED BY <1>1, <2>1 DEF OfferBegins
  <1>2. ASSUME NEW r \in Requests, NEW p \in Offers,
               Offering!StartUpdate(r, p) \/ Offering!StartSend(r, p) \/ Offering!StartAddVersion(r, p)
        PROVE  OfferBegins(r, p)
    BY <1>2 DEF OfferBegins
  <1> QED BY <1>1, <1>2 DEF Offering!Next, Offering!Continue

\* Columns keep their types and a version its proposal, which the foreign key keeps.
LEMMA OffersTypeStep == Offering!TypeOK /\ [Offering!Next]_offerVars => Offering!TypeOK'
PROOF
  <1> SUFFICES ASSUME Offering!TypeOK, [Offering!Next]_offerVars PROVE Offering!TypeOK'
    OBVIOUS
  <1> USE DEF offerVars
  <1>0. /\ MaxOrder \in Nat /\ NoRow \notin Offering!Proposal
        /\ Offering!Idle \in {Offering!Idle} \cup Offering!Request
    BY WebsiteAssumption DEF Offering!ProposalsAssumption
  <1>1. ASSUME NEW p \in Offers, Offering!Create(p) PROVE Offering!TypeOK'
    <2>1. PICK recipient \in BOOLEAN :
            proposals' = [proposals EXCEPT ![p] = [status |-> "unpublished", recipient |-> recipient]]
      BY <1>1 DEF Offering!Create
    <2>2. [status |-> "unpublished", recipient |-> recipient] \in Offering!Proposal
      BY DEF Offering!Proposal
    <2>3. proposals[p] = NoRow /\ UNCHANGED <<versions, offerRequests>>
      BY <1>1 DEF Offering!Create
    <2> QED BY <2>1, <2>2, <2>3 DEF Offering!TypeOK, Offering!Version
  <1>2. ASSUME NEW p \in Offers, Offering!Remove(p) PROVE Offering!TypeOK'
    BY <1>2 DEF Offering!Remove, Offering!VersionsOf, Offering!TypeOK, Offering!Version
  <1>3. ASSUME NEW r \in Requests, NEW p \in Offers, OfferBegins(r, p) PROVE Offering!TypeOK'
    BY <1>3, OfferStarts DEF OfferBegun, Offering!TypeOK
  <1>4. ASSUME NEW r \in Requests, Offering!CommitUpdate(r) PROVE Offering!TypeOK'
    <2> DEFINE q == offerRequests[r]
    <2>1. /\ q.proposal \in Offers
          /\ q.change \in [status : {"published", "unpublished", "kept"}, recipient : BOOLEAN]
      BY <1>4, OfferInFlight DEF Offering!CommitUpdate, Offering!Request
    <2>2. proposals[q.proposal] # NoRow =>
            Offering!Changed(proposals[q.proposal], q.change) \in Offering!Proposal
      BY <2>1 DEF Offering!Changed, Offering!Proposal, Offering!TypeOK
    <2>3. /\ proposals' \in [Offers -> Offering!Proposal \cup {NoRow}]
          /\ \A d \in Offers : proposals[d] # NoRow => proposals'[d] # NoRow
      BY <1>0, <1>4, <2>1, <2>2 DEF Offering!CommitUpdate, Offering!TypeOK
    <2>4. versions' = versions /\ Offering!Step(r, Offering!Idle)
      BY <1>4 DEF Offering!CommitUpdate
    <2> QED BY <1>0, <2>3, <2>4, OfferStep DEF Offering!TypeOK, Offering!Version
  <1>5. ASSUME NEW r \in Requests, Offering!Send(r) PROVE Offering!TypeOK'
    BY <1>0, <1>5, OfferStep DEF Offering!Send, Offering!TypeOK
  <1>6. ASSUME NEW r \in Requests, Offering!AddVersion(r) PROVE Offering!TypeOK'
    <2> DEFINE row == [proposal |-> offerRequests[r].proposal, order |-> offerRequests[r].order]
    <2>1. row \in Offering!Version
      BY <1>6, OfferInFlight DEF Offering!AddVersion, Offering!Version
    <2>2. PICK v \in Versions :
            versions' = IF Offering!CanSave(v, row) THEN [versions EXCEPT ![v] = row] ELSE versions
      BY <1>6 DEF Offering!AddVersion
    <2>3. proposals' = proposals /\ Offering!Step(r, Offering!Idle)
      BY <1>6 DEF Offering!AddVersion
    <2> HIDE DEF row
    <2>4. versions' \in [Versions -> Offering!Version \cup {NoRow}]
      BY <2>1, <2>2 DEF Offering!TypeOK
    <2>5. \A w \in Versions : versions'[w] # NoRow => proposals[versions'[w].proposal] # NoRow
      BY <2>1, <2>2 DEF Offering!TypeOK, Offering!CanSave
    <2> QED BY <1>0, <2>3, <2>4, <2>5, OfferStep DEF Offering!TypeOK
  <1>7. ASSUME NEW r \in Requests, Offering!SaveVersion(r) PROVE Offering!TypeOK'
    <2> DEFINE q == offerRequests[r]
    <2>1. q.version \in Versions /\ q.copy \in Offering!Version
      BY <1>7, OfferInFlight DEF Offering!SaveVersion, Holding
    <2>2. versions' = IF Offering!CanSave(q.version, q.copy)
                      THEN [versions EXCEPT ![q.version] = q.copy] ELSE versions
      BY <1>7 DEF Offering!SaveVersion
    <2>3. proposals' = proposals /\ Offering!Step(r, Offering!Idle)
      BY <1>7 DEF Offering!SaveVersion
    <2>4. versions' \in [Versions -> Offering!Version \cup {NoRow}]
      BY <2>1, <2>2 DEF Offering!TypeOK
    <2>5. \A w \in Versions : versions'[w] # NoRow => proposals[versions'[w].proposal] # NoRow
      BY <2>1, <2>2 DEF Offering!TypeOK, Offering!CanSave
    <2> QED BY <1>0, <2>3, <2>4, <2>5, OfferStep DEF Offering!TypeOK
  <1>8. ASSUME NEW r \in Requests, Offering!DeleteVersion(r) \/ Offering!CountVersions(r)
        PROVE  Offering!TypeOK'
    <2> DEFINE q == offerRequests[r]
    <2>1. q \in Offering!Request /\ q.pc \in {"removing", "counting"}
      BY <1>8, OfferInFlight DEF Offering!DeleteVersion, Offering!CountVersions
    <2>2. [q EXCEPT !.pc = "counting"] \in Offering!Request /\ [q EXCEPT !.pc = "unpublishing"] \in Offering!Request
      BY <2>1 DEF Offering!Request
    <2>3. PICK p \in {Offering!Idle, [q EXCEPT !.pc = "counting"], [q EXCEPT !.pc = "unpublishing"]} :
            Offering!Step(r, p)
      BY <1>8 DEF Offering!DeleteVersion, Offering!CountVersions
    <2>4. /\ proposals' = proposals
          /\ versions' = versions \/ versions' = [versions EXCEPT ![q.version] = NoRow]
      BY <1>8 DEF Offering!DeleteVersion, Offering!CountVersions
    <2>5. /\ versions' \in [Versions -> Offering!Version \cup {NoRow}]
          /\ \A w \in Versions : versions'[w] # NoRow => proposals'[versions'[w].proposal] # NoRow
      BY <2>4 DEF Offering!TypeOK
    <2>6. p \in {Offering!Idle} \cup Offering!Request
      BY <2>2
    <2> QED BY <2>3, <2>4, <2>5, <2>6, OfferStep DEF Offering!TypeOK
  <1>9. ASSUME NEW r \in Requests, Offering!Unpublish(r) PROVE Offering!TypeOK'
    <2> DEFINE p == offerRequests[r].proposal
    <2>1. p \in Offers
      BY <1>9, OfferInFlight DEF Offering!Unpublish
    <2>2. proposals[p] # NoRow => [proposals[p] EXCEPT !.status = "unpublished"] \in Offering!Proposal
      BY <2>1 DEF Offering!Proposal, Offering!TypeOK
    <2>3. proposals' = IF proposals[p] = NoRow THEN proposals
                       ELSE [proposals EXCEPT ![p] = [proposals[p] EXCEPT !.status = "unpublished"]]
      BY <1>9 DEF Offering!Unpublish
    <2>4. /\ proposals' \in [Offers -> Offering!Proposal \cup {NoRow}]
          /\ \A d \in Offers : proposals[d] # NoRow => proposals'[d] # NoRow
      BY <1>0, <2>1, <2>2, <2>3 DEF Offering!TypeOK
    <2>5. versions' = versions /\ Offering!Step(r, Offering!Idle)
      BY <1>9 DEF Offering!Unpublish
    <2> QED BY <1>0, <2>4, <2>5, OfferStep DEF Offering!TypeOK, Offering!Version
  <1>10. CASE UNCHANGED offerVars
    BY <1>10 DEF Offering!TypeOK
  <1> QED BY <1>1, <1>2, <1>3, <1>4, <1>5, <1>6, <1>7, <1>8, <1>9, <1>10, OfferSteps

\* A version a request has found is not given to another proposal meanwhile.
LEMMA VersionsStayStep ==
  Offering!TypeOK /\ VersionsStay /\ [Offering!Next]_offerVars => VersionsStay'
PROOF
  <1> SUFFICES ASSUME Offering!TypeOK, VersionsStay, [Offering!Next]_offerVars PROVE VersionsStay'
    OBVIOUS
  <1> USE DEF offerVars
  <1> DEFINE Held(r) == offerRequests[r].pc \in Holding
             OneProposal(r) == LET q == offerRequests[r] IN
               /\ q.pc \in Holding /\ versions[q.version] # NoRow =>
                    versions[q.version].proposal = q.proposal
               /\ q.pc = "saving" => q.copy.proposal = q.proposal
             Agree(r, s) == LET q == offerRequests[r] t == offerRequests[s] IN
               q.pc \in Holding /\ t.pc \in Holding /\ q.version = t.version => q.proposal = t.proposal
  <1>0. /\ \A r, s \in Requests : OneProposal(r) /\ Agree(r, s)
        /\ \A r \in Requests : Held(r) => offerRequests[r].version \in Versions
    BY OfferInFlight DEF VersionsStay, Holding
  <1>1. ASSUME NEW p \in Offers, Offering!Create(p) PROVE VersionsStay'
    BY <1>1 DEF Offering!Create, VersionsStay
  <1>2. ASSUME NEW p \in Offers, Offering!Remove(p) PROVE VersionsStay'
    BY <1>0, <1>2 DEF Offering!Remove, VersionsStay
  <1>3. ASSUME NEW r \in Requests, NEW p \in Offers, OfferBegins(r, p) PROVE VersionsStay'
    <2>1. OfferBegun(r, p)
      BY <1>3, OfferStarts
    <2>2. versions' = versions /\ \A s \in Requests : s # r => offerRequests'[s] = offerRequests[s]
      BY <2>1 DEF OfferBegun
    <2>3. \A s \in Requests : OneProposal(s)'
      BY <1>0, <2>1, <2>2 DEF OfferBegun
    <2>4. \A s \in Requests : s # r => Agree(r, s)' /\ Agree(s, r)'
      BY <1>0, <2>1, <2>2 DEF OfferBegun
    <2>5. \A s, t \in Requests : Agree(s, t)'
      BY <1>0, <2>2, <2>4
    <2> QED BY <2>3, <2>5 DEF VersionsStay
  <1>4. ASSUME NEW r \in Requests,
               \/ Offering!CommitUpdate(r) \/ Offering!Send(r) \/ Offering!CountVersions(r)
               \/ Offering!Unpublish(r) \/ Offering!DeleteVersion(r)
        PROVE  VersionsStay'
    <2> DEFINE q == offerRequests[r]
    <2>1. PICK next \in {Offering!Idle, [q EXCEPT !.pc = "counting"], [q EXCEPT !.pc = "unpublishing"]} :
            Offering!Step(r, next)
      BY <1>4 DEF Offering!CommitUpdate, Offering!Send, Offering!CountVersions, Offering!Unpublish,
         Offering!DeleteVersion
    <2>2. next # Offering!Idle => q.pc \in {"removing", "counting"}
      BY <1>4, <2>1, OfferStep DEF Offering!CommitUpdate, Offering!Send, Offering!CountVersions,
         Offering!Unpublish, Offering!DeleteVersion
    <2>3. offerRequests'[r] = next /\ \A s \in Requests : s # r => offerRequests'[s] = offerRequests[s]
      BY <2>1, OfferStep
    <2>4. next # Offering!Idle => /\ next.version = q.version /\ next.proposal = q.proposal
                                  /\ next.pc # "saving" /\ q.pc \in Holding
      <3>1. ASSUME next # Offering!Idle PROVE q \in Offering!Request
        BY <2>2, <3>1, OfferInFlight
      <3> QED BY <2>1, <2>2, <3>1 DEF Offering!Request, Holding
    <2>5. next = Offering!Idle => next.pc \notin Holding
      BY DEF Offering!Idle, Holding
    <2>6. \/ versions' = versions
          \/ q.version \in Versions /\ versions' = [versions EXCEPT ![q.version] = NoRow]
      BY <1>4, OfferInFlight DEF Offering!CommitUpdate, Offering!Send, Offering!CountVersions,
         Offering!Unpublish, Offering!DeleteVersion, Holding
    <2>7. \A v \in Versions : versions'[v] # NoRow => versions'[v] = versions[v]
      BY <2>6 DEF Offering!TypeOK
    <2>8. \A s \in Requests : OneProposal(s)'
      BY <1>0, <2>3, <2>4, <2>5, <2>7 DEF Holding
    <2>9. \A s, t \in Requests : Agree(s, t)'
      BY <1>0, <2>3, <2>4, <2>5
    <2> QED BY <2>8, <2>9 DEF VersionsStay
  <1>5. ASSUME NEW r \in Requests, Offering!AddVersion(r) PROVE VersionsStay'
    <2>1. PICK v \in Versions :
            /\ versions[v] = NoRow
            /\ \A s \in Requests : Held(s) => offerRequests[s].version # v
            /\ \A w \in Versions : w # v => versions'[w] = versions[w]
      BY <1>5 DEF Offering!AddVersion, Offering!TypeOK, Holding
    <2>2. offerRequests'[r] = Offering!Idle /\ \A s \in Requests : s # r => offerRequests'[s] = offerRequests[s]
      BY <1>5, OfferStep DEF Offering!AddVersion
    <2>3. \A s \in Requests : OneProposal(s)' 
      BY <1>0, <2>1, <2>2 DEF Offering!Idle, Holding
    <2>4. \A s, t \in Requests : Agree(s, t)'
      BY <1>0, <2>2 DEF Offering!Idle, Holding
    <2> QED BY <2>3, <2>4 DEF VersionsStay
  <1>6. ASSUME NEW r \in Requests, Offering!SaveVersion(r) PROVE VersionsStay'
    <2> DEFINE q == offerRequests[r]
    <2>1. /\ q.pc = "saving" /\ q.version \in Versions /\ q.copy.proposal = q.proposal
          /\ versions' = versions \/ versions' = [versions EXCEPT ![q.version] = q.copy]
      BY <1>0, <1>6, OfferInFlight DEF Offering!SaveVersion, Holding
    <2>2. offerRequests'[r] = Offering!Idle /\ \A s \in Requests : s # r => offerRequests'[s] = offerRequests[s]
      BY <1>6, OfferStep DEF Offering!SaveVersion
    <2>3. \A w \in Versions : versions'[w] # versions[w] =>
            w = q.version /\ versions'[w].proposal = q.proposal
      BY <2>1 DEF Offering!TypeOK
    <2>4. \A s \in Requests : OneProposal(s)' 
      BY <1>0, <2>1, <2>2, <2>3 DEF Offering!Idle, Holding
    <2>5. \A s, t \in Requests : Agree(s, t)'
      BY <1>0, <2>2 DEF Offering!Idle, Holding
    <2> QED BY <2>4, <2>5 DEF VersionsStay
  <1>7. CASE UNCHANGED offerVars
    BY <1>7 DEF VersionsStay
  <1> QED BY <1>1, <1>2, <1>3, <1>4, <1>5, <1>6, <1>7, OfferSteps

\* Steps about another proposal leave p as it is.
LEMMA OtherProposal ==
  ASSUME NEW p \in CalmOffers, Stands(p), NEW r \in Requests,
         \A s \in Requests : s # r => offerRequests'[s] = offerRequests[s],
         ~Concerns(r, p), ~Concerns(r, p)',
         proposals'[p] = proposals[p], Offering!VersionsOf(p)' = Offering!VersionsOf(p)
  PROVE  Stands(p)'
PROOF
  <1>1. \A s \in Requests : Concerns(s, p)' => s # r /\ Concerns(s, p) /\ offerRequests'[s] = offerRequests[s]
    BY DEF Concerns, Offering!Touches
  <1>2. \A s \in Requests : offerRequests'[s].pc = "sending" /\ offerRequests'[s].proposal = p =>
          Concerns(s, p)'
    BY DEF Concerns, Offering!Touches, Offering!Idle
  <1>3. \A q \in Requests, s \in Requests : Concerns(q, p)' /\ Concerns(s, p)' => q = s
    BY <1>1 DEF Stands
  <1>4. \A s \in Requests : offerRequests'[s].pc = "sending" /\ offerRequests'[s].proposal = p =>
          Offering!IsPublished(p) /\ Offering!VersionsOf(p) # {}
    BY <1>1, <1>2 DEF Stands
  <1> QED BY <1>3, <1>4 DEF Stands, Offering!IsPublished

\* The only request about p leaves nobody sending.
LEMMA SoleOffer ==
  ASSUME NEW p \in CalmOffers, Stands(p), NEW r \in Requests,
         \A s \in Requests : s # r => offerRequests'[s] = offerRequests[s],
         \A s \in Requests : s # r => ~Concerns(s, p),
         offerRequests'[r].pc = "sending" => Offering!IsPublished(p)' /\ Offering!VersionsOf(p)' # {}
  PROVE  Stands(p)'
PROOF
  <1>1. \A s \in Requests : Concerns(s, p)' => s = r
    BY DEF Concerns, Offering!Touches
  <1>2. \A s \in Requests : offerRequests'[s].pc = "sending" /\ offerRequests'[s].proposal = p =>
          Concerns(s, p)'
    BY DEF Concerns, Offering!Touches, Offering!Idle
  <1>3. \A q \in Requests, s \in Requests : Concerns(q, p)' /\ Concerns(s, p)' => q = s
    BY <1>1
  <1>4. \A s \in Requests : offerRequests'[s].pc = "sending" /\ offerRequests'[s].proposal = p =>
          Offering!IsPublished(p)' /\ Offering!VersionsOf(p)' # {}
    BY <1>1, <1>2
  <1> QED BY <1>3, <1>4 DEF Stands

\* The versions of other proposals are none of a request's business.
LEMMA OtherVersions ==
  ASSUME Offering!TypeOK, VersionsStay, NEW r \in Requests, NEW p \in CalmOffers,
         offerRequests[r].proposal # p,
         \/ Offering!AddVersion(r) \/ Offering!SaveVersion(r) \/ Offering!DeleteVersion(r)
  PROVE  Offering!VersionsOf(p)' = Offering!VersionsOf(p)
PROOF
  <1> DEFINE q == offerRequests[r]
  <1>1. CASE Offering!AddVersion(r)
    <2>1. PICK v \in Versions :
            /\ versions[v] = NoRow
            /\ \/ versions' = versions
               \/ versions' = [versions EXCEPT ![v] = [proposal |-> q.proposal, order |-> q.order]]
      BY <1>1 DEF Offering!AddVersion
    <2>2. \A w \in Versions : versions'[w] # versions[w] =>
            versions[w] = NoRow /\ versions'[w].proposal # p
      BY <2>1 DEF Offering!TypeOK
    <2> QED BY <2>2 DEF Offering!VersionsOf
  <1>2. CASE Offering!SaveVersion(r)
    <2>1. /\ q.pc = "saving" /\ q.version \in Versions
          /\ versions' = versions \/ versions' = [versions EXCEPT ![q.version] = q.copy]
      BY <1>2, OfferInFlight DEF Offering!SaveVersion, Holding
    <2>2. /\ q.copy.proposal # p
          /\ versions[q.version] # NoRow => versions[q.version].proposal # p
      BY <2>1 DEF VersionsStay, Holding
    <2>3. \A w \in Versions : versions'[w] # versions[w] =>
            /\ versions[w] # NoRow => versions[w].proposal # p
            /\ versions'[w].proposal # p
      BY <2>1, <2>2 DEF Offering!TypeOK
    <2> QED BY <2>3 DEF Offering!VersionsOf
  <1>3. CASE Offering!DeleteVersion(r)
    <2>1. /\ q.pc = "removing" /\ q.version \in Versions
          /\ versions' = [versions EXCEPT ![q.version] = NoRow]
      BY <1>3, OfferInFlight DEF Offering!DeleteVersion, Holding
    <2>2. versions[q.version] # NoRow => versions[q.version].proposal # p
      BY <2>1 DEF VersionsStay, Holding
    <2>3. \A w \in Versions : versions'[w] # versions[w] =>
            /\ versions[w] # NoRow => versions[w].proposal # p
            /\ versions'[w] = NoRow
      BY <2>1, <2>2 DEF Offering!TypeOK
    <2> QED BY <2>3 DEF Offering!VersionsOf
  <1> QED BY <1>1, <1>2, <1>3

\* What is about to be mailed about a calm proposal stays on offer until it is.
LEMMA CalmOffersStep ==
  Offering!TypeOK /\ VersionsStay /\ CalmOffersStand /\ [Offering!Next]_offerVars => CalmOffersStand'
PROOF
  <1> SUFFICES ASSUME Offering!TypeOK, VersionsStay, CalmOffersStand, [Offering!Next]_offerVars,
                      NEW p \in CalmOffers
               PROVE  Stands(p)'
    BY DEF CalmOffersStand
  <1> USE DEF offerVars
  <1>0. Stands(p) /\ p \in Offers
    BY WebsiteAssumption DEF CalmOffersStand, Offering!ProposalsAssumption
  <1>1. ASSUME NEW d \in Offers, Offering!Create(d) \/ Offering!Remove(d) PROVE Stands(p)'
    <2>1. offerRequests' = offerRequests
      BY <1>1 DEF Offering!Create, Offering!Remove
    <2>2. CASE d = p
      <3>1. \A r \in Requests : ~Concerns(r, p)
        BY <1>1, <2>2 DEF Offering!Create, Offering!Remove, Offering!Alone, Concerns
      <3>2. \A r \in Requests : ~Concerns(r, p)' /\ ~(offerRequests'[r].pc = "sending" /\ offerRequests'[r].proposal = p)
        BY <2>1, <3>1 DEF Concerns, Offering!Touches, Offering!Idle
      <3> QED BY <3>2 DEF Stands
    <2>3. CASE d # p
      <3>1. proposals'[p] = proposals[p]
        BY <1>0, <1>1, <2>3 DEF Offering!Create, Offering!Remove, Offering!TypeOK
      <3>2. Offering!VersionsOf(p)' = Offering!VersionsOf(p)
        BY <1>1, <2>3 DEF Offering!Create, Offering!Remove, Offering!VersionsOf
      <3> QED BY <1>0, <2>1, <3>1, <3>2 DEF Stands, Offering!IsPublished, Concerns, Offering!Touches
    <2> QED BY <2>2, <2>3
  <1>2. ASSUME NEW r \in Requests, NEW d \in Offers, OfferBegins(r, d) PROVE Stands(p)'
    <2>1. OfferBegun(r, d)
      BY <1>2, OfferStarts
    <2>2. Offering!VersionsOf(p)' = Offering!VersionsOf(p) /\ proposals' = proposals
      BY <2>1 DEF OfferBegun, Offering!VersionsOf
    <2>3. CASE d = p
      <3>1. \A s \in Requests : s # r => ~Concerns(s, p) /\ offerRequests'[s] = offerRequests[s]
        BY <2>1, <2>3 DEF OfferBegun, Offering!Alone, Concerns
      <3>2. offerRequests'[r].pc = "sending" => Offering!IsPublished(p)' /\ Offering!VersionsOf(p)' # {}
        BY <2>1, <2>2, <2>3 DEF OfferBegun, Offering!IsSendable, Offering!IsPublished
      <3> QED BY <1>0, <3>1, <3>2, SoleOffer
    <2>4. CASE d # p
      <3>1. ~Concerns(r, p) /\ ~Concerns(r, p)'
        BY <2>1, <2>4 DEF OfferBegun, Concerns, Offering!Touches
      <3> QED BY <1>0, <2>1, <2>2, <3>1, OtherProposal DEF OfferBegun
    <2> QED BY <2>3, <2>4
  <1>3. ASSUME NEW r \in Requests,
               \/ Offering!CommitUpdate(r) \/ Offering!Send(r)
               \/ Offering!AddVersion(r) \/ Offering!SaveVersion(r)
               \/ Offering!DeleteVersion(r) \/ Offering!CountVersions(r) \/ Offering!Unpublish(r)
        PROVE  Stands(p)'
    <2> DEFINE q == offerRequests[r]
    <2>1. /\ q \in Offering!Request /\ q # Offering!Idle
          /\ q.proposal \in Offers
      BY <1>3, OfferInFlight DEF Offering!CommitUpdate, Offering!Send, Offering!AddVersion,
         Offering!SaveVersion, Offering!DeleteVersion, Offering!CountVersions, Offering!Unpublish
    <2>2. PICK next \in {Offering!Idle, [q EXCEPT !.pc = "counting"], [q EXCEPT !.pc = "unpublishing"]} :
            Offering!Step(r, next)
      BY <1>3 DEF Offering!CommitUpdate, Offering!Send, Offering!AddVersion, Offering!SaveVersion,
         Offering!DeleteVersion, Offering!CountVersions, Offering!Unpublish
    <2>3. next.pc # "sending" /\ (next # Offering!Idle => next.proposal = q.proposal)
      BY <2>1, <2>2 DEF Offering!Request, Offering!Idle
    <2>4. offerRequests'[r] = next /\ \A s \in Requests : s # r => offerRequests'[s] = offerRequests[s]
      BY <2>2, OfferStep
    <2>5. CASE q.proposal = p
      <3>1. \A s \in Requests : s # r => ~Concerns(s, p)
        BY <1>0, <2>1, <2>5 DEF Stands, Concerns, Offering!Touches
      <3> QED BY <1>0, <2>3, <2>4, <3>1, SoleOffer
    <2>6. CASE q.proposal # p
      <3>1. ~Concerns(r, p) /\ ~Concerns(r, p)'
        BY <2>3, <2>4, <2>6 DEF Concerns, Offering!Touches
      <3>2. proposals'[p] = proposals[p]
        BY <1>0, <1>3, <2>1, <2>6 DEF Offering!CommitUpdate, Offering!Send, Offering!AddVersion,
           Offering!SaveVersion, Offering!DeleteVersion, Offering!CountVersions, Offering!Unpublish,
           Offering!TypeOK
      <3>3. Offering!VersionsOf(p)' = Offering!VersionsOf(p)
        <4>1. CASE Offering!AddVersion(r) \/ Offering!SaveVersion(r) \/ Offering!DeleteVersion(r)
          BY <2>6, <4>1, OtherVersions
        <4>2. CASE versions' = versions
          BY <4>2 DEF Offering!VersionsOf
        <4> QED BY <1>3, <4>1, <4>2 DEF Offering!CommitUpdate, Offering!Send, Offering!CountVersions,
                  Offering!Unpublish
      <3> QED BY <1>0, <2>4, <3>1, <3>2, <3>3, OtherProposal
    <2> QED BY <2>5, <2>6
  <1>4. CASE UNCHANGED offerVars
    BY <1>0, <1>4 DEF Stands, Offering!IsPublished, Offering!VersionsOf, Concerns, Offering!Touches
  <1> QED BY <1>1, <1>2, <1>3, <1>4, OfferSteps

-----------------------------------------------------------------------------
(* The proposals: what holds *)

\* A behaviour of the website is one of the proposals, which may rest.
LEMMA OffersStep == [Next]_vars => [Offering!Next]_offerVars
  BY DEF Next, vars, offerVars

\* There is no proposal when the program starts.
LEMMA OffersInit == Init => OffersInv
PROOF
  <1> SUFFICES ASSUME Offering!Init PROVE OffersInv
    BY DEF Init
  <1>1. Offering!TypeOK
    BY DEF Offering!Init, Offering!TypeOK
  <1>2. VersionsStay
    BY DEF Offering!Init, Offering!Idle, VersionsStay, Holding
  <1>3. CalmOffersStand
    BY DEF Offering!Init, Offering!Idle, CalmOffersStand, Stands, Concerns, Offering!Touches
  <1> QED BY <1>1, <1>2, <1>3 DEF OffersInv

\* Proposals, versions and requests about them are always in order: the inductive invariant.
THEOREM OffersInOrder == Spec => []OffersInv
PROOF
  <1>1. OffersInv /\ [Next]_vars => OffersInv'
    BY OffersStep, OffersTypeStep, VersionsStayStep, CalmOffersStep DEF OffersInv
  <1> QED BY OffersInit, <1>1, PTL DEF Spec

\* Where requests about a proposal do not overlap, a mail leaves sendToRecipient only for a proposal
\* that is published and has a version at that moment, and not only when it was checked.
THEOREM OffersSentStand == Spec => OnlyOffersAreSent
PROOF
  <1> DEFINE OnOffer == \A r \in Requests :
        offerRequests[r].pc = "sending" /\ offerRequests[r].proposal \in CalmOffers =>
          LET p == offerRequests[r].proposal IN Offering!IsPublished(p) /\ Offering!VersionsOf(p) # {}
  <1>1. OffersInv => OnOffer
    BY DEF OffersInv, CalmOffersStand, Stands
  <1>2. OnlyOffersAreSent <=> [][OnOffer]_(Offering!vars)
    BY PTL DEF OnlyOffersAreSent, Offering!OnlyOffersAreSent
  <1> QED BY OffersInOrder, <1>1, <1>2, PTL

-----------------------------------------------------------------------------
(* The limiter: the inductive invariant *)

Answered(k) == DOMAIN answers[k]

\* The requests of a key let through that still count.
Counting(k) ==
  { j \in Answered(k) : answers[k][j].allowed /\ answers[k][j].at > now - WindowMs }

\* Every timestamp is of a request let through, and none that still counts is missing.
StoreIsTrue(k) ==
  /\ \A t \in timestampsByKey[k] : answers[k][t.nth].allowed /\ answers[k][t.nth].at = t.at
  /\ \A j \in Counting(k) : [at |-> answers[k][j].at, nth |-> j] \in timestampsByKey[k]

LimiterInv ==
  /\ Limiter!TypeOK
  /\ timestampsByKey = [k \in Keys |-> timestampsByKey[k]]
  /\ \A k \in Keys : IsFiniteSet(timestampsByKey[k]) /\ StoreIsTrue(k)
  /\ Limiter!WindowIsHonoured

-----------------------------------------------------------------------------
(* The limiter: every step keeps the invariant *)

\* The module counts as the theorems about finite sets do.
LEMMA SameCount == \A S : Limiter!Cardinality(S) = Cardinality(S)
  BY DEF Limiter!Cardinality, Cardinality

\* What consume filters is as many timestamps as requests of the window were let through.
LEMMA FilterCounts ==
  ASSUME LimiterInv, NEW k \in Keys
  PROVE  /\ IsFiniteSet(Limiter!Active(timestampsByKey[k]))
         /\ Cardinality(Limiter!Active(timestampsByKey[k])) = Cardinality(Counting(k))
PROOF
  <1> DEFINE S == Limiter!Active(timestampsByKey[k])
             f == [t \in S |-> t.nth]
  <1>1. /\ timestampsByKey[k] \subseteq [at : 0..now, nth : Answered(k)]
        /\ IsFiniteSet(timestampsByKey[k]) /\ StoreIsTrue(k)
    BY DEF LimiterInv, Limiter!TypeOK, Limiter!Timestamps, Answered
  <1>2. S \subseteq timestampsByKey[k] /\ \A t \in S : t.at > now - WindowMs
    BY DEF Limiter!Active
  <1>3. \A t \in S : t = [at |-> answers[k][t.nth].at, nth |-> t.nth] /\ t.nth \in Counting(k)
    BY <1>1, <1>2 DEF StoreIsTrue, Counting
  <1>4. \A j \in Counting(k) : \E t \in S : t.nth = j
    <2> SUFFICES ASSUME NEW j \in Counting(k) PROVE \E t \in S : t.nth = j
      OBVIOUS
    <2> DEFINE t == [at |-> answers[k][j].at, nth |-> j]
    <2>1. t \in timestampsByKey[k]
      BY <1>1 DEF StoreIsTrue
    <2>2. t.at > now - WindowMs
      BY DEF Counting
    <2> QED BY <2>1, <2>2 DEF Limiter!Active
  <1>5. IsFiniteSet(S)
    BY <1>1, <1>2, FS_Subset
  <1> HIDE DEF S
  <1>6. f \in Surjection(S, Counting(k))
    BY <1>3, <1>4 DEF Surjection
  <1>7. f \in Injection(S, Counting(k))
    BY <1>3 DEF Injection, IsInjective
  <1>8. ExistsBijection(S, Counting(k))
    BY <1>6, <1>7 DEF ExistsBijection, Bijection
  <1>9. Cardinality(Counting(k)) = Cardinality(S)
    BY <1>5, <1>8, FS_Bijection
  <1> QED BY <1>5, <1>9 DEF S

\* Sequences over a larger set.
LEMMA SeqMonotonic ==
  ASSUME NEW S, NEW T, S \subseteq T PROVE Seq(S) \subseteq Seq(T)
PROOF
  <1> SUFFICES ASSUME NEW s \in Seq(S) PROVE s \in Seq(T)
    OBVIOUS
  <1>1. /\ Len(s) \in Nat /\ s = [i \in 1..Len(s) |-> s[i]]
        /\ \A i \in 1..Len(s) : s[i] \in T
    OBVIOUS
  <1> QED BY <1>1

\* Instants past stay past.
LEMMA OlderAnswers ==
  ASSUME NEW m \in Nat, NEW n \in Nat, m <= n
  PROVE  Seq(Limiter!Answers(m)) \subseteq Seq(Limiter!Answers(n))
PROOF
  <1>1. Limiter!Answers(m) \subseteq Limiter!Answers(n)
    BY DEF Limiter!Answers
  <1> QED BY <1>1, SeqMonotonic

\* One more answer of a key: those before it and their windows stay, and its own window is what
\* counted when it came.
LEMMA NextAnswer ==
  ASSUME LimiterInv, NEW k \in Keys, NEW allowed \in BOOLEAN,
         answers' = [answers EXCEPT ![k] = Append(answers[k], [at |-> now, allowed |-> allowed])],
         now' = now,
         allowed <=> Cardinality(Limiter!Active(timestampsByKey[k])) < Limit
  PROVE  /\ answers' \in [Keys -> Seq(Limiter!Answers(now))]
         /\ Answered(k)' = Answered(k) \cup {Len(answers[k]) + 1}
         /\ \A j \in Answered(k) : answers'[k][j] = answers[k][j]
         /\ answers'[k][Len(answers[k]) + 1] = [at |-> now, allowed |-> allowed]
         /\ Limiter!WindowIsHonoured'
PROOF
  <1> DEFINE old == answers[k]
             last == [at |-> now, allowed |-> allowed]
  <1> PICK n : n = Len(old) + 1
    OBVIOUS
  <1>0. /\ WindowMs \in Nat \ {0} /\ now \in Nat
        /\ answers \in [Keys -> Seq(Limiter!Answers(now))]
    BY WebsiteAssumption DEF Limiter!LimitAssumption, LimiterInv, Limiter!TypeOK
  <1>1. old \in Seq(Limiter!Answers(now)) /\ last \in Limiter!Answers(now)
    <2>1. old \in Seq(Limiter!Answers(now))
      BY <1>0
    <2>2. last \in Limiter!Answers(now)
      BY <1>0 DEF Limiter!Answers
    <2> QED BY <2>1, <2>2
  <1>2. answers'[k] = Append(old, last)
    BY <1>0
  <1> HIDE DEF old, last
  <1>3. /\ Append(old, last) \in Seq(Limiter!Answers(now))
        /\ DOMAIN old = 1..Len(old) /\ Len(old) \in Nat
        /\ DOMAIN Append(old, last) = 1..n
        /\ \A j \in 1..Len(old) : Append(old, last)[j] = old[j]
        /\ Append(old, last)[n] = last
    BY <1>1
  <1>4. answers' \in [Keys -> Seq(Limiter!Answers(now))]
    BY <1>0, <1>2, <1>3 DEF old, last
  <1>5. Answered(k)' = Answered(k) \cup {n} /\ Answered(k) = 1..Len(old)
    BY <1>2, <1>3 DEF Answered, old
  <1>6. ASSUME NEW c \in Keys, NEW i \in DOMAIN answers'[c]
        PROVE  answers'[c][i].allowed <=> Cardinality(Limiter!AllowedInWindow(c, i)') < Limit
    <2>1. CASE c # k
      <3>1. answers'[c] = answers[c]
        BY <1>0, <2>1
      <3>2. Limiter!AllowedInWindow(c, i)' = Limiter!AllowedInWindow(c, i)
        BY <3>1 DEF Limiter!AllowedInWindow
      <3>3. answers[c][i].allowed <=> Cardinality(Limiter!AllowedInWindow(c, i)) < Limit
        BY <1>6, <3>1, SameCount, Zenon DEF LimiterInv, Limiter!WindowIsHonoured
      <3> QED BY <3>1, <3>2, <3>3, Zenon
    <2>2. CASE c = k /\ i # n
      <3>1. i \in 1..Len(old)
        BY <1>2, <1>3, <1>6, <2>2
      <3>2. \A j \in 1..(i - 1) : j \in 1..Len(old)
        BY <1>3, <3>1
      <3>3. \A j \in 1..(i - 1) : answers'[k][j] = answers[k][j]
        BY <1>2, <1>3, <3>2 DEF old
      <3>4. answers'[k][i] = answers[k][i] /\ i \in DOMAIN answers[k]
        BY <1>2, <1>3, <3>1 DEF old
      <3>5. Limiter!AllowedInWindow(k, i)' = Limiter!AllowedInWindow(k, i)
        BY <3>3, <3>4 DEF Limiter!AllowedInWindow
      <3>6. answers[k][i].allowed <=> Cardinality(Limiter!AllowedInWindow(k, i)) < Limit
        BY <3>4, SameCount, Zenon DEF LimiterInv, Limiter!WindowIsHonoured
      <3> QED BY <2>2, <3>4, <3>5, <3>6, Zenon
    <2>3. CASE c = k /\ i = n
      <3>1. Limiter!AllowedInWindow(k, n)' =
              { j \in 1..(n - 1) : answers'[k][j].allowed /\ answers'[k][j].at > answers'[k][n].at - WindowMs }
        BY DEF Limiter!AllowedInWindow
      <3>2. 1..(n - 1) = Answered(k) /\ \A j \in Answered(k) : answers'[k][j] = answers[k][j]
        BY <1>2, <1>3, <1>5 DEF old
      <3>3. answers'[k][n].at = now /\ answers'[k][n].allowed = allowed
        BY <1>2, <1>3 DEF last
      <3>4. Limiter!AllowedInWindow(k, n)' = Counting(k)
        BY <3>1, <3>2, <3>3 DEF Counting
      <3>5. Cardinality(Limiter!Active(timestampsByKey[k])) = Cardinality(Counting(k))
        BY FilterCounts, Zenon
      <3> QED BY <2>3, <3>3, <3>4, <3>5, Zenon
    <2> QED BY <2>1, <2>2, <2>3
  <1>7. Limiter!WindowIsHonoured'
    BY <1>6, SameCount, Zenon DEF Limiter!WindowIsHonoured
  <1>8. /\ \A j \in Answered(k) : answers'[k][j] = answers[k][j]
        /\ answers'[k][n] = [at |-> now, allowed |-> allowed]
    BY <1>2, <1>3, <1>5 DEF old, last
  <1> QED BY <1>4, <1>5, <1>7, <1>8 DEF old

\* The store keeps what still counts, and never more than the limit.
LEMMA LimiterInvStep == LimiterInv /\ [Limiter!Next]_limitVars => LimiterInv'
PROOF
  <1> SUFFICES ASSUME LimiterInv, [Limiter!Next]_limitVars PROVE LimiterInv'
    OBVIOUS
  <1> USE DEF limitVars
  <1>0. /\ WindowMs \in Nat /\ now \in Nat /\ now \in 0..MaxTime /\ Limit \in Nat /\ Limit # 0
        /\ answers \in [Keys -> Seq(Limiter!Answers(now))] /\ MaxTime \in Nat
    BY WebsiteAssumption DEF Limiter!LimitAssumption, LimiterInv, Limiter!TypeOK
  <1>1. ASSUME NEW k \in Keys, NEW allowed \in BOOLEAN, NEW kept,
               LET active == Limiter!Active(timestampsByKey[k]) IN
               /\ allowed => Cardinality(active) < Limit /\ kept = active \cup {Limiter!Stamp(k)}
               /\ ~allowed => Cardinality(active) >= Limit /\ kept = active,
               Limiter!Remember(k, kept), Limiter!Answer(k, allowed), now' = now
        PROVE  LimiterInv'
    <2> DEFINE active == Limiter!Active(timestampsByKey[k])
               n == Len(answers[k]) + 1
    <2>1. /\ answers' = [answers EXCEPT ![k] = Append(answers[k], [at |-> now, allowed |-> allowed])]
          /\ timestampsByKey' = [timestampsByKey EXCEPT ![k] = kept]
      BY <1>1 DEF Limiter!Answer, Limiter!Remember
    <2>2. /\ IsFiniteSet(active) /\ Cardinality(active) \in Nat
          /\ active \subseteq timestampsByKey[k]
      BY FilterCounts, FS_CardinalityType DEF Limiter!Active
    <2>3. allowed <=> Cardinality(active) < Limit
      BY <1>0, <1>1, <2>2
    <2>4. /\ answers' \in [Keys -> Seq(Limiter!Answers(now))]
          /\ Answered(k)' = Answered(k) \cup {n}
          /\ \A j \in Answered(k) : answers'[k][j] = answers[k][j]
          /\ answers'[k][n] = [at |-> now, allowed |-> allowed]
          /\ Limiter!WindowIsHonoured'
      BY <1>1, <2>1, <2>3, NextAnswer
    <2>5. timestampsByKey' = [c \in Keys |-> IF c = k THEN kept ELSE timestampsByKey[c]]
      BY <2>1 DEF LimiterInv
    <2>6. IsFiniteSet(kept) /\ Cardinality(kept) <= Limit
      <3>1. CASE ~allowed
        <4>1. kept \subseteq timestampsByKey[k]
          BY <1>1, <2>2, <3>1
        <4>2. IsFiniteSet(timestampsByKey[k]) /\ Cardinality(timestampsByKey[k]) <= Limit
          BY SameCount, Zenon DEF LimiterInv, Limiter!TypeOK
        <4>3. /\ IsFiniteSet(kept) /\ Cardinality(kept) <= Cardinality(timestampsByKey[k])
              /\ Cardinality(kept) \in Nat /\ Cardinality(timestampsByKey[k]) \in Nat
          BY <4>1, <4>2, FS_Subset, FS_CardinalityType
        <4> QED BY <1>0, <4>2, <4>3
      <3>2. CASE allowed
        <4>1. kept = active \cup {Limiter!Stamp(k)} /\ Cardinality(active) < Limit
          BY <1>1, <3>2
        <4>2. /\ IsFiniteSet(kept)
              /\ Cardinality(kept) = Cardinality(active) \/ Cardinality(kept) = Cardinality(active) + 1
          BY <2>2, <4>1, FS_AddElement
        <4> QED BY <1>0, <2>2, <4>1, <4>2
      <3> QED BY <3>1, <3>2
    <2>7. StoreIsTrue(k)
      BY DEF LimiterInv
    <2>8. /\ kept \subseteq [at : 0..now, nth : Answered(k)']
          /\ \A t \in kept : answers'[k][t.nth].allowed /\ answers'[k][t.nth].at = t.at
      <3> SUFFICES ASSUME NEW t \in kept
                   PROVE  /\ t \in [at : 0..now, nth : Answered(k)']
                          /\ answers'[k][t.nth].allowed /\ answers'[k][t.nth].at = t.at
        OBVIOUS
      <3>1. CASE t \in active
        <4>1. t \in [at : 0..now, nth : Answered(k)]
          BY <2>2, <3>1 DEF LimiterInv, Limiter!TypeOK, Limiter!Timestamps, Answered
        <4>2. answers[k][t.nth].allowed /\ answers[k][t.nth].at = t.at
          BY <2>2, <2>7, <3>1 DEF StoreIsTrue
        <4> QED BY <2>4, <4>1, <4>2
      <3>2. CASE t \notin active
        <4>1. allowed /\ t = [at |-> now, nth |-> n]
          BY <1>1, <3>2 DEF Limiter!Stamp
        <4> QED BY <1>0, <2>4, <4>1
      <3> QED BY <3>1, <3>2
    <2>9. ASSUME NEW j \in Counting(k)'
          PROVE  [at |-> answers'[k][j].at, nth |-> j] \in kept
      <3>1. /\ j \in Answered(k) \cup {n}
            /\ answers'[k][j].allowed /\ answers'[k][j].at > now - WindowMs
        BY <1>1, <2>4, <2>9 DEF Counting
      <3>2. CASE j \in Answered(k)
        <4>1. j \in Counting(k) /\ answers'[k][j].at = answers[k][j].at
          BY <2>4, <3>1, <3>2 DEF Counting
        <4>2. [at |-> answers[k][j].at, nth |-> j] \in active
          BY <2>7, <3>1, <4>1 DEF StoreIsTrue, Limiter!Active
        <4> QED BY <1>1, <4>1, <4>2
      <3>3. CASE j = n
        <4>1. allowed /\ answers'[k][j].at = now
          BY <2>4, <3>1, <3>3
        <4> QED BY <1>1, <3>3, <4>1 DEF Limiter!Stamp
      <3> QED BY <3>1, <3>2, <3>3
    <2>10. StoreIsTrue(k)'
      BY <1>1, <2>5, <2>8, <2>9 DEF StoreIsTrue
    <2>11. \A c \in Keys : c # k =>
             /\ answers'[c] = answers[c] /\ timestampsByKey'[c] = timestampsByKey[c]
             /\ StoreIsTrue(c)'
      <3> SUFFICES ASSUME NEW c \in Keys, c # k
                   PROVE  /\ answers'[c] = answers[c] /\ timestampsByKey'[c] = timestampsByKey[c]
                          /\ StoreIsTrue(c)'
        OBVIOUS
      <3>1. answers'[c] = answers[c] /\ timestampsByKey'[c] = timestampsByKey[c]
        BY <1>0, <2>1, <2>5
      <3>2. StoreIsTrue(c)
        BY DEF LimiterInv
      <3> QED BY <1>1, <3>1, <3>2 DEF StoreIsTrue, Counting, Answered
    <2>12. Limiter!TypeOK'
      <3>1. timestampsByKey'[k] \subseteq Limiter!Timestamps(k)' /\ Cardinality(timestampsByKey'[k]) <= Limit
        BY <1>1, <2>5, <2>6, <2>8 DEF Limiter!Timestamps, Answered
      <3>2. ASSUME NEW c \in Keys, c # k
            PROVE  /\ timestampsByKey'[c] \subseteq Limiter!Timestamps(c)'
                   /\ Cardinality(timestampsByKey'[c]) <= Limit
        <4>1. /\ timestampsByKey[c] \subseteq Limiter!Timestamps(c)
              /\ Cardinality(timestampsByKey[c]) <= Limit
          BY SameCount, Zenon DEF LimiterInv, Limiter!TypeOK
        <4>2. Limiter!Timestamps(c)' = Limiter!Timestamps(c)
          BY <1>1, <2>11, <3>2 DEF Limiter!Timestamps
        <4> QED BY <2>11, <3>2, <4>1, <4>2
      <3>3. \A c \in Keys : /\ timestampsByKey'[c] \subseteq Limiter!Timestamps(c)'
                            /\ Cardinality(timestampsByKey'[c]) <= Limit
        BY <3>1, <3>2, Zenon
      <3>4. now' \in 0..MaxTime /\ answers' \in [Keys -> Seq(Limiter!Answers(now'))]
        BY <1>0, <1>1, <2>4
      <3> QED BY <3>3, <3>4, SameCount, Zenon DEF Limiter!TypeOK
    <2>13. \A c \in Keys : IsFiniteSet(timestampsByKey'[c]) /\ StoreIsTrue(c)'
      BY <2>5, <2>6, <2>10, <2>11 DEF LimiterInv
    <2> QED BY <2>4, <2>5, <2>12, <2>13 DEF LimiterInv
  <1>2. ASSUME NEW k \in Keys, Limiter!Allow(k) PROVE LimiterInv'
    <2> DEFINE kept == Limiter!Active(timestampsByKey[k]) \cup {Limiter!Stamp(k)}
    <2>1. /\ Cardinality(Limiter!Active(timestampsByKey[k])) < Limit
          /\ Limiter!Remember(k, kept) /\ Limiter!Answer(k, TRUE) /\ now' = now
      BY <1>2, SameCount DEF Limiter!Allow
    <2> HIDE DEF kept
    <2>2. kept = Limiter!Active(timestampsByKey[k]) \cup {Limiter!Stamp(k)}
      BY DEF kept
    <2> QED BY <1>1, <2>1, <2>2
  <1>3. ASSUME NEW k \in Keys, Limiter!Refuse(k) PROVE LimiterInv'
    <2> DEFINE kept == Limiter!Active(timestampsByKey[k])
    <2>1. /\ Cardinality(kept) >= Limit
          /\ Limiter!Remember(k, kept) /\ Limiter!Answer(k, FALSE) /\ now' = now
      BY <1>3, SameCount DEF Limiter!Refuse
    <2> QED BY <1>1, <2>1
  <1>4. ASSUME Limiter!Tick PROVE LimiterInv'
    <2>1. now < MaxTime /\ now' = now + 1 /\ timestampsByKey' = timestampsByKey /\ answers' = answers
      BY <1>4 DEF Limiter!Tick
    <2>2. now' \in 0..MaxTime /\ now <= now' /\ now' \in Nat
      BY <1>0, <2>1
    <2>3. answers' \in [Keys -> Seq(Limiter!Answers(now'))]
      <3>1. \A k \in Keys : answers[k] \in Seq(Limiter!Answers(now'))
        BY <1>0, <2>2, OlderAnswers
      <3> QED BY <1>0, <2>1, <3>1
    <2>4. ASSUME NEW k \in Keys PROVE timestampsByKey'[k] \subseteq Limiter!Timestamps(k)'
      <3> USE DEF Limiter!Timestamps
      <3>1. timestampsByKey[k] \subseteq [at : 0..now, nth : DOMAIN answers[k]]
        BY DEF LimiterInv, Limiter!TypeOK
      <3> QED BY <1>0, <2>1, <2>2, <3>1
    <2>5. Limiter!TypeOK'
      <3>1. \A k \in Keys : Cardinality(timestampsByKey[k]) <= Limit
        BY SameCount, Zenon DEF LimiterInv, Limiter!TypeOK
      <3>2. \A k \in Keys : /\ timestampsByKey'[k] \subseteq Limiter!Timestamps(k)'
                            /\ Cardinality(timestampsByKey'[k]) <= Limit
        BY <2>1, <2>4, <3>1, Zenon
      <3> QED BY <2>2, <2>3, <3>2, SameCount, Zenon DEF Limiter!TypeOK
    <2>6. ASSUME NEW k \in Keys PROVE StoreIsTrue(k)'
      <3>1. StoreIsTrue(k)
        BY DEF LimiterInv
      <3>2. \A j \in Answered(k) : answers[k][j].at \in Nat
        <4> SUFFICES ASSUME NEW j \in DOMAIN answers[k] PROVE answers[k][j].at \in Nat
          BY DEF Answered
        <4>1. answers[k] \in Seq(Limiter!Answers(now))
          BY <1>0
        <4>2. answers[k][j] \in Limiter!Answers(now)
          BY <4>1
        <4> QED BY <1>0, <4>2 DEF Limiter!Answers
      <3>3. Counting(k)' \subseteq Counting(k)
        BY <1>0, <2>1, <3>2 DEF Counting, Answered
      <3> QED BY <2>1, <3>1, <3>3 DEF StoreIsTrue
    <2>7. Limiter!WindowIsHonoured'
      BY <2>1 DEF LimiterInv, Limiter!WindowIsHonoured, Limiter!AllowedInWindow
    <2> QED BY <2>1, <2>5, <2>6, <2>7 DEF LimiterInv
  <1>5. ASSUME Limiter!Restart PROVE LimiterInv'
    <2>1. /\ timestampsByKey' = [k \in Keys |-> {}] /\ answers' = [k \in Keys |-> <<>>] /\ now' = now
      BY <1>5 DEF Limiter!Restart
    <2>2. \A k \in Keys : StoreIsTrue(k)'
      BY <2>1 DEF StoreIsTrue, Counting, Answered
    <2>3. Limiter!TypeOK'
      <3>1. answers' \in [Keys -> Seq(Limiter!Answers(now'))]
        BY <2>1
      <3>2. ASSUME NEW k \in Keys
            PROVE  /\ timestampsByKey'[k] \subseteq Limiter!Timestamps(k)'
                   /\ Cardinality(timestampsByKey'[k]) <= Limit
        BY <1>0, <2>1, FS_EmptySet
      <3>3. now' \in 0..MaxTime
        BY <1>0, <2>1
      <3> QED BY <3>1, <3>2, <3>3, SameCount, Zenon DEF Limiter!TypeOK
    <2>4. Limiter!WindowIsHonoured'
      BY <2>1 DEF Limiter!WindowIsHonoured
    <2> QED BY <2>1, <2>2, <2>3, <2>4, FS_EmptySet DEF LimiterInv
  <1>6. CASE UNCHANGED limitVars
    <2>1. now' = now /\ timestampsByKey' = timestampsByKey /\ answers' = answers
      BY <1>6
    <2>2. \A k \in Keys : StoreIsTrue(k)'
      BY <2>1 DEF LimiterInv, StoreIsTrue, Counting, Answered
    <2>3. Limiter!TypeOK'
      BY <2>1, Zenon DEF LimiterInv, Limiter!TypeOK, Limiter!Timestamps
    <2>4. Limiter!WindowIsHonoured'
      BY <2>1, Zenon DEF LimiterInv, Limiter!WindowIsHonoured, Limiter!AllowedInWindow
    <2> QED BY <2>1, <2>2, <2>3, <2>4 DEF LimiterInv
  <1> QED BY <1>2, <1>3, <1>4, <1>5, <1>6 DEF Limiter!Next

-----------------------------------------------------------------------------
(* The limiter: what holds *)

\* A behaviour of the website is one of the limiter, which may rest.
LEMMA LimiterStep == [Next]_vars => [Limiter!Next]_limitVars
  BY DEF Next, vars, limitVars

\* The store is empty when the process starts.
LEMMA LimiterInit == Init => LimiterInv
PROOF
  <1> SUFFICES ASSUME Limiter!Init PROVE LimiterInv
    BY DEF Init
  <1>1. \A k \in Keys : StoreIsTrue(k)
    BY DEF Limiter!Init, StoreIsTrue, Counting, Answered
  <1>2. Limiter!TypeOK
    <2>1. now \in 0..MaxTime
      BY WebsiteAssumption DEF Limiter!Init, Limiter!LimitAssumption
    <2>2. answers \in [Keys -> Seq(Limiter!Answers(now))]
      BY DEF Limiter!Init
    <2>3. ASSUME NEW k \in Keys
          PROVE  /\ timestampsByKey[k] \subseteq Limiter!Timestamps(k)
                 /\ Cardinality(timestampsByKey[k]) <= Limit
      BY WebsiteAssumption, FS_EmptySet DEF Limiter!Init, Limiter!LimitAssumption
    <2> QED BY <2>1, <2>2, <2>3, SameCount, Zenon DEF Limiter!TypeOK
  <1>3. Limiter!WindowIsHonoured
    BY DEF Limiter!Init, Limiter!WindowIsHonoured
  <1> QED BY <1>1, <1>2, <1>3, FS_EmptySet DEF Limiter!Init, LimiterInv

\* The store remembers what the window needs and no more: the inductive invariant.
THEOREM StoreInOrder == Spec => []LimiterInv
PROOF
  <1>1. LimiterInv /\ [Next]_vars => LimiterInv'
    BY LimiterStep, LimiterInvStep
  <1> QED BY LimiterInit, <1>1, PTL DEF Spec

\* consume lets a request through exactly when fewer than Limit of its key were let through in the
\* window that ends with it, in the life of the process: no window sees more, nobody is refused
\* for requests that were refused or have expired.
THEOREM WindowsAreHonoured == Spec => []WindowIsHonoured
PROOF
  <1>1. LimiterInv => WindowIsHonoured
    BY DEF LimiterInv, WindowIsHonoured
  <1> QED BY StoreInOrder, <1>1, PTL

-----------------------------------------------------------------------------
(* The three together *)

\* Rows, mails, proposals, versions, memories and requests keep the types of their columns,
\* whatever interleaves.
THEOREM TypeCorrect == Spec => []TypeOK
PROOF
  <1>1. LettersInv /\ LimiterInv /\ OffersInv => TypeOK
    BY DEF LettersInv, LettersTypes, LimiterInv, OffersInv, TypeOK
  <1> QED BY LettersInOrder, StoreInOrder, OffersInOrder, <1>1, PTL

=============================================================================
