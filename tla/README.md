# Walk and Tour backend: a TLA+ verification project

This directory holds TLA+ models of the Walk and Tour backend, the TLC
configurations that check them on small instances, and TLAPS proofs of every safety
property that a passing run checks (section 6). Paths like `hotels/hotel-bookings.service.ts`
are relative to `src/src/` in the repository.

The backend is a NestJS service over PostgreSQL (TypeORM). It sells guided walks
to partner hotels, publishes tours and blog posts in several languages, plans
events with guides, sends private proposals, and runs a newsletter. Everything
that can go wrong in it goes wrong in the same few ways:

* A handler is an `async` function. It reads, checks, awaits and writes, and at
  every `await` any other request may run. Only ten places open a transaction, and
  the database runs them at READ COMMITTED: a check made before a transaction, or
  by an earlier statement of it, may be out of date when the write happens.
* `repository.save(entity)` writes the entity as it was read: columns another
  request has changed since are put back, and a row deleted since is inserted
  again. `repository.update(criteria, columns)` writes only those columns and does
  not mind finding no row.
* Some operations touch two systems (the database and the identity provider, the
  mail provider or the object store) with nothing to tie the two together.

The models keep exactly that: a **request** is a record with a program counter
and the values it has read, one action per stretch of code between two awaits
that matter. Wording, logging, audit columns and response shapes are left out.

## 1. Inventory

| Component (source) | State it keeps | Operations | Modelled in |
| --- | --- | --- | --- |
| Hotel bookings (`hotels/hotel-bookings.service.ts`, `shared/domain/hotel-booking.enums.ts`) | `hotel_bookings`, `hotel_booking_line_items`, `hotel_booking_logs` | create, change status, add and remove a line | `HotelBookings`, `BookingLedger` |
| Hotels and access users (`hotels/hotels.service.ts`, `hotels/hotel-users.service.ts`, `hotel-auth/hotel-auth.service.ts`) | `hotels`, `hotel_tours`, `hotel_users` | create, patch, grants, archive, remove; create a user, resend, enable, disable, release; sign in | `HotelAccess` |
| Identity provider (`providers/identity`) | accounts at Auth0 | create, block, unblock, delete | `HotelAccess` (as used) |
| Newsletter (`newsletter-subscribers/newsletter-subscribers.service.ts`) | `newsletter_subscribers`, tokens in people's mail | subscribe, confirm, unsubscribe | `Newsletter` |
| Rate limiter (`newsletter-subscribers/newsletter-public-rate-limit.guard.ts`) | a `Map` of timestamps in memory | consume | `RateLimit` |
| Proposals (`proposals/proposals.service.ts`) | `proposals`, `proposal_versions`, `proposal_media` | create, update, remove, send; add, change, remove a version; attach media | `Proposals`, `MediaLibrary` |
| Tours (`tours/tours.service.ts`, 1421 lines) | `tours`, stops, translations, booking widget, media, tags, a manual order | create, update, reorder, translate, publish, attach | `TourOrder`, `TourList` (row and order), `TourPublication` (stops, translations), `TourWidget` (booking widget), `MediaLibrary` (media, cover), `Tags` |
| Blog posts (`blog-posts/blog-posts.service.ts`, `public-blog-posts.service.ts`) | posts, translations, `blog_post_views` | translate, edit, publish, unpublish, delete; count a view | `BlogPublication`, `BlogViews`, `MediaLibrary` (hero image), `Tags` |
| Media library (`admin-media/admin-media.service.ts`, `storage/`) | `media_assets`, objects in the store | upload, remove | `MediaLibrary` |
| Events (`events/events.service.ts`, `events.recurrence.ts`) | `events`, `event_occurrences` with their guides | create, update, cancel, remove; confirm, update, cancel, remove a date; the calendar | `EventSchedule`, `Recurrence`, `CalendarPaging` |
| Guides (`team-members/team-members.service.ts`) | `team_members`, days off, weekly rules | enter and remove days off and rules; who is available; remove a member | `Availability`, `EventSchedule` |
| Day notes (`events/events.service.ts`) | a text per day | set, remove | - |
| Administrators (`admin-users`, `admin-auth`) | `admin_users` | invite, change, sign in, bind at first login, bootstrap | `AdminAccess` |
| Tags, languages (`tags`, `languages`) | `tags`, `tour_tags`, `blog_post_tags`, `languages` | create, relabel, remove a tag, tag; register a language | `Tags` |
| Catalogue import (`database/migrations/1710000000006-import-tour-catalog.ts`) | writes over tours, media, tags, languages | up, down | `CatalogImport` |
| Money (`hotels/money.ts`) | none | parse, sum, multiply | sums in `HotelBookings` |
| Email, storage drivers, configuration, health, swagger, other migrations, seeds | none of their own | adapters, start-up | see section 8 |

### How they interact

* A hotel may book only tours it has been granted (`hotel_tours`), at the grant's
  price or the tour's; a booking copies price, basis and reference and keeps them.
  Bookings keep their hotel from being deleted by a restricting foreign key.
* `archive` and `remove` of a hotel call `release` of its user, which calls the
  identity provider; signing in goes the other way and writes the user row.
* The public newsletter routes go through the rate limiter, then the service, then
  the mail provider.
* Tours, blog posts, proposals and team members refer to media assets; the library
  counts the references of tours and posts before it deletes an object, and only
  foreign keys stand for the others.
* The calendar merges the dates a rule yields with the dates confirmed; a confirmed
  date has guides, whose days off are asked for when they are assigned.
* An administrator's token is resolved to a row on every request, and a hotel's
  identity must never become an administrator's.
* Tags are taken on by tours and posts in their services and removed in another.
* The import writes the tables the administrators work on, once, before or after they do.

### What makes each of them correct

* *Bookings*: the status follows the transition table and the actor's rights, the
  total is the sum of the lines, an invoice freezes the money, the history tells
  what happened, a quote and a reference never change.
* *Access*: an account at the provider is owned by a row, the names on both sides
  agree, a disabled user is blocked, a user without an account does not stay, an
  archived hotel has given everything up, a hotel with bookings stays.
* *Newsletter*: nobody is subscribed without confirming, leaving lasts, every
  subscriber can leave, a pending confirmation is mailed.
* *Rate limiter*: never over the limit in any window, never a refusal without cause.
* *Proposals*: only published offers with a version are mailed; an empty one is withdrawn.
* *Tours*: the manual order is 0..n-1 without gaps, an edit moves no tour,
  the stops are one update's list, a published translation is ready, a widget that is
  embedded has all its provider needs and keeps what a request leaves out.
* *Media*: what is shown has content, a cover is an attached image, no object is lost.
* *Blog*: a post is dated exactly while a translation is published; a view counts once
  in a window, and no edit loses it.
* *Events*: the calendar has the dates the rule means, none twice, on whatever pages it
  is read; picker and check agree; a guide assigned is free; a cancellation stays.
* *Administrators*: who enters is active and no hotel's identity, and a sign-in takes
  back nothing that was decided.
* *Tags*: a removal is whole. *Import*: it is never refused half way, and what it publishes is told whole.

The lines at which these are at risk are the `hazards` of `PROJECT.json`.

## 2. Modules

| Module | What it is |
| --- | --- |
| `HotelBookings` | the booking service, request by request |
| `BookingLedger` | what a booking promises, without requests; refined by `HotelBookings` |
| `HotelBookingsProofs` | the theorems about `HotelBookings` and about `Partners` |
| `HotelAccess` | hotels, access users, sign-in and the identity provider together |
| `HotelAccessProofs` | the theorems about `HotelAccess` |
| `Partners` | the bookings and the access users side by side |
| `TourOrder` | the manual order of the tours, save by save |
| `TourList` | what that order promises: a list with insert, move and edit |
| `TourOrderProofs` | the theorems about `TourOrder` |
| `TourPublication` | one tour, its stops and translations, and what the public site shows of it |
| `TourPublicationProofs` | the theorems about `TourPublication` |
| `TourWidget` | the booking widget of one tour, and what a page embeds of it |
| `Newsletter` | double opt-in with mails and tokens |
| `RateLimit` | the sliding window |
| `Proposals` | proposals, versions and publication |
| `Website` | the last three side by side |
| `WebsiteProofs` | the theorems about `Website` and its parts |
| `Recurrence` | the calendar, the expansion of a rule, and what the rule means (operators) |
| `Availability` | the two answers to "is this guide free", and what they are meant to say (operators) |
| `EventSchedule` | an event, its dates and the guides' days off, request by request |
| `EventScheduleProofs` | the theorems about `EventSchedule`, `Recurrence` and `Availability` |
| `CalendarPaging` | a reader who goes through an event's dates page by page |
| `MediaLibrary` | media rows, objects and everything that refers to a medium |
| `BlogPublication` | a post's translations and its derived date |
| `BlogViews` | views of a translation, reader by reader, against the clock |
| `AdminAccess` | administrators, invitations and sign-in |
| `Tags` | tags, their carriers and the languages of their labels |
| `CatalogImport` | the migration that imports the tours, and its revert |
| `Backoffice` | `MediaLibrary`, `BlogPublication`, `BlogViews`, `AdminAccess`, `Tags`, `CatalogImport`, `TourWidget` and `CalendarPaging` side by side |
| `BackofficeProofs` | the theorems about `Backoffice` and its parts |
| `NumberTheorems` | what the proofs need of numbers: the least and the greatest of a set of naturals, quotients and remainders |
| `MC...` | definitions of constants and symmetry for TLC, where the module's own cfg needs them |

`Website`, `Backoffice` and `Partners` compose by INSTANCE parts that share no variable
(`Partners` extends the one, `HotelBookings`, whose properties keep their names, and
instantiates the other, whose `RowsTellTheTruth` it names again). What one part does is
then the same whatever the others do meanwhile, so a behaviour moves one part, chosen at
the start (`focus`), and the others stay as they began: every reachable state of every
part is reached, without the product of them. (Of `Partners` this is a theorem: what it
does is a behaviour of each of its parts, section 6.) Its bookings are moved in two ways:
the bookings of `Worked` through their whole lives, or all of them as far as their
creation, which is what the numbering of references needs. What a part that stays has
several initial states for (prices and grants, names taken elsewhere, products of a tour)
is fixed. The assumptions of the parts about their constants are the ASSUME of the
composition.

Operators marked `\* mistake` are not part of a model's behaviour. Each is a
plausible bug in the definition that follows it. Substituted for that
definition, it makes TLC refute one of the properties, which shows that the
property depends on the code being right.

### State and code

**HotelBookings.** `bookings`, `totals`, `lines` and `logs` are the four
groups of columns of the tables (the total apart, because it is what races get wrong);
`tours` and `grants` what `create` reads. A request goes
`granted -> priced -> numbered` through `create` (read the grant, read the tour,
number and insert), `statusChecked` through `changeStatus`, and
`addChecked -> addSummed` or `removeChecked -> removeSummed` through an edit. What
an open transaction has written stays in the request record until the commit
action: at READ COMMITTED nobody else sees it. Two exceptions, and the model has
them both: a unique index makes the second of two equal references fail
(`CommitCreate`), and a second delete of one row waits (`RemoveAndSum`). The update
of the booking row is the last contended statement before the commit, so update,
history entry and commit are one action. `Abort` ends any request at any point.
References are numbers; `SortKey` orders them as PostgreSQL orders their text, so that
`MAX(reference)` past the padding behaves as the code does: `Radix` is the base of the
digits and `RefLimit` the last number that the padding holds (ten and 9999 in the code).
One year is modelled, and a year starts its numbers afresh.

**HotelAccess.** A row of `users` is a `hotel_users` row, `identities` are the
provider's accounts, `foreign` the names and addresses others hold there. A request
carries `copy`, the entity as read; the actions that save write the whole copy
(`SavePatch`, `SaveUser`, `Rename`), those that update write two columns
(`CompleteSignIn`). A save's own SELECT and UPDATE are one action. `Offer` is one
call of the provider, with all its outcomes, and the look-up of the next name;
`refused` only records names and `faults` counts what went wrong, and no guard but the
bound on faults reads them. Sending tickets and mails
changes nothing here and is left out.

**Newsletter.** The n-th pair of tokens generated is the number n, and 0 a null
hash. `inbox` is what people have received, the only source of tokens. A request
holds the row it will save.

**RateLimit.** `consume` is synchronous and so one action (allowed or refused);
`answers` is a history of every request, which the properties judge. Nothing looks at
the order of the timestamps of a key, so they are a set, in which the number of its
request tells a timestamp from others of the same instant.

**Proposals.** `update` writes the columns it was given, so a request holds the
change; a version is saved whole; `removeVersion` deletes, counts, and decides with
the status it read before. `sendToRecipient` asks for the status and not for the date
of expiry, which only the public read asks about; the date is left out.

**TourOrder.** A row of `tours` is a number and a content (all the other columns,
which only ever travel together with the copy). `update` goes `read -> saving`
(without a place) or `read -> listed -> saving` (with one), `create` starts at
`listed`. `saving` holds the copies to write and what the save's own SELECT has
seen: TypeORM writes the columns in which the two differ. `Save` is the UPDATEs and
the commit, where the deferred unique constraint accepts or refuses. `alone` is a
history variable: whether the only request in flight has had company since it began.

**TourPublication.** `tour` is what readiness and publication read of the row: its
content schema, the itinerary's variant, whether the columns a public page needs are
set (`sound`) and whether the tour is a company tour, which the public site does not
ask for stops. `update` goes `updating -> clearing -> inserting -> refreshing`, and
then `loading -> writing` if a flag is wrong; a handler of a translation starts at
`loading`, `createTranslation`, whose row has no id to look up, at `writing`, and
`deleteTranslation` is `deleting`. A payload is the set of fields and stops it has
texts for, and a schema the fields it knows and requires, which is what the
validator's verdict is about here; the three lists every payload must have are one
field. `AdminShows` and `PublicShows` are the two answers the code computes to one
question, is this translation public, in two services.

**TourWidget.** `widget` is the three booking columns of a tour's row, `products` the
`booking_reference_id` of its translations. `Sent` are the bodies requests send, as
functions on the fields they name; `Received` is what the handler gets, an instance of
`TourBookingDto`, in which every declared field is present: the ValidationPipe of
`main.ts` transforms, and the compiler's target ES2022 defines class fields. `Resolved` is
`resolveBooking`, with its question whether the field is *in* the body, and
`IsAcceptable` the two validations. The save goes `compare -> write`.

**MediaLibrary.** `rows` and `objects` are the two halves of a medium. An upload is
`uploaded` between them, a removal `removing` (counted), then `emptied` (the object is
gone), and a detachment `detached` until the cover is cleared. `Counted` is what
`remove` counts, `Referred` what the foreign keys refuse to lose. `broken` records the
requests that ended between two writes.

**BlogPublication.** A handler reads a translation, changes its copy, saves it (the
repository reads again, `base`, and writes the columns that differ), touches the post
and derives the date: count, then clear or set. `CountView` is the readers' side, whose
own steps are `BlogViews`: open, read the clock, and one transaction that inserts or
refreshes the viewer's row.

**Recurrence, Availability.** Instants are ticks since a midnight (UTC); a second
has two ticks, so that a start may have a fraction that `withTimeOfDay` drops. `Expand`
is the loop of the code, day by day; `Scheduled` counts the days out from the first
one, unit by unit, and is the reference. `MembersAvailable` is `assertMembersAvailable`,
`IsUnavailableAt` the picker's test, and `IsFree` goes through the minutes.

**EventSchedule.** `update` and `cancel` save the event they read (`saving`, with the ids
of the dates seen: the save of an event that has got dates since is refused, because it
would orphan them), `updateOccurrence` and `cancelOccurrence` the date they read
(`changing`; removed since, it is inserted again); `confirmOccurrence` reads the event,
looks for a date there is, asks for the guides, and inserts (`confirming`).

**AdminAccess.** The guard of every route resolves a token to a row or claims one; both
end in saves that go `compare -> write` and overlay the columns in which the copy differs.
**Tags.** A removal is one transaction of three deletes; what it has deleted others still
see until it commits, and a carrier that takes the tag on meanwhile makes the foreign key
refuse the last delete, which undoes it all.
**CatalogImport.** `Up` is one transaction: the file over the tables, or nothing; `Down`
is its revert. Between and after, `Found` tours and a post's hero image are what
administrators may have put there.

## 3. Constants that switch hazards on

* `Exclusive` (`HotelBookings`, `HotelAccess`): requests about one booking or hotel
  do not overlap. This is *not* something the code guarantees. It separates what the
  code gets right when one person at a time uses it from what it gets right always,
  and both modules are run both ways, and the theorems say which they need.
* `Calm` (`Newsletter`, `Proposals`): the addresses or proposals whose requests do
  not overlap (and, for an address, do not fail); all others overlap freely. Some
  properties speak of the calm ones only, so one run shows both sides.
* `alone` (`TourOrder`, `TourPublication`): the same distinction, made request by
  request in a history variable. `calm` (`MediaLibrary`, `BlogPublication`,
  `EventSchedule`, `AdminAccess`, `TourWidget`) is it for a whole behaviour: no request has met another
  so far. In `BlogPublication` ending half way counts too, and `unseen` adds that no
  view has counted between the load of a copy and its comparison; in `AdminAccess`
  requests that only stamp a login may meet one another. `settled` (`TourPublication`) builds on it: nothing has
  overlapped, and no update has broken off, since an update that had no company.
* `Repricing` (`HotelBookings`): tours and grants change while requests run.
* `MaxFaults` (`HotelAccess`): how often a process dies between two steps or an answer
  of the provider is lost. The properties about agreement of the two systems speak of
  the time before the first fault; those about what a finished operation has done hold
  after it too.

## 4. Runs

| Run | Instance | What it shows |
| --- | --- | --- |
| `bookings_orderly` | 1 booking, 3 lines, 2 requests that do not overlap on it, a charge, repricing, history of 5 (181,512 states) | the total is the sum of the lines, the history is linked and complete, an invoice freezes the money, and the bookings implement `BookingLedger` |
| `access_orderly` | 2 hotels, 2 users, 2 accounts, 2 names, 1 address, 2 attempts, 2 requests that do not overlap on a hotel, 1 fault (1.0 million states) | no account and no reservation is orphaned and disabled means blocked; release is complete, archive gives everything up; a disabled user stays out |
| `partners_racing` | requests that overlap. Bookings: 1, 2 lines, 2 requests, repricing, history of 4; creations: 3 bookings, a padding that ends at 1; access: 1 hotel, 1 user, 2 accounts, 2 names of which others may hold one, 2 requests, 1 fault (2.4 million states) | stamps in the order of the life cycle, the tour's own line and a total of lines that were added, the last status logged and the permission of every logged move survive every race; references are numbered without gap or repetition up to the one that ends them; the names on both sides agree, and active means signed in, whatever stale copy is saved |
| `bookings_race_total` | 1 booking, 3 lines, 2 requests that overlap, a charge and a discount | finding 1 |
| `access_names` | 3 names, 3 attempts | finding 2 |
| `website` | newsletter: 2 addresses, one calm, 4 token pairs, 2 requests; limiter: 2 clients, limit 2, window 3, 6 instants, 4 answers, restarts; proposals: 2, one calm, 2 versions, 2 requests; fair | stamps agree with the status and every subscriber can leave, always; for the calm address leaving lasts and a pending confirmation is mailed; the window is exact within a process's life; of the calm proposal, what is mailed is an offer, and an empty publication ends |
| `tour_order` | 3 tours, 2 contents, places 0 and 1 and none, 2 requests (1.0 million states) | the numbers are 0..n-1 and an edit moves nobody, always; a request that has had no company does what it was asked, as `TourList` has it |
| `tour_publication` | 1 tour, 1 language, 2 stops, 2 routes, 1 schema, 3 payloads, 2 translations ever, 2 requests, failures anywhere (2.4 million states) | the stops are one list, always; a translation the back office calls public is public on the site, always; flags are right as long as nothing overlaps, and again after the next whole update |
| `events` | 1 event of three kinds, 2 patches, 2 instants, 1 guide, a day off and a weekly rule, 1 date, 2 requests; months of 8, 6 and 8 days of 3 minutes | the calendar is true and the picker agrees with the check, always; without overlap an assigned guide is free and a cancellation stays |
| `events_past_midnight` | the same with a day off on the day a date ends on | finding 3 |
| `backoffice` | library: 2 media, one a video; blog: 2 languages, 2 translations ever, 1 view; readers: 2 viewers, window 1, 3 instants, 2 translations; administrators: 2 rows, 2 addresses, 3 tokens; tags: 2 keys, 2 languages; 2 requests each; calendar: January to March, 146 events, pages of 4, 62 and 173 ticks; import: 6 files, 2 tours found; widget: both providers, 11 bodies, 1 language, 1 product (1.3 million states) | content, covers and objects; the date, the views and their windows; entry and decisions of administrators; pages without gaps or repetitions; whole removals; whole imports; whole widgets |
| `widget_omissions` | 1 tour, 2 languages, 1 request, 3 bodies | finding 4 |

Why the bounds are enough. The races are between *two* requests on *one* row: each
has at most four steps, so two slots cover every pairwise interleaving; a third
request slot adds nothing the properties compare. Three lines are the tour's own and
two extras, enough for a sum to leave one out and for one to be added while another is
removed; where no property is about amounts, the tour's line and one extra do. A history
of five is the whole life cycle, and of four is two decisions taken of one reading and
what follows them. Three bookings with a padding that ends at 1 are the last reference that
is padded, the first that is not, and the one that is refused from then on; that the
names others hold are not all is what lets a request find a free one. Three
tours are the least of which one can be moved past another while the third stays,
and the least between which a gap could open; places 0 and 1 and none are the first,
a middle and the end. Two routes that share a stop at different places, and a
description let one update's stops meet another's; the payloads are one that becomes
ready and unready with the route, a draft and one the schema refuses; the second
translation is needed for an insert that meets another. In that instance the columns
the public page needs are unset at first and, once set, stay set; both services
judge them alike. Two names and two attempts are one refusal and one retry; the run
about the third attempt has three names. Limit 2 in a window of 3 has windows that
slide by less than their length, and refusals between. A window of 1 among three
instants has views inside it, at its edge and past it, and two readers of one viewer
settle in either order. An image and a video are enough for a cover that is refused and
one that loses its attachment. The events of `events` are one that happens once, with a
fraction of a minute, one every second week on two weekdays, and one on the eighth of
its month, which the six-day month has not, past midnight; five dates fill an expansion.
Those of the calendar begin at the edges of a day, a week and a month and take every
frequency with intervals 1 to 3, with and without an end, under a limit of 20 dates per
page. The files of the import are the valid one, one with a second tour, one with a
schema of its own, and three that break off: a stop named twice, a cover not attached, a
text the schema refuses. The bodies of the widget name each field with and without the
others; the accounts are whole, half, unknown to the provider and blank.

Every bound on a counter is named (`MaxLog`, `MaxIssued`, `MaxTime`, `MaxAnswers`,
`MaxOrder`, `MaxRows`, `Attempts`, `MaxFaults`, `LastPlace`, `RefLimit`, `MaxDates`,
`MaxIds`, `MaxViews`, `Worked`, `Taken`, `MaxClock`, `MaxPosts`, `MaxAdmins`;
`MaxExpanded` is the code's own limit of 366) and stands in a guard or a type. Deadlock is
not checked because nobody is obliged to send a request and ids run out.

## 5. Fairness

`FairSpec` of `Website`, the specification its run checks, asks weak fairness of
`Continue(r)` of the newsletter and of the proposals for each request slot: the event loop
resumes a pending `await` when the database or the provider answers. No fairness is asked
of a request being sent, of a person following a link, or of a fault. The liveness
properties speak of `Calm` addresses and proposals: a process that dies does not resume,
and the code has no retry for it; a mail that fails leaves its row pending until someone
subscribes again.

## 6. Proofs

Every theorem holds for all values of the constants the assumptions allow, of any number:
addresses, tours, media, requests in flight. The assumptions stand in the modules that
declare the constants (the parts' assumptions are conjoined in those of `Website`,
`Backoffice` and `Partners`) and say three things only: numbers are numbers, what is sent
or found has the columns it has in the code (of the calendar's events, that they begin
within the months there are), and a null or a missing row is none of the values it stands
beside. `Radix` is at least 3, and ten in the code: in base two the number after a padding
of one digit would sort after it. TLC has checked each inductive invariant on the instance
of the module's run before it was proved.

Where a theorem needs requests that do not overlap, it says so in one of three ways, as
the properties do: by the constant `Exclusive`, by the sets of calm addresses and
proposals, or by the history variables `alone` and `calm`. The code guarantees none of
them; everything else is proved whatever overlaps.

### Bookings (`HotelBookingsProofs`)

| Theorem | Says | Needs |
| --- | --- | --- |
| `TypeCorrect` | `TypeOK` and that requests work on rows that exist | - |
| `MilestonesCorrect` | `RequestKnowledge` and `MilestonesInOrder` | `TypeCorrect` |
| `StatusLogged` | `StatusIsLastLogged` | `TypeCorrect` |
| `HistoryPermitted` | `LogFollowsTable` | `MilestonesCorrect` |
| `HistoryTrue` | `HistoryIsTrue`, the two together | the two |
| `TourLinesStand` | `TourLineStands` | `MilestonesCorrect` |
| `BillsAreSound` | `BillIsSound` | `TourLinesStand` |
| `ReferencesAreInSequence` | `ReferencesInSequence` | `TypeCorrect` |
| `ReferencesFresh` | `ReferenceIsFresh` | `TypeCorrect` |
| `ReadingsCurrent` | `ReadingIsCurrent` | `TypeCorrect` |
| `TotalsAddUp` | `Exclusive => []TotalIsSum` | `ReadingsCurrent` |
| `TerminalStatusesStay` | `Exclusive => TerminalIsFinal` | `ReadingsCurrent` |
| `InvoicesStand` | `Exclusive => InvoicedMoneyIsFrozen` | `ReadingsCurrent` |
| `LedgerImplemented` | `Exclusive => ImplementsLedger` | `ReadingsCurrent` |
| `HistoriesAreWhole` | `Exclusive => []HistoryIsWhole` | `ReadingsCurrent`, `StatusLogged` |

What races cannot break is what a request *knows* for good.
`RequestKnowledge` says which of the facts it checked stay true until it writes: the
booking exists, the transition was allowed to its actor, the status it left had been
reached (its stamp stays), the line it edits is an extra one, the tour's line is among
those it sums. None of these can be taken away by another request, so
`RequestKnowledge` is inductive, and `MilestonesInOrder` and `LogFollowsTable` follow
from it at each commit. What exclusiveness adds is `ReadingIsCurrent`: the status and
the lines a request read are still those of the booking. It is the inductive
invariant of the second half: with it, each commit is one step of `BookingLedger`
(`StageOf` gives the stage before and after), total and freeze included.

References race too: two creations may be about to insert one number, and the unique index
refuses the second. `SequenceInv` says that the numbers in use are 1 to some last one and
that a number a request has been handed is one of them or the next, of which the index
lets in only the next. What it needs of the text is `SortKeyGrows`, that references sort
as their numbers do up to the padding, and that the first one past the padding sorts below
the last padded one, so that the sequence ends there. `ReferencesFresh` adds that a
request is never handed a number in use at that moment.

`TourLinesStand` needs that a total is an amount, never no price, and so that a sum of
amounts is an integer. The sum is a fold, defined by choice of a function on the subsets
of the lines, of which the prover knows nothing until the function is shown to exist:
`SumsAreIntegers` does both by induction over the size of the subset, as the absence of a
least counterexample. How far can a raced total be off? `BillsAreSound` answers that it is
the tour's amount and some of the extra lines ever added, none counted twice. Its
inductive invariant says the same of the lines each open edit has seen (`SumsAreKnown`),
its own addition included: lines are only ever added with an entry of the history, which
is never taken back (`AddedLinesGrow`, `KnownLinesPersist`), and the tour's line stays.
`HistoriesAreWhole` keeps a balance (`Balanced`): of every extra line the history tells as
many removals as additions, and one addition more while the booking has it; and each move
starts at the status the one before ended with (`Linked`).

### Access users (`HotelAccessProofs`)

| Theorem | Says | Needs |
| --- | --- | --- |
| `RowsAreTruthful` | `RowsTellTheTruth` | `HonestInv` |
| `AccountsAreOwned` | `AccountsHaveOneOwner` | `HonestInv`, `OwnedInv` |
| `OtherHotelsStay` | `OtherHotelsAreLeftAlone` | `HonestInv`, `OwnedInv` |
| `DisabledUsersStayOut` | `Exclusive => DisabledStaysOut` | `OrderInv` |
| `ReleasesAreComplete` | `Exclusive => ReleaseIsComplete` | `OrderInv` |
| `SystemsStayInAgreement` | `Exclusive => []SystemsAgree` | `AgreeInv` |

Four inductive invariants. The first two need no exclusiveness. `HonestInv` is about
stale copies: what a row *or a copy of it* says can be out of date but not false, since
a sign-in has happened for good and an account keeps the username and address it was
given out with until it is deleted. `OwnedInv` is about who has an account: all that
*claim* one, be it the row that points at it or a request that is about to record, block
or delete it, claim it for one user of one hotel. A claim can only be passed on from a
row to the request that reads it and from the request to the row it saves, and the
provider gives out an account that nobody claims (`UnusedIsUnclaimed`), so no stale copy
makes a second owner, and no step touches the account of another hotel's user.
`OrderInv`, on top of `HonestInv`, adds what exclusiveness gives: a request works on a
row nobody else touches, and its copy differs from the row in no more than it is about
to write. `AgreeInv` says, until the first fault, where an account of the provider is
kept track of: by a row, or by the one request that is about to record or to delete it.
Deaths and lost answers are steps like all others; only the last theorem is about the
time before them.

### The two together (`HotelBookingsProofs`)

| Theorem | Says |
| --- | --- |
| `PartnersImplementBookings` | `PartnersSpec => Spec` of `HotelBookings` |
| `PartnersImplementAccess` | `PartnersSpec =>` the `Spec` of `HotelAccess` |
| `PartnersRowsAreTruthful` | `RowsTellTheTruth` of the composition |

A step of the composition is a step of one part and a stutter of the other, and the
initial states are initial states of both. So every theorem about a part with the same
constants holds of `Partners`: of the bookings as they stand, of the access users through
the instance `AccessFacts` of `HotelAccessProofs` (`SameAccess`). It is what the run
`partners_racing` checks, for any number of bookings, hotels and requests.

### Public site (`WebsiteProofs`)

| Theorem | Says |
| --- | --- |
| `TypeCorrect` | `TypeOK` |
| `LettersInOrder`, `StampsAlwaysAgree`, `SubscribersCanLeave`, `LeavingAlwaysSticks` | the invariant of the newsletter; `StampsAgree`, `SubscribedCanLeave`, `LeavingSticks` |
| `OffersInOrder`, `OffersSentStand` | the invariant of the proposals; `OnlyOffersAreSent` |
| `StoreInOrder`, `WindowsAreHonoured` | the invariant of the limiter; `WindowIsHonoured` |

Each save of a subscription writes a whole row read before, so `LettersInv` says of rows
and of the rows requests hold alike that stamps, token and status tell one story, and that
whoever is subscribed has been sent the link of *that* row. A calm address has at most
one request, whose copy is the row. The limiter's `StoreIsTrue` says that what it keeps of
a key are requests it let through, and all of those within the last window; what is older
is filtered out before the count, so the count is the property's own.

### Order of the tours (`TourOrderProofs`)

| Theorem | Says | Needs |
| --- | --- | --- |
| `TypeCorrect` | `TypeOK` and `NumbersFit` (proved only) | - |
| `OrderCorrect` | `OrderIsGapless` | `TypeCorrect` |
| `EditsStay` | `EditsKeepPlaces` | `TypeCorrect` |
| `ReadingsStand` | `AloneKnows`: what a request that has met no other has read is what is stored | `TypeCorrect` |
| `SavesAreAsAsked` | `SavesDoAsAsked`: its save is a step of `TourList` | `ReadingsStand`, `TypeCorrect` |

A renumbering works on a list that may be out of date, so what it
writes is a mixture of its own numbers and of newer ones, and no single write can be
said to leave a permutation. Two facts survive the mixing: the constraint keeps the
numbers distinct, and every number that any request carries is below the number of
tours there were when it was computed, which only grows (`FitsLarger`, `CommitFits`).
Distinct numbers below n, n of them, are 0..n-1 (`DistinctAndBounded`, by
cardinalities). The same fact makes a stale edit harmless: the number it writes is
taken, by the tour itself or by another one, and then the constraint refuses it.
`NumbersFit` is the inductive invariant; it adds to the two facts that no request
knows a tour the catalogue has lost, and that an edit carries one tour only.

That a lone save is a step of `TourList` needs the gapless numbers once more. Without a gap
the k-th tour of the list is the one numbered k (`ListingPlaces`), and as many others
come before a tour as its number says, or one fewer if the tour taken out did too
(`CountBelow`, `RankOf`); so the numbers a renumbering hands out are the places of the list
with the tour put in (`Inserted`, `Removed`, `RenumberedIsInserted`). The copies of the other
tours carry their contents as they are stored, and a save whose second reading is
current stores its copies (`LoneResult`).

### Publication of a tour (`TourPublicationProofs`)

| Theorem | Says |
| --- | --- |
| `ListsInOrder`, `StopsStayOneList` | the invariant of the stops; `StopsAreOneList` |
| `FlagsInOrder`, `FlagsStayCurrent` | the invariant of the flags; `FlagsAreCurrent` |

The stops are at every moment none or the rows of one list. An update deletes what it
has read and inserts its own list; if rows of another list have appeared, both lists
have a first place, and the unique pair of tour and place refuses the second
(`ListsMeet`). For the flags, a request that has met no other knows that the flags of its
copies are right, or that they are when it has written, and that nothing is left to
correct when it is through.

### Events (`EventScheduleProofs`)

| Theorem | Says |
| --- | --- |
| `OneDateADay` | a date of a rule is what the rule yields in that date's own day, and all it yields there |
| `DatesInOrder`, `CalendarStaysTrue` | each date is in the table once; `CalendarIsTrue` |
| `PickerAlwaysAgrees` | `PickerAgrees` |
| `ReadingsAreCurrent`, `GuidesStayFree`, `CancellationsStick` | what a lone request read is what is stored; `GuidesAreFree`, `CancellationSticks` |

The calendar expands a rule over the window shown, `confirmOccurrence` over one day. They agree
because an expansion has at most one date in a day whatever the window, which is
arithmetic: instants of different days differ in their quotients (`Divided`,
`Remainders`, `DaysApart`), and a date is its day and the time of the start. The same
division turns an interval of instants into the minutes of a day for the days off.

### Back office (`BackofficeProofs`)

| Part | Invariant | Properties |
| --- | --- | --- |
| media library | `LibraryInOrder` | `ObjectsAreFound` (`NoObjectIsLost`), `ShownStaysWhole` (`ShownHasContent`), `CoversStayAttached` (`CoverIsAttached`) |
| tags | `TagsInOrder` | `RemovalsAreWhole` (`RemovalIsWhole`) |
| booking widget | `WidgetInOrder` | `WidgetsAreSound` (`WidgetIsSound`) |
| readers of a post | `ViewsInOrder` | `ViewersCountOnce` (`OncePerWindow`) |
| administrators | `AccessInOrder` | `EntriesAreEarned` (`EntryIsEarned`), `DecisionsAreKept` (`DecisionsStand`) |
| import | - | `CatalogsComeWhole` (`CatalogComesWhole`) |
| blog | `BlogInOrder` | `DatesAgree` (`DateAgrees`), `ViewsAreNotLost` (`ViewsAreKept`) |
| calendar | `PagesInOrder` | `PagesAreExact` (`PagingIsExact`) |

Each invariant has two halves. The first holds whatever meets: what the foreign keys
keep, which columns a save can write, that a removal has deleted the object before the
row, that a viewer's row has the time of the latest view that counted. The second begins
with `calm` and says what the one request in flight still knows of what it read: that nothing
refers to the medium it removes, that its copy is the row except in the columns it
writes, that the date agrees with the flags except between the change of a flag and the
end of its request.

The calendar looks through the months day by day and cuts a page off when it is full; the
property counts the dates out from the rule instead. The two agree in three steps. The
beginnings of the months are a recursive function, which is shown to exist and to
grow by the absence of a least month without one (`MonthStarts`, `MonthOrder`), so
each day has one month (`MonthOfDay`). The days that match a rule are its occurrences,
counted in its own unit (`Weeks`, `DaysAreCounted`, `RuleDaysAreOccurrences`). And a page that
is not full has left nothing out (`EarliestAreFirst`), so it is what is due between its
two ends (`PageIsScheduled`), and pages that meet are what is due up to the last one's end.

### What is not proved

Only proved, and no property of a run: `TerminalIsFinal`, which `ImplementsLedger`
includes; `ReferenceIsFresh`, beside which a run checks `ReferencesInSequence`;
`AccountsHaveOneOwner` and `OtherHotelsAreLeftAlone`, which TLC has found true of two
users of one hotel who race, with one fault; `NumbersFit`; `OneDateADay`; the
implementations of the parts by `Partners`; and the inductive invariants.

Only model-checked: `PendingIsMailed` and `EmptyOfferWithdrawn`. They are liveness, which,
like `ENABLED`, is out of the prover's reach. Of the four runs that end with a
counterexample nothing is proved: what they refute is false.

## 7. Where the code and its documentation disagree

Each is a run that TLC ends with a counterexample; `PROJECT.json` quotes the line
that promises otherwise.

1. `bookings_race_total`: two line edits at once leave a total that is not the sum.
2. `access_names`: the third attempt at a username is the first one again, when
   both candidates are taken at the provider.
3. `events_past_midnight`: a guide who is off on the day a date ends on is accepted
   for it, against the comment of `assertMembersAvailable`.
4. `widget_omissions`: switching a tour's widget on or off removes its provider, because
   a field that a request leaves out is still *in* the instance the handler is given.
   The unit tests pass plain objects, in which it is not. The same question is asked of
   the points of a tour, the product id of a translation (which `SetProduct` has), the
   tour and the description of an event, and the texts of a blog translation (an edit of
   `BlogPublication` leaves it ready or not, as the case may be).

Other properties hold only of requests that do not overlap, and the documentation
promises nothing more. To see what overlapping does to them, check them with
`Exclusive = FALSE`, or state them without `calm`, or of all addresses, proposals or
requests instead of the calm or lone ones:

* `HistoryIsWhole`, `InvoicedMoneyIsFrozen`: two status changes checked before either
  commits move a booking out of `cancelled`; a line edit checked before an invoice
  changes the invoiced amount.
* `DisabledStaysOut`, `ReleaseIsComplete`: a sign-in in flight, or a stale save, makes a
  disabled user active again; PATCH may set a hotel `archived` and keep its user.
* `SubscribedCanLeave` (its second part): confirming while a new request is saved puts
  the old tokens back.
* `OnlyOffersAreSent`: a version removed while its proposal is being published leaves
  the publication empty, and it can be mailed.
* `SavesDoAsAsked`: a move saves the tour as it was read before, so an edit in between
  is lost, and a renumbering may be refused.
* `FlagsAreCurrent`: a translation published with the tour as it was read, while an
  update replaces the stops, stays published unready; the next update of the tour
  corrects it, and until then the public site, which looks again, withholds it.
* `ShownHasContent`, `CoverIsAttached`: a medium attached after a removal counted its
  uses loses its object; a cover set while it is detached stays. Photos and the media of
  proposals are not counted even without overlap, so the first property leaves them out.
* `DateAgrees`: of a publication and an unpublication at once the date may be cleared
  although a translation is published. `ViewsAreKept`: an edit writes back the number
  of views it read if one counted before it compared.
* `GuidesAreFree`, `CancellationSticks`: a day off entered after the check, an event
  cancelled after it was read, or a date saved from an old copy.
* `WidgetIsSound` (its part about completeness): one update removes the widget, another
  sets a provider with its settings, and the row keeps the settings without the provider;
  from then on every update that leaves the booking out is refused with the widget's error.
* `SystemsAgree`: a hotel closed while its user is being created leaves an account that
  no row points at.
* `DecisionsStand`, `EntryIsEarned` (its second part): the stamp of a login writes the
  status of its copy back if another request had changed it before the comparison.

## 8. Not modelled, and why

* The HTTP layer (controllers' decorators, DTO validation, Swagger): no state. What
  a DTO admits appears as the values requests carry, and where a handler asks whether a
  field is there at all, so does what the ValidationPipe makes of it (`TourWidget`).
* Configuration, health, mail templates, S3 signing, the streaming of media: pure
  functions of their input or of the environment.
* The other migrations and the seeds run before the service does, on tables nobody
  else touches, and mostly reshape columns. The indexes and foreign keys they create
  are guards in the modules that meet them.
* Day notes (one text per day under a unique key), names and translations of team
  members and their order, the enabling of languages, the creation of a blog post and
  slugs: data written as it is given, whose conflicts the database refuses. A request
  refused so is one that aborts.
* The roles of administrators: which route a role opens is a table looked up once per
  request; the models assume a super administrator.
* The date at which a proposal expires. `sendToRecipient` mails an offer that the
  public read then calls expired; nothing in the repository says otherwise.
* Column widths and the clock of the database.

## 9. Plan

Every component with state of its own but day notes is modelled, and every safety property
a passing run checks is proved, with what the races leave standing of bills, references and
accounts. Left, in the order of what it would be worth:

* what overlap leaves standing elsewhere: how far a count of views may be off, and which
  publications a stale save can undo;
* `money.ts`, decimal text and minor units over bounded inputs: that parsing inverts
  printing. The models take amounts as integers in minor units;
* day notes, and the roles of administrators, once a route's effect depends on one.
