------------------------------ MODULE TourWidget ------------------------------
(***************************************************************************)
(* The booking widget of one tour: the provider, the switch and the        *)
(* settings on its row, the product ids on its translations, and what the  *)
(* public page embeds of them.                                             *)
(*                                                                         *)
(* A request names the fields of the widget it changes.  What the handler  *)
(* is given is an instance of the request's class, in which every field    *)
(* the class declares is present, those left out as undefined: main.ts     *)
(* transforms, and the compiler's target defines fields.                   *)
(*                                                                         *)
(* The save of the row is two statements, which overlapping updates        *)
(* divide.  A translation is saved in one step: what a stale save puts     *)
(* back of its product id is a value another request may send as well.     *)
(***************************************************************************)
EXTENDS Naturals, FiniteSets, Functions

CONSTANTS
  Locales,   \* languages of the tour's translations
  Products,  \* product ids of a provider
  Sent,      \* widgets requests send: functions on some of the fields
  Spaces,    \* a text without a visible character
  Null, Undefined,
  NoRow,     \* no translation
  Requests   \* slots for requests in flight

Providers == {"turitop", "understory"}

\* TOUR_BOOKING_PROVIDER_RULES
SettingKeys(p) == IF p = "understory" THEN {"companyId", "storefrontId"} ELSE {}
UsesProductId(p) == p = "turitop"

Fields == {"provider", "enabled", "settings"}

WidgetAssumption ==
  /\ Spaces \notin Products /\ Null \notin Products \cup Providers
  /\ \A sent \in Sent :
       /\ DOMAIN sent \subseteq Fields
       /\ "provider" \in DOMAIN sent => sent.provider \in Providers \cup {Null}
       /\ "enabled" \in DOMAIN sent => sent.enabled \in BOOLEAN \cup {Null}

VARIABLES
  widget,     \* booking columns of the row
  products,   \* product id of each translation
  requests,   \* requests in flight
  calm        \* no two updates have overlapped (history)

vars == <<widget, products, requests, calm>>

Idle == [pc |-> "idle"]
NoSettings == <<>>
NoWidget == [provider |-> Null, enabled |-> FALSE, settings |-> NoSettings]
ProductIds == Products \cup {Spaces, Null}

\* The migration that added the columns switched Turitop on wherever a translation had a product.
Init ==
  /\ products \in [Locales -> ProductIds \cup {NoRow}]
  /\ widget = IF \E l \in Locales : products[l] \in Products
              THEN [NoWidget EXCEPT !.provider = "turitop", !.enabled = TRUE] ELSE NoWidget
  /\ requests = [r \in Requests |-> Idle]
  /\ calm = TRUE

-----------------------------------------------------------------------------
(* resolveBooking *)

Received(sent) == [f \in Fields |-> IF f \in DOMAIN sent THEN sent[f] ELSE Undefined]

Or(value, default) == IF value \in {Null, Undefined} THEN default ELSE value

Resolved(sent, now) ==
  LET dto == Received(sent)
      provider == IF "provider" \in DOMAIN dto THEN Or(dto.provider, Null) ELSE now.provider
      kept == IF provider = now.provider THEN now.settings ELSE NoSettings
  IN [provider |-> provider, enabled |-> Or(dto.enabled, now.enabled),
      settings |-> Or(dto.settings, kept)]

\* The provider takes these settings, and has all it needs once it is enabled.
SentOnly(w, now) ==   \* mistake
  w.settings # now.settings => DOMAIN w.settings = SettingKeys(w.provider)
IsAcceptable(w, now) ==
  /\ w.enabled => w.provider # Null
  /\ DOMAIN w.settings \subseteq SettingKeys(w.provider)
  /\ Spaces \notin Range(w.settings)
  /\ w.enabled => DOMAIN w.settings = SettingKeys(w.provider)

-----------------------------------------------------------------------------
(* Updates of the tour *)

Quiet == \A r \in Requests : requests[r] = Idle

Go(r, q) == requests' = [requests EXCEPT ![r] = q]

\* The row is read, and a copy of it changed.
StartSave(r, copy, omitted) ==
  /\ requests[r] = Idle
  /\ Go(r, [pc |-> "compare", copy |-> copy, omitted |-> omitted])
  /\ calm' = (calm /\ Quiet)
  /\ UNCHANGED <<widget, products>>

SetWidget(r, sent) ==
  LET copy == Resolved(sent, widget) IN
  /\ IsAcceptable(copy, widget)
  /\ StartSave(r, copy, Fields \ DOMAIN sent)

\* The settings that are stored are validated even if the request is about something else.
SetNothing(r) == IsAcceptable(widget, widget) /\ StartSave(r, widget, Fields)

RemoveWidget(r) == StartSave(r, NoWidget, {})

\* persistOrderedTours saves the tours it moves as they were read.
Renumber(r) == StartSave(r, widget, Fields)

\* save reads the row again,
Compare(r) ==
  LET q == requests[r]
      changed == { f \in Fields : q.copy[f] # widget[f] }
  IN
  /\ q.pc = "compare"
  /\ Go(r, [pc |-> "write", columns |-> Restrict(q.copy, changed), omitted |-> q.omitted])
  /\ UNCHANGED <<widget, products, calm>>

\* and writes the columns that differ.  A widget that is enabled has a provider, or the table
\* refuses it.
Overlay(columns) ==
  [f \in Fields |-> IF f \in DOMAIN columns THEN columns[f] ELSE widget[f]]

Write(r) ==
  LET q == requests[r] IN
  /\ q.pc = "write"
  /\ widget' = Overlay(q.columns)
  /\ widget'.enabled => widget'.provider # Null
  /\ Go(r, Idle)
  /\ UNCHANGED <<products, calm>>

\* A request dies, or is refused.
Abort(r) ==
  /\ requests[r] # Idle
  /\ Go(r, Idle)
  /\ UNCHANGED <<widget, products, calm>>

-----------------------------------------------------------------------------
(* Translations *)

\* createTranslation, updateTranslation, publishTranslation: a product left out is none.
SetProduct(l, product) ==
  /\ products' = [products EXCEPT ![l] = product]
  /\ UNCHANGED <<widget, requests, calm>>

\* deleteTranslation
DeleteTranslation(l) ==
  /\ products[l] # NoRow
  /\ products' = [products EXCEPT ![l] = NoRow]
  /\ UNCHANGED <<widget, requests, calm>>

UpdateStep(r) ==
  \/ \E sent \in Sent : SetWidget(r, sent)
  \/ SetNothing(r) \/ RemoveWidget(r) \/ Renumber(r)
  \/ Compare(r) \/ Write(r) \/ Abort(r)

TranslationStep(l) == DeleteTranslation(l) \/ \E product \in ProductIds : SetProduct(l, product)

Next == (\E r \in Requests : UpdateStep(r)) \/ (\E l \in Locales : TranslationStep(l))

Spec == Init /\ [][Next]_vars

-----------------------------------------------------------------------------
(* The public page *)

\* toPublicBooking: what the page in one language embeds; Null is the request form.
PublicBooking(l) ==
  LET product == IF UsesProductId(widget.provider) /\ products[l] # Spaces
                 THEN products[l] ELSE Null IN
  IF widget.enabled /\ (UsesProductId(widget.provider) => product # Null)
  THEN [provider |-> widget.provider, product |-> product, settings |-> widget.settings]
  ELSE Null

-----------------------------------------------------------------------------
(* Properties *)

\* What a page embeds is a widget of a provider, with a product where the provider uses one.
\* As long as updates do not overlap, whatever widgets were switched, edited, disabled and
\* enabled before, it also has all its provider needs and nothing of another provider, and an
\* update about something else is not refused for the widget (resolveBooking,
\* validateBookingSettings, toPublicBooking).
WidgetIsSound ==
  /\ \A l \in Locales : products[l] # NoRow /\ PublicBooking(l) # Null =>
       LET shown == PublicBooking(l) IN
       /\ shown.provider \in Providers
       /\ UsesProductId(shown.provider) <=> shown.product \in Products
       /\ calm => DOMAIN shown.settings = SettingKeys(shown.provider)
  /\ calm => IsAcceptable(widget, widget)

\* An update changes only what it names: a provider it leaves out stays, and so do the settings
\* unless the provider changes (docs/admin-frontend-api.md).
OmittedFieldsAreKept ==
  [][\A r \in Requests :
       calm /\ requests[r].pc = "write" /\ requests'[r] = Idle =>
         LET omitted == requests[r].omitted IN
         /\ "provider" \in omitted => widget'.provider = widget.provider
         /\ "settings" \in omitted /\ widget'.provider = widget.provider =>
              widget'.settings = widget.settings]_vars
=============================================================================
