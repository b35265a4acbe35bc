------------------------------ MODULE Backoffice ------------------------------
(***************************************************************************)
(* The parts of the program that administrators keep, side by side: the    *)
(* media library, the blog and its readers, the tags of tours and posts,   *)
(* the booking widget of a tour, the administrators themselves, the pages  *)
(* of a calendar, and the catalogue a deployment brings into the tables    *)
(* they work on.                                                           *)
(*                                                                         *)
(* The parts share no variable, so that what one does is the same whatever *)
(* the others do meanwhile: a behaviour moves one of them, chosen at the   *)
(* start, while the others stay as they began.  A tour that stays has no   *)
(* product to sell, so as not to start each of the others several times.   *)
(***************************************************************************)
EXTENDS Integers, Sequences

CONSTANTS
  Requests,                                           \* slots for requests in flight, of any part
  Media, Videos, None,                                \* of MediaLibrary
  Locales, MaxIds, MaxViews, NoRow,                   \* of BlogPublication
  Viewers, Window, MaxClock, MaxPosts,                \* of BlogViews
  Emails, Identities, HotelIdentities, Tokens,
  MaxAdmins, NoIdentity,                              \* of AdminAccess
  Day, Minute, Second, FirstWeekday, MonthLengths, MaxExpanded, NoRule, NoEnd,
  Events, Pages, NoEvent,                             \* of CalendarPaging
  Keys, Codes, Languages,                             \* of Tags
  Slugs, Stops, Files, Found,                         \* of CatalogImport
  Products, Sent, Spaces, Null, Undefined              \* of TourWidget

VARIABLES
  focus,
  mediaRows, objects, used, attached, cover, hero, offered, photo,
  mediaRequests, mediaCalm, broken,
  translations, isDated, blogRequests, ids, counted, blogCalm, unseen,
  clock, post, viewed, readers, settled,
  admins, adminRequests, adminCalm,
  row, next, listed, isFull,
  languages, labels, carried, tagRequests,
  file, tours, catalogMedia, catalogTags, catalogLanguages, catalogHero, phase, refused,
  widget, products, widgetRequests, widgetCalm

libraryVars == <<mediaRows, objects, used, attached, cover, hero, offered, photo,
                 mediaRequests, mediaCalm, broken>>
blogVars == <<translations, isDated, blogRequests, ids, counted, blogCalm, unseen>>
viewsVars == <<clock, post, viewed, readers, settled>>
accessVars == <<admins, adminRequests, adminCalm>>
calendarVars == <<row, next, listed, isFull>>
tagVars == <<languages, labels, carried, tagRequests>>
catalogVars == <<file, tours, catalogMedia, catalogTags, catalogLanguages, catalogHero,
                 phase, refused>>
widgetVars == <<widget, products, widgetRequests, widgetCalm>>
vars == <<focus, libraryVars, blogVars, viewsVars, accessVars, calendarVars, tagVars,
          catalogVars, widgetVars>>

Library == INSTANCE MediaLibrary WITH
  rows <- mediaRows, requests <- mediaRequests, calm <- mediaCalm
Blog == INSTANCE BlogPublication WITH requests <- blogRequests, calm <- blogCalm
Views == INSTANCE BlogViews WITH Readers <- Requests
Access == INSTANCE AdminAccess WITH requests <- adminRequests, calm <- adminCalm
Calendar == INSTANCE CalendarPaging WITH Rows <- Events
Tagging == INSTANCE Tags WITH
  Locales <- Codes, NoTag <- NoRow, requests <- tagRequests
Catalog == INSTANCE CatalogImport WITH
  Tags <- Keys, Locales <- Codes, media <- catalogMedia, tags <- catalogTags, languages <- catalogLanguages,
  hero <- catalogHero
Widget == INSTANCE TourWidget WITH
  Locales <- Languages, requests <- widgetRequests, calm <- widgetCalm

ASSUME BackofficeAssumption ==
  /\ Library!MediaAssumption /\ Blog!BlogAssumption /\ Views!ViewsAssumption
  /\ Access!AdminAssumption /\ Calendar!RecurrenceAssumption /\ Calendar!PagingAssumption
  /\ Tagging!TagsAssumption /\ Catalog!CatalogAssumption
  /\ Widget!WidgetAssumption

Init ==
  /\ focus \in {"library", "blog", "views", "access", "calendar", "tag", "catalog", "widget"}
  /\ Library!Init /\ Blog!Init /\ Views!Init /\ Access!Init
  /\ Calendar!Init /\ Tagging!Init /\ Catalog!Init /\ Widget!Init
  /\ focus = "widget" \/ \A l \in Languages : products[l] = NoRow

Next ==
  \/ /\ focus = "library" /\ Library!Next
     /\ UNCHANGED <<focus, blogVars, viewsVars, accessVars, calendarVars, tagVars,
                    catalogVars, widgetVars>>
  \/ /\ focus = "blog" /\ Blog!Next
     /\ UNCHANGED <<focus, libraryVars, viewsVars, accessVars, calendarVars, tagVars,
                    catalogVars, widgetVars>>
  \/ /\ focus = "views" /\ Views!Next
     /\ UNCHANGED <<focus, libraryVars, blogVars, accessVars, calendarVars, tagVars,
                    catalogVars, widgetVars>>
  \/ /\ focus = "access" /\ Access!Next
     /\ UNCHANGED <<focus, libraryVars, blogVars, viewsVars, calendarVars, tagVars,
                    catalogVars, widgetVars>>
  \/ /\ focus = "calendar" /\ Calendar!Next
     /\ UNCHANGED <<focus, libraryVars, blogVars, viewsVars, accessVars, tagVars,
                    catalogVars, widgetVars>>
  \/ /\ focus = "tag" /\ Tagging!Next
     /\ UNCHANGED <<focus, libraryVars, blogVars, viewsVars, accessVars, calendarVars,
                    catalogVars, widgetVars>>
  \/ /\ focus = "catalog" /\ Catalog!Next
     /\ UNCHANGED <<focus, libraryVars, blogVars, viewsVars, accessVars, calendarVars,
                    tagVars, widgetVars>>
  \/ /\ focus = "widget" /\ Widget!Next
     /\ UNCHANGED <<focus, libraryVars, blogVars, viewsVars, accessVars, calendarVars,
                    tagVars, catalogVars>>

Spec == Init /\ [][Next]_vars

-----------------------------------------------------------------------------
(* The properties of the parts *)

\* MediaLibrary
ShownHasContent == Library!ShownHasContent
CoverIsAttached == Library!CoverIsAttached
NoObjectIsLost == Library!NoObjectIsLost

\* BlogPublication
DateAgrees == Blog!DateAgrees
ViewsAreKept == Blog!ViewsAreKept

\* BlogViews
OncePerWindow == Views!OncePerWindow

\* AdminAccess
DecisionsStand == Access!DecisionsStand
EntryIsEarned == Access!EntryIsEarned

\* CalendarPaging
PagingIsExact == Calendar!PagingIsExact

\* Tags
RemovalIsWhole == Tagging!RemovalIsWhole

\* CatalogImport
CatalogComesWhole == Catalog!CatalogComesWhole

\* TourWidget
WidgetIsSound == Widget!WidgetIsSound
=============================================================================
