---------------------------- MODULE CatalogImport ----------------------------
(***************************************************************************)
(* The migration that brings the tour catalogue into production:           *)
(* src/src/database/migrations/1710000000006-import-tour-catalog.ts.       *)
(*                                                                         *)
(* It writes over whatever the tables hold, in one transaction: all of the *)
(* file comes in, or a constraint refuses a row and nothing does.  Reverted *)
(* it takes the tours of the file back, and the media nothing else shows.  *)
(* Before, between and after, administrators work on the same tables.      *)
(*                                                                         *)
(* A slug stands for its tour, a storage path for its medium.  What a row  *)
(* holds besides what is modelled - names, prices, points - is overwritten *)
(* with it.  Files name each locale of a tour once.                        *)
(***************************************************************************)
EXTENDS Integers, FiniteSets, Sequences, SequencesExt

CONSTANTS
  Slugs, Stops, Tags, Media, Locales,
  Files,      \* files the migration may be deployed with
  Found,      \* tours as administrators may make them
  Languages,  \* the locales of the initial schema
  None        \* no tour, no medium, no translation, no stops

VARIABLES
  file,       \* the file of the last run, None before it
  tours,      \* tours with their stops, tags, media and translations
  media,      \* media_assets
  tags, languages,
  hero,       \* blog_posts.hero_media_id of a post that stands for all
  phase,      \* pending, imported or, once something else was written, applied
  refused     \* the database refused a row of the last run or revert

tables == <<tours, media, tags, languages, hero>>
vars == <<file, tables, phase, refused>>

-----------------------------------------------------------------------------
(* The file *)

\* The schemas a tour gets that brings none.
DescriptionSchema(payload) == payload.lists /\ payload.prose /\ payload.described = None
StopsSchema(payload) == payload.lists /\ ~payload.prose /\ payload.described # None

\* normalizeInput: a schema of its own may ask for nothing.
FitsSchema(tour, payload) ==
  IF tour.schema = "own" THEN TRUE
  ELSE IF tour.variant = "stops" THEN StopsSchema(payload)
  ELSE DescriptionSchema(payload)

ItemsOf(tour) == { tour.items[i] : i \in DOMAIN tour.items }

\* validateMigrationInput
IsValid(f) ==
  /\ f.tours # <<>>
  /\ \A i, j \in DOMAIN f.tours : f.tours[i].slug = f.tours[j].slug => i = j
  /\ \A i \in DOMAIN f.tours : LET tour == f.tours[i] IN
       /\ tour.tags \subseteq f.tags
       /\ tour.cover # None => \E item \in ItemsOf(tour) : item.medium = tour.cover
       /\ \A item \in ItemsOf(tour) : item.medium \in f.media
       /\ \A l \in DOMAIN tour.texts :
            l \in f.languages /\ FitsSchema(tour, tour.texts[l])

\* calculateTranslationReadiness
AnyStop(tour, payload) ==                                        \* mistake
  FitsSchema(tour, payload) /\ payload.lists
    /\ (tour.variant = "stops" => payload.described # None)
IsReady(tour, payload) ==
  /\ FitsSchema(tour, payload)
  /\ payload.lists
  /\ tour.variant = "stops" =>
       /\ payload.described # None
       /\ ToSet(tour.stops) \subseteq payload.described

-----------------------------------------------------------------------------
(* up *)

\* The row of a tour the file brings anew.
NewTour == [variant |-> None, stops |-> <<>>, tags |-> {}, items |-> <<>>, cover |-> None,
            texts |-> [l \in Locales |-> None]]

\* Stops and media of a tour are deleted before the file's are inserted.
Replaced(old, new) == new

\* What is left of the translations the tour had, and the file's, published when ready.
Translated(old, tour) ==
  [l \in Locales |->
     IF l \notin DOMAIN tour.texts THEN old[l]
     ELSE [described |-> tour.texts[l].described, ready |-> IsReady(tour, tour.texts[l]),
           published |-> IsReady(tour, tour.texts[l])]]

Imported(old, tour) ==
  [variant |-> tour.variant,
   stops |-> Replaced(old.stops, IF tour.variant = "stops" THEN tour.stops ELSE <<>>),
   tags |-> tour.tags,
   items |-> Replaced(old.items, tour.items),
   cover |-> tour.cover,
   texts |-> Translated(old.texts, tour)]

\* UQ_tour_stop_id, UQ_tour_media_attachment and UQ_tour_media_order
IsAccepted(row) ==
  /\ IsInjective(row.stops)
  /\ \A i, j \in DOMAIN row.items :
       row.items[i].medium = row.items[j].medium \/ row.items[i].at = row.items[j].at => i = j

\* What administrators make has the columns of a tour, and the keys hold for it as well.
CatalogAssumption ==
  /\ Languages \subseteq Locales /\ None \notin Media
  /\ \A f \in Files :
       f.languages \subseteq Locales /\ \A i \in DOMAIN f.tours : f.tours[i].slug \in Slugs
  /\ \A row \in Found :
       /\ DOMAIN row = DOMAIN NewTour /\ IsAccepted(row)
       /\ \A i \in DOMAIN row.items : row.items[i].medium \in Media

\* The tours with the file's written over them.
Rewritten(f) ==
  [s \in Slugs |->
     IF \E i \in DOMAIN f.tours : f.tours[i].slug = s
     THEN LET i == CHOOSE i \in DOMAIN f.tours : f.tours[i].slug = s IN
          Imported(IF tours[s] = None THEN NewTour ELSE tours[s], f.tours[i])
     ELSE tours[s]]

Up(f) ==
  /\ phase = "pending"
  /\ IsValid(f)
  /\ file' = f
  /\ IF \A s \in Slugs : Rewritten(f)[s] # None => IsAccepted(Rewritten(f)[s])
     THEN /\ languages' = languages \cup f.languages
          /\ tags' = tags \cup f.tags
          /\ media' = media \cup f.media
          /\ tours' = Rewritten(f)
          /\ phase' = "imported" /\ refused' = FALSE
          /\ UNCHANGED hero
     ELSE refused' = TRUE /\ UNCHANGED <<tables, phase>>

-----------------------------------------------------------------------------
(* down *)

MediaOf(row) == { row.items[i].medium : i \in DOMAIN row.items } \cup {row.cover}

\* What the given tours and the post refer to, which the foreign keys keep.
Referred(left) ==
  {hero} \cup UNION { MediaOf(left[s]) : s \in { t \in Slugs : left[t] # None } }

\* What down looks for before it deletes a medium.
Spared(left) == Referred(left)

Down ==
  /\ phase \in {"imported", "applied"}
  /\ LET left == [s \in Slugs |->
                    IF \E i \in DOMAIN file.tours : file.tours[i].slug = s
                    THEN None ELSE tours[s]]
         gone == file.media \ Spared(left) IN
     IF gone \cap Referred(left) = {}
     THEN /\ tours' = left
          /\ media' = media \ gone
          /\ phase' = "pending" /\ refused' = FALSE
          /\ UNCHANGED <<tags, languages, hero>>
     ELSE refused' = TRUE /\ UNCHANGED <<tables, phase>>
  /\ UNCHANGED file

-----------------------------------------------------------------------------
(* Administrators at work on the same tables *)

Work ==
  /\ phase' = (IF phase = "imported" THEN "applied" ELSE phase)
  /\ UNCHANGED <<file, refused, languages>>

\* A tour is made, or made into another, by however many requests.  None removes one.
EditTour(s, row) ==
  /\ row.tags \subseteq tags
  /\ MediaOf(row) \subseteq media \cup {None}
  /\ tours' = [tours EXCEPT ![s] = row]
  /\ Work
  /\ UNCHANGED <<media, tags, hero>>

SetHero(m) ==
  /\ m \in media
  /\ hero' = m
  /\ Work
  /\ UNCHANGED <<tours, media, tags>>

ClearHero ==
  /\ hero # None
  /\ hero' = None
  /\ Work
  /\ UNCHANGED <<tours, media, tags>>

Upload(m) ==
  /\ m \notin media
  /\ media' = media \cup {m}
  /\ Work
  /\ UNCHANGED <<tours, tags, hero>>

RemoveMedium(m) ==
  /\ m \in media \ Referred(tours)
  /\ media' = media \ {m}
  /\ Work
  /\ UNCHANGED <<tours, tags, hero>>

CreateTag(k) ==
  /\ k \notin tags
  /\ tags' = tags \cup {k}
  /\ Work
  /\ UNCHANGED <<tours, media, hero>>

RemoveTag(k) ==
  /\ k \in tags
  /\ tags' = tags \ {k}
  /\ tours' = [s \in Slugs |->
                 IF tours[s] = None THEN None ELSE [tours[s] EXCEPT !.tags = @ \ {k}]]
  /\ Work
  /\ UNCHANGED <<media, hero>>

Init ==
  /\ file = None
  /\ tours = [s \in Slugs |-> None]
  /\ media = {} /\ tags = {} /\ languages = Languages
  /\ hero = None
  /\ phase = "pending" /\ refused = FALSE

Next ==
  \/ \E f \in Files : Up(f)
  \/ Down
  \/ \E s \in Slugs, row \in Found : EditTour(s, row)
  \/ \E m \in Media : SetHero(m) \/ Upload(m) \/ RemoveMedium(m)
  \/ ClearHero
  \/ \E k \in Tags : CreateTag(k) \/ RemoveTag(k)

Spec == Init /\ [][Next]_vars

-----------------------------------------------------------------------------
(* Properties *)

\* A file that names no stop, medium or position of a tour twice.
NamesEachOnce ==
  \A i \in DOMAIN file.tours : IsAccepted(file.tours[i])

\* Whatever the tables hold when it runs or is reverted, the database refuses such a file
\* neither way; and the translations it has published tell of every stop their tour has.
CatalogComesWhole ==
  /\ refused => ~NamesEachOnce
  /\ phase = "imported" =>
       \A i \in DOMAIN file.tours : \A l \in DOMAIN file.tours[i].texts :
         LET row == tours[file.tours[i].slug] IN
         row.texts[l].published /\ row.variant = "stops" =>
           row.texts[l].described # None /\ ToSet(row.stops) \subseteq row.texts[l].described
==============================================================================
