--------------------------- MODULE MCTourPublication ---------------------------
(* An instance of TourPublication for TLC. *)
EXTENDS TourPublication, TLC

CONSTANTS s1, s2, title, note

\* One schema, that requires a title and knows no note.
MCSchemas == { [known |-> {Lists, title}, required |-> {title}] }

\* Columns are set, of a company tour and of another; a new tour's are not.
MCConditions == [sound : {TRUE}, company : BOOLEAN]

\* One that lacks a stop; a draft; and one with a field the schema does not know.
MCPayloads == { {Lists, title, s1}, {s1, s2}, {Lists, note} }

MCRoutes == { <<s1>>, <<s2, s1>> }

Symmetry == Permutations(Requests)
=============================================================================
