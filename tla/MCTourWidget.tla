----------------------------- MODULE MCTourWidget -----------------------------
(* An instance of TourWidget for TLC. *)
EXTENDS TourWidget, TLC

\* The switch on its own, and a provider with it.
SentDef ==
  { "enabled" :> FALSE, "enabled" :> TRUE, "provider" :> "turitop" @@ "enabled" :> TRUE }
=============================================================================
