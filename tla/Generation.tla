----------------------------- MODULE Generation -----------------------------
(***************************************************************************)
(* The providers of text generation: which of the configured ones are      *)
(* used, and how one call fails over from one to the next.  The RFP        *)
(* pipelines and the knowledge pipelines each have a copy of this code.    *)
(* No state.                                                               *)
(***************************************************************************)
EXTENDS Rows, FiniteSets

\* GEN_i_API_KEY and its companions: not set, set to nothing, set without an
\* address or a model, or complete.
SlotStates == {"absent", "blank", "partial", "full"}

\* The slots are looked at up to the first one that is not set.
generation_tiers(slots) ==
    LET reached == {i \in DOMAIN slots : \A j \in 1..i : slots[j] # "absent"}
    IN  Where([i \in DOMAIN slots |-> i], {i \in reached : slots[i] = "full"})

\* The calls of one request while the providers in up are answering: every
\* tier before the one that answers has failed.
Attempted(tiers, up, limit) ==
    {k \in DOMAIN tiers : k <= limit /\ \A j \in 1..k - 1 : tiers[j] \notin up}

Answered_by(tiers, up, limit) ==
    {tiers[k] : k \in {j \in Attempted(tiers, up, limit) : tiers[j] \in up}}
=============================================================================
