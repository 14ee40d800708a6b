--------------------------- MODULE ApprovedEffect ---------------------------
(***************************************************************************)
(* What one approval promises about the one effect it allows, whatever     *)
(* callers, attempts and receipts stand behind it: the effect happens only *)
(* while a dispatch is unsettled, a settled word about it is true, and the *)
(* approval is free again only when nothing happened and nothing can.      *)
(***************************************************************************)

VARIABLES
    phase,    \* where the approval stands
    happened  \* the effect exists

promiseVars == <<phase, happened>>

Init == phase = "NONE" /\ happened = FALSE

Take ==
    /\ phase \in {"NONE", "CONFIRMED_NO_EFFECT"}
    /\ phase' = "CLAIMED"
    /\ UNCHANGED happened

GiveBack ==
    /\ phase = "CLAIMED"
    /\ phase' = "CONFIRMED_NO_EFFECT"
    /\ UNCHANGED happened

Launch ==
    /\ phase = "CLAIMED"
    /\ phase' = "IN_FLIGHT"
    /\ UNCHANGED happened

Happen ==
    /\ phase \in {"IN_FLIGHT", "UNKNOWN"} /\ ~happened
    /\ happened' = TRUE
    /\ UNCHANGED phase

Doubt ==
    /\ phase = "IN_FLIGHT"
    /\ phase' = "UNKNOWN"
    /\ UNCHANGED happened

Resolve ==
    /\ phase \in {"IN_FLIGHT", "UNKNOWN"}
    /\ phase' = IF happened THEN "SUCCEEDED" ELSE "CONFIRMED_NO_EFFECT"
    /\ UNCHANGED happened

Next == Take \/ GiveBack \/ Launch \/ Happen \/ Doubt \/ Resolve

Spec == Init /\ [][Next]_promiseVars
=============================================================================
