--------------------------- MODULE RefundContract ---------------------------
(***************************************************************************)
(* What one approved refund promises, whatever store, lease or retry stands *)
(* behind it: nothing is refunded before it is authorised, the books close  *)
(* with the truth, and closed books stay true.                             *)
(***************************************************************************)

VARIABLES
    authorised,  \* a reviewer's approval has been spent on the refund
    refunded,    \* the money has moved
    verdict      \* "open", then what the closed run says about the money

contractVars == <<authorised, refunded, verdict>>

Init == authorised = FALSE /\ refunded = FALSE /\ verdict = "open"

Authorise ==
    /\ verdict = "open" /\ ~authorised
    /\ authorised' = TRUE
    /\ UNCHANGED <<refunded, verdict>>

Refund ==
    /\ verdict = "open" /\ authorised /\ ~refunded
    /\ refunded' = TRUE
    /\ UNCHANGED <<authorised, verdict>>

Close ==
    /\ verdict = "open"
    /\ verdict' = IF refunded THEN "refunded" ELSE "not_refunded"
    /\ UNCHANGED <<authorised, refunded>>

Next == Authorise \/ Refund \/ Close

Spec == Init /\ [][Next]_contractVars
=============================================================================
