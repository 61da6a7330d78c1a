------------------------------- MODULE Evidence -------------------------------
(***************************************************************************)
(* What a certificate of f+1 witnesses promises, whoever assembles it and  *)
(* however it travels: a vehicle accepts the statement only once enough    *)
(* have signed it, and honest vehicles sign what they see.                 *)
(***************************************************************************)
CONSTANTS
    R,              \* the vehicles
    Faulty,         \* they sign anything
    Sufficient      \* \subseteq SUBSET R: who must have signed

VARIABLES
    fact,       \* whether the statement is true
    witnesses,  \* the honest vehicles that have signed it
    accepted    \* the vehicles that hold it certified

vars == <<fact, witnesses, accepted>>

Init == fact = FALSE /\ witnesses = {} /\ accepted = {}

Change == fact' \in BOOLEAN /\ UNCHANGED <<witnesses, accepted>>

Witness(r) == /\ fact /\ r \notin Faulty
              /\ witnesses' = witnesses \cup {r}
              /\ UNCHANGED <<fact, accepted>>

Accept(r) == /\ witnesses \cup Faulty \in Sufficient
             /\ accepted' = accepted \cup {r}
             /\ UNCHANGED <<fact, witnesses>>

Next == Change \/ \E r \in R : Witness(r) \/ Accept(r)

Spec == Init /\ [][Next]_vars
==============================================================================
