------------------------------- MODULE Ledger -------------------------------
(***************************************************************************)
(* What the executor of a replica promises to the consensus engine and to  *)
(* the application: the decisions it is handed, in whatever order they     *)
(* commit, reach the application once each and in the order of their       *)
(* sequence numbers, without a gap.                                        *)
(***************************************************************************)
EXTENDS Naturals, Sequences

VARIABLES
    committed,   \* sequence numbers PBFT committed on this replica
    executed     \* sequence numbers delivered to the application, in order

vars == <<committed, executed>>

NextToExecute == Len(executed) + 1

Init == committed = {} /\ executed = <<>>

Commit == /\ committed \subseteq committed'
          /\ UNCHANGED executed

Execute == /\ NextToExecute \in committed
           /\ executed' = Append(executed, NextToExecute)
           /\ UNCHANGED committed

Next == Commit \/ Execute

Spec == Init /\ [][Next]_vars /\ WF_vars(Execute)
=============================================================================
