------------------------------- MODULE MCPbft -------------------------------
EXTENDS Pbft, TLC
CONSTANTS a, b, c, d, r1, r2

\* ORDER(0) by a, then CANCEL(0) by b once it has executed ORDER(0).
TwoHandOver == r1 :> a @@ r2 :> b
TwoChain == r1 :> {} @@ r2 :> {r1}

\* b takes over although it has not executed what a proposed.
NoChain == r1 :> {} @@ r2 :> {}

AllVote == [q \in Requests |-> Replicas]

\* The wreck d is not a member of the recovery request.
WithoutWreck == r1 :> {a, b, c}

OneProposer == r1 :> a
OneAlone == r1 :> {}

\* What follows an unchecked message is looked at as long as nobody has executed anything.
UncheckedHorizon == unchecked # {} => \A r \in Honest : node[r].ledger = <<>>
=============================================================================
