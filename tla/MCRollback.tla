----------------------------- MODULE MCRollback -----------------------------
EXTENDS Rollback

\* Vehicle 0 holds batch 0 alone; ORDER(1) has no slot for it.
ScheduleOne ==
    [e \in Epoch |-> [r \in Replica |-> IF r = 0 THEN (IF e = 0 THEN 0 ELSE NoSlot)
                                        ELSE (IF e = 0 THEN 1 ELSE r - 1)]]

\* Everybody is recallable and gets a slot in every epoch.
ScheduleAll ==
    [e \in Epoch |-> [r \in Replica |-> IF r = 0 THEN 0 ELSE 1]]

\* Bound: once a sender or a leader went unchecked, a behaviour is followed until PBFT
\* has ordered a second decision or two vehicles have tombstoned epoch 0.
UncheckedHorizon ==
    unchecked > 0 =>
        /\ Len(ledger) <= 2
        /\ Cardinality({r \in Honest : app[r].cancels[0] # "NONE"}) <= 1
=============================================================================
