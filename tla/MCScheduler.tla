---------------------------- MODULE MCScheduler ----------------------------
EXTENDS Scheduler

\* Three vehicles, on three approaches at most, straight or right, with position ties.
ThreeLanes == 0 .. 2
Movements  == {0, 2}
Positions  == {1, 2}
=============================================================================
