----------------------------- MODULE MCCrossing -----------------------------
EXTENDS Crossing

\* Two vehicles ahead of one, and one after the other.
Shapes == {<<0, 0, 1>>, <<0, 1, 2>>}
OneByOne == {<<0, 1, 2>>}
=============================================================================
