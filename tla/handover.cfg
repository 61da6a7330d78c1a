SPECIFICATION Spec
CONSTANTS
    a = a
    b = b
    c = c
    d = d
    r1 = r1
    r2 = r2
    None = None
    tolerated_f = 1
    MaxProcessTxn = 64
    Replicas = {a, b, c, d}
    Faulty = {d}
    Requests = {r1, r2}
    Proposer <- TwoHandOver
    Members <- AllVote
    After <- TwoChain
    MaxSeq = 2
    MaxUnchecked = 1
    Repeats = {TRUE, FALSE}
CONSTRAINT UncheckedHorizon
INVARIANTS
    TypeOK
    Agreement
    CommittedHasQuorum
    StuckOnlyIfDiverted
CHECK_DEADLOCK FALSE
