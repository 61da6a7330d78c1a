SPECIFICATION Spec
CONSTANTS
    a = a
    b = b
    c = c
    d = d
    r1 = r1
    r2 = r2
    None = None
    tolerated_f = 0
    MaxProcessTxn = 64
    Replicas = {a, b, c, d}
    Faulty = {d}
    Requests = {r1}
    Proposer <- OneProposer
    Members <- WithoutWreck
    After <- OneAlone
    MaxSeq = 1
    MaxUnchecked = 0
    Repeats = {FALSE}
INVARIANTS
    CommittedHasQuorum
CHECK_DEADLOCK FALSE
