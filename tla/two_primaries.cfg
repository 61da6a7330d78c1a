SPECIFICATION Spec
CONSTANTS
    a = a
    b = b
    c = c
    d = d
    r1 = r1
    r2 = r2
    None = None
    tolerated_f = 0
    MaxProcessTxn = 64
    Replicas = {a, b, c}
    Faulty = {}
    Requests = {r1, r2}
    Proposer <- TwoHandOver
    Members <- AllVote
    After <- NoChain
    MaxSeq = 2
    MaxUnchecked = 0
    Repeats = {FALSE}
INVARIANTS
    Agreement
CHECK_DEADLOCK FALSE
