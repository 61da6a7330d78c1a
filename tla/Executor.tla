------------------------------ MODULE Executor ------------------------------
(***************************************************************************)
(* TransactionExecutor (transaction_executor.cpp): decisions committed in  *)
(* any order are put in sequence by one ordering thread and executed by a  *)
(* pool of threads that hand over to each other through a ring of flags.   *)
(* The simulator thread may move the executor forward when the vehicle     *)
(* adopts a CANCEL by gossip (AdvanceExecuteSeq).                          *)
(*                                                                         *)
(* One action is one lock section or one access to a field that another    *)
(* thread reads without a lock: next_execute_seq_ is atomic, candidates_   *)
(* is a plain std::map shared by two threads.  A corrupted map is left     *)
(* out: accesses to it take place one after the other, in any order.       *)
(***************************************************************************)
EXTENDS Naturals, Sequences, FiniteSets, FiniteSetsExt

CONSTANTS
    MaxSeq,       \* sequence numbers PBFT commits: 1..MaxSeq
    Copies,       \* how often one of them may be committed (recovery replays)
    Threads,      \* execute_thread_
    blucket_num_, \* length of the ring of flags
    Epochs        \* epochs whose CANCEL the application may adopt by gossip

ASSUME ExecutorAssumption ==
    /\ MaxSeq \in Nat \ {0} /\ Copies \in Nat \ {0}
    /\ IsFiniteSet(Threads) /\ Threads # {}
    /\ blucket_num_ \in Nat /\ blucket_num_ > 1
    /\ Cardinality(Threads) < blucket_num_
    /\ Epochs \subseteq Nat

VARIABLES
    commits,           \* [Seq -> Nat]: how often Commit() was called for it
    commit_queue_,     \* FIFO from the PBFT threads to the ordering thread
    orderer,           \* the ordering thread: where it stands, its message
    next_execute_seq_,
    candidates_,       \* sequence numbers that wait for their predecessor
    execute_queue_,    \* FIFO from the ordering thread to the pool
    worker,            \* [Threads -> [at, seq]]
    blucket_,          \* ring of flags: 0 never used, 1 registered, 3 finished
    last_seq_,
    decisions,         \* sequence numbers the application was given, in order
    advance,           \* AdvanceExecutorAfterGossipCancel() on the simulator
    aborted            \* an assert of the code failed: the process is gone

ovars == <<commit_queue_, orderer, next_execute_seq_, candidates_, execute_queue_>>
wvars == <<worker, blucket_, last_seq_, decisions>>
vars == <<commits, ovars, wvars, advance, aborted>>

Seqs == 1..MaxSeq
Bucket(s) == s % blucket_num_
Before(s) == (s - 1 + blucket_num_) % blucket_num_
Finished(i) == blucket_[i] \in {0, 3}

Init ==
    /\ commits = [s \in Seqs |-> 0]
    /\ commit_queue_ = <<>> /\ execute_queue_ = <<>>
    /\ orderer = [at |-> "pop", seq |-> 0]
    /\ next_execute_seq_ = 1 /\ candidates_ = {}
    /\ worker = [t \in Threads |-> [at |-> "idle", seq |-> 0]]
    /\ blucket_ = [i \in 0..(blucket_num_ - 1) |-> 0]
    /\ last_seq_ = 0 /\ decisions = <<>>
    /\ advance = [at |-> "none", target |-> 0, current |-> 0]
    /\ aborted = FALSE

-----------------------------------------------------------------------------
(* Commit(): a collector of the PBFT threads hands a decision over.        *)
Commit(s) ==
    /\ ~aborted /\ commits[s] < Copies
    /\ commits' = [commits EXCEPT ![s] = @ + 1]
    /\ commit_queue_' = Append(commit_queue_, s)
    /\ UNCHANGED <<orderer, next_execute_seq_, candidates_, execute_queue_, wvars,
                   advance, aborted>>

\* Variant: a decision that was executed before is kept.
OrderPopKeepsOld ==
    /\ ~aborted /\ orderer.at = "pop" /\ commit_queue_ # <<>>
    /\ commit_queue_' = Tail(commit_queue_)
    /\ orderer' = [at |-> "insert", seq |-> Head(commit_queue_)]
    /\ UNCHANGED <<commits, next_execute_seq_, candidates_, execute_queue_, wvars,
                   advance, aborted>>

(* OrderMessage(): pop one decision and compare it with next_execute_seq_. *)
OrderPop ==
    /\ ~aborted /\ orderer.at = "pop" /\ commit_queue_ # <<>>
    /\ commit_queue_' = Tail(commit_queue_)
    /\ orderer' = IF next_execute_seq_ > Head(commit_queue_)
                  THEN orderer
                  ELSE [at |-> "insert", seq |-> Head(commit_queue_)]
    /\ UNCHANGED <<commits, next_execute_seq_, candidates_, execute_queue_, wvars,
                   advance, aborted>>

(* AddNewData(): the comparison may be out of date by now. *)
OrderInsert ==
    /\ ~aborted /\ orderer.at = "insert"
    /\ candidates_' = candidates_ \cup {orderer.seq}
    /\ orderer' = [orderer EXCEPT !.at = "drain"]
    /\ UNCHANGED <<commits, commit_queue_, next_execute_seq_, execute_queue_, wvars,
                   advance, aborted>>

(* GetNextData() looks at the first candidate only; a decision that is     *)
(* pushed leaves next_execute_seq_ behind until the next step.             *)
FirstIsNext == candidates_ # {} /\ Min(candidates_) = next_execute_seq_

OrderPush ==
    /\ ~aborted /\ orderer.at = "drain" /\ FirstIsNext
    /\ candidates_' = candidates_ \ {Min(candidates_)}
    /\ execute_queue_' = Append(execute_queue_, Min(candidates_))
    /\ orderer' = [orderer EXCEPT !.at = "pushed"]
    /\ UNCHANGED <<commits, commit_queue_, next_execute_seq_, wvars, advance, aborted>>

OrderStep ==
    /\ ~aborted /\ orderer.at = "pushed"
    /\ next_execute_seq_' = next_execute_seq_ + 1
    /\ orderer' = [orderer EXCEPT !.at = "drain"]
    /\ UNCHANGED <<commits, commit_queue_, candidates_, execute_queue_, wvars,
                   advance, aborted>>

(* GAPWAIT, or nothing to do.  Pop() times out and the thread drains again *)
(* even when no decision comes, so the wait only ends the inner loop.      *)
OrderGapWait ==
    /\ ~aborted /\ orderer.at = "drain" /\ ~FirstIsNext
    /\ orderer' = [at |-> "pop", seq |-> 0]
    /\ UNCHANGED <<commits, commit_queue_, next_execute_seq_, candidates_,
                   execute_queue_, wvars, advance, aborted>>

OrderTimeout ==
    /\ ~aborted /\ orderer.at = "pop" /\ commit_queue_ = <<>> /\ FirstIsNext
    /\ orderer' = [orderer EXCEPT !.at = "drain"]
    /\ UNCHANGED <<commits, commit_queue_, next_execute_seq_, candidates_,
                   execute_queue_, wvars, advance, aborted>>

Ordering == OrderPop \/ OrderInsert \/ OrderPush \/ OrderStep \/ OrderGapWait \/ OrderTimeout

-----------------------------------------------------------------------------
(* ExecuteMessage(): pop and RegisterExecute() under e_mutex_.  The assert *)
(* of RegisterExecute() needs a slot nobody is working on.                 *)
Take(t) ==
    /\ ~aborted /\ worker[t].at = "idle" /\ execute_queue_ # <<>>
    /\ LET s == Head(execute_queue_)
       IN  /\ execute_queue_' = Tail(execute_queue_)
           /\ worker' = [worker EXCEPT ![t] = [at |-> "wait", seq |-> s]]
           /\ blucket_' = [blucket_ EXCEPT ![Bucket(s)] = 1]
           /\ aborted' = ~Finished(Bucket(s))
    /\ UNCHANGED <<commits, commit_queue_, orderer, next_execute_seq_, candidates_,
                   last_seq_, decisions, advance>>

\* Variant: the thread does not wait for its predecessor.
WaitNobody(t) ==
    /\ ~aborted /\ worker[t].at = "wait"
    /\ worker' = [worker EXCEPT ![t].at = "check"]
    /\ UNCHANGED <<commits, ovars, blucket_, last_seq_, decisions, advance, aborted>>

(* WaitForExecute(): until the predecessor has finished. *)
Wait(t) ==
    /\ ~aborted /\ worker[t].at = "wait" /\ Finished(Before(worker[t].seq))
    /\ worker' = [worker EXCEPT ![t].at = "check"]
    /\ UNCHANGED <<commits, ovars, blucket_, last_seq_, decisions, advance, aborted>>

(* Execute(), the lock section on last_seq_: first decision, duplicate or  *)
(* successor; anything else fails the assert.                              *)
Duplicate(s) == last_seq_ # 0 /\ s <= last_seq_

\* Variant: the predecessor is released before the batch has been executed.
CheckFinishesEarly(t) ==
    LET s == worker[t].seq
    IN  /\ ~aborted /\ worker[t].at = "check" /\ ~Duplicate(s)
        /\ aborted' = (last_seq_ # 0 /\ s # last_seq_ + 1)
        /\ last_seq_' = s
        /\ worker' = [worker EXCEPT ![t].at = "run"]
        /\ blucket_' = [blucket_ EXCEPT ![Bucket(s)] = 3]
        /\ UNCHANGED <<commits, ovars, decisions, advance>>

\* Variant: no test for a decision that was executed before.
CheckNoDuplicates(t) ==
    /\ ~aborted /\ worker[t].at = "check"
    /\ last_seq_' = worker[t].seq
    /\ worker' = [worker EXCEPT ![t].at = "run"]
    /\ UNCHANGED <<commits, ovars, blucket_, decisions, advance, aborted>>

Check(t) ==
    LET s == worker[t].seq
    IN  /\ ~aborted /\ worker[t].at = "check"
        /\ \/ /\ Duplicate(s)
              /\ worker' = [worker EXCEPT ![t] = [at |-> "idle", seq |-> 0]]
              /\ blucket_' = [blucket_ EXCEPT ![Bucket(s)] = 3]
              /\ UNCHANGED <<last_seq_, aborted>>
           \/ /\ ~Duplicate(s)
              /\ aborted' = (last_seq_ # 0 /\ s # last_seq_ + 1)
              /\ last_seq_' = s
              /\ worker' = [worker EXCEPT ![t].at = "run"]
              /\ UNCHANGED blucket_
        /\ UNCHANGED <<commits, ovars, decisions, advance>>

\* Variant: the flag is set to 2 alone.
RunFlagsTwo(t) ==
    LET s == worker[t].seq
    IN  /\ ~aborted /\ worker[t].at = "run"
        /\ decisions' = Append(decisions, s)
        /\ blucket_' = [blucket_ EXCEPT ![Bucket(s)] = 2]
        /\ worker' = [worker EXCEPT ![t] = [at |-> "idle", seq |-> 0]]
        /\ UNCHANGED <<commits, ovars, last_seq_, advance, aborted>>

(* ExecuteBatch...(): the decision is handed to the application, then      *)
(* FinishExecute() lets the successor go.                                  *)
Run(t) ==
    LET s == worker[t].seq
    IN  /\ ~aborted /\ worker[t].at = "run"
        /\ decisions' = Append(decisions, s)
        /\ blucket_' = [blucket_ EXCEPT ![Bucket(s)] = 3]
        /\ worker' = [worker EXCEPT ![t] = [at |-> "idle", seq |-> 0]]
        /\ UNCHANGED <<commits, ovars, last_seq_, advance, aborted>>

Work(t) == Take(t) \/ Wait(t) \/ Check(t) \/ Run(t)

-----------------------------------------------------------------------------
(* AdvanceExecutorAfterGossipCancel(): the ledger holds ORDER(e) and       *)
(* CANCEL(e) for every epoch, so the next decision has number 2(e+1)+1.    *)
FirstAfterCancel(e) == 2 * (e + 1) + 1

AdvanceTarget(e) ==
    /\ ~aborted /\ advance.at = "none"
    /\ advance' = [at |-> "load", current |-> 0,
                   target |-> Max({next_execute_seq_, FirstAfterCancel(e)})]
    /\ UNCHANGED <<commits, ovars, wvars, aborted>>

(* AdvanceExecuteSeq(): reads next_execute_seq_ again, then moves last_seq_ *)
(* up under the lock.                                                      *)
AdvanceLoad ==
    /\ ~aborted /\ advance.at = "load"
    /\ advance' = [advance EXCEPT !.current = next_execute_seq_, !.at = "lock"]
    /\ UNCHANGED <<commits, ovars, wvars, aborted>>

AdvanceLast ==
    /\ ~aborted /\ advance.at = "lock"
    /\ last_seq_' = Max({last_seq_, advance.target - 1})
    /\ advance' = [advance EXCEPT !.at = IF advance.target <= advance.current
                                         THEN "erase" ELSE "store"]
    /\ UNCHANGED <<commits, ovars, worker, blucket_, decisions, aborted>>

(* The store is not conditional on the value that was loaded. *)
AdvanceStore ==
    /\ ~aborted /\ advance.at = "store"
    /\ next_execute_seq_' = advance.target
    /\ advance' = [advance EXCEPT !.at = "erase", !.current = advance.target]
    /\ UNCHANGED <<commits, commit_queue_, orderer, candidates_, execute_queue_,
                   wvars, aborted>>

AdvanceErase ==
    /\ ~aborted /\ advance.at = "erase"
    /\ candidates_' = {s \in candidates_ : s >= advance.current}
    /\ advance' = [advance EXCEPT !.at = "done"]
    /\ UNCHANGED <<commits, commit_queue_, orderer, next_execute_seq_, execute_queue_,
                   wvars, aborted>>

AdvanceExecuteSeq == AdvanceLoad \/ AdvanceLast \/ AdvanceStore \/ AdvanceErase
Advance == (\E e \in Epochs : AdvanceTarget(e)) \/ AdvanceExecuteSeq

Next == \/ \E s \in Seqs : Commit(s)
        \/ Ordering
        \/ \E t \in Threads : Work(t)
        \/ Advance

Fairness == /\ WF_vars(Ordering)
            /\ \A t \in Threads : WF_vars(Work(t))
            /\ WF_vars(AdvanceExecuteSeq)

Spec == Init /\ [][Next]_vars
FairSpec == Spec /\ Fairness

-----------------------------------------------------------------------------
(* The fields keep their domains. *)
TypeOK ==
    /\ commits \in [Seqs -> 0..Copies]
    /\ commit_queue_ \in Seq(Seqs) /\ execute_queue_ \in Seq(Seqs)
    /\ orderer \in [at : {"pop", "insert", "drain", "pushed"}, seq : 0..MaxSeq]
    /\ next_execute_seq_ \in Nat /\ candidates_ \subseteq Seqs
    /\ worker \in [Threads -> [at : {"idle", "wait", "check", "run"}, seq : 0..MaxSeq]]
    /\ blucket_ \in [0..(blucket_num_ - 1) -> {0, 1, 3}]
    /\ last_seq_ \in Nat /\ decisions \in Seq(Seqs)
    /\ advance \in [at : {"none", "load", "lock", "store", "erase", "done"},
                    target : Nat, current : Nat]
    /\ aborted \in BOOLEAN

(* The asserts of RegisterExecute() (transaction_executor.cpp:69) and of   *)
(* Execute() (409) never fail: no slot of the ring is taken while somebody *)
(* works on it, and no decision is executed before its predecessor.        *)
AssertsHold == ~aborted

(* ExecuteBatch...() is entered by one thread at a time, although ten      *)
(* threads run: the application's callback is not written for two.         *)
OneBatchAtATime ==
    \A t, u \in Threads : worker[t].at = "run" /\ worker[u].at = "run" => t = u

(* A decision reaches the application at most once, however often PBFT     *)
(* commits it and wherever the executor was moved meanwhile.               *)
DeliveredOnce ==
    \A i, j \in DOMAIN decisions : decisions[i] = decisions[j] => i = j

(* The executor implements the Ledger: each decision once, in order,       *)
(* without a gap, and every decision whose predecessors are there in the   *)
(* end.                                                                    *)
L == INSTANCE Ledger WITH committed <- {s \in Seqs : commits[s] > 0},
                          executed <- decisions
ImplementsLedger == L!Spec

(* After CANCEL(e) was adopted by gossip the decisions from 2(e+1)+1 on    *)
(* are still executed once they are all there: the recovery ORDER is among *)
(* them.                                                                   *)
Delivered(s) == \E i \in DOMAIN decisions : decisions[i] = s
RecoveryDelivered ==
    \A e \in Epochs :
        (\A s \in Seqs : commits[s] > 0) ~>
            \A s \in Seqs : s >= FirstAfterCancel(e) => Delivered(s)
=============================================================================
