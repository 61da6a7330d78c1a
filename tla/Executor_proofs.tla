---------------------------- MODULE Executor_proofs ----------------------------
(***************************************************************************)
(* What holds of Executor for every number of decisions, of repetitions,   *)
(* of threads and every ring that is longer than there are threads.        *)
(***************************************************************************)
EXTENDS Executor, FiniteSetTheorems, WellFoundedInduction, TLAPS

-----------------------------------------------------------------------------
(* Types *)

\* What is worked on has a sequence number.
Numbered ==
    /\ orderer.at = "insert" => orderer.seq \in Seqs
    /\ \A t \in Threads : worker[t].at # "idle" => worker[t].seq \in Seqs
    /\ advance.at # "none" => advance.target >= 1

TypeInv == TypeOK /\ Numbered

\* The larger of two numbers is one of them, and not below the other.
LEMMA MaxOfTwo ==
    ASSUME NEW a \in Nat, NEW b \in Nat
    PROVE  Max({a, b}) \in {a, b} /\ Max({a, b}) >= a /\ Max({a, b}) >= b
<1>1. \E x \in {a, b} : \A y \in {a, b} : x >= y
  BY a \in Nat, b \in Nat
<1> QED
  BY <1>1 DEF Max

\* The first candidate is a candidate.
LEMMA MinIsMember ==
    ASSUME NEW S \in SUBSET Nat, S # {}
    PROVE  Min(S) \in S
<1> DEFINE Less == {p \in Nat \X Nat : p[1] < p[2]}
<1>1. IsWellFoundedOn(Less, Nat)
  BY NatLessThanWellFounded DEF OpToRel
<1>2. PICK x \in S : \A y \in S : <<y, x>> \notin Less
  BY <1>1, WFMin
<1>3. ASSUME NEW y \in S PROVE x <= y
  <2>1. <<y, x>> \in Nat \X Nat /\ <<y, x>> \notin Less
    BY <1>2
  <2>2. ~(<<y, x>>[1] < <<y, x>>[2])
    BY <2>1
  <2> QED
    BY <2>2
<1> QED
  BY <1>3 DEF Min

LEMMA TypeInvInit == Init => TypeInv
<1> SUFFICES ASSUME Init PROVE TypeInv
  OBVIOUS
<1>1. 0 \in 0 .. MaxSeq /\ 0 \in 0 .. Copies
  BY ExecutorAssumption
<1>2. /\ commits \in [Seqs -> 0 .. Copies] /\ candidates_ \subseteq Seqs
      /\ commit_queue_ \in Seq(Seqs) /\ execute_queue_ \in Seq(Seqs) /\ decisions \in Seq(Seqs)
  BY <1>1 DEF Init
<1>3. worker \in [Threads -> [at : {"idle", "wait", "check", "run"}, seq : 0 .. MaxSeq]]
  BY <1>1 DEF Init
<1> QED
  BY <1>1, <1>2, <1>3 DEF Init, TypeInv, TypeOK, Numbered

\* A slot of the ring.
LEMMA BucketType == \A s \in Nat : Bucket(s) \in 0 .. (blucket_num_ - 1)
BY ExecutorAssumption DEF Bucket

LEMMA FirstCandidate ==
    ASSUME TypeInv, FirstIsNext
    PROVE  Min(candidates_) = next_execute_seq_ /\ next_execute_seq_ \in candidates_
<1>1. candidates_ \in SUBSET Nat /\ candidates_ # {}
  BY DEF FirstIsNext, TypeInv, TypeOK, Seqs
<1> QED
  BY <1>1, MinIsMember DEF FirstIsNext

LEMMA TypeInvOrdering ==
    ASSUME TypeInv, Ordering
    PROVE  TypeInv'
<1> USE DEF TypeInv, TypeOK, Numbered, wvars
<1>1. CASE OrderPop
  <2>1. Head(commit_queue_) \in Seqs /\ Tail(commit_queue_) \in Seq(Seqs)
    BY <1>1 DEF OrderPop
  <2> QED
    <3>1. CASE orderer' = orderer
      BY <1>1, <2>1, <3>1 DEF OrderPop
    <3>2. CASE orderer' = [at |-> "insert", seq |-> Head(commit_queue_)]
      BY <1>1, <2>1, <3>2 DEF OrderPop, Seqs
    <3> QED
      BY <1>1, <3>1, <3>2 DEF OrderPop
<1>2. CASE OrderInsert
  BY <1>2 DEF OrderInsert
<1>3. CASE OrderPush
  <2>1. Min(candidates_) \in Seqs
    BY <1>3, FirstCandidate DEF OrderPush
  <2>2. execute_queue_' \in Seq(Seqs) /\ candidates_' \subseteq Seqs
    BY <1>3, <2>1 DEF OrderPush
  <2> QED
    BY <1>3, <2>2 DEF OrderPush
<1>4. CASE OrderStep
  <2>1. orderer'.at = "drain" /\ orderer' \in [at : {"pop", "insert", "drain", "pushed"}, seq : 0 .. MaxSeq]
    BY <1>4 DEF OrderStep
  <2>2. next_execute_seq_' \in Nat
    BY <1>4 DEF OrderStep
  <2> QED
    BY <1>4, <2>1, <2>2 DEF OrderStep
<1>5. CASE OrderGapWait
  BY <1>5, ExecutorAssumption DEF OrderGapWait
<1>6. CASE OrderTimeout
  BY <1>6 DEF OrderTimeout
<1> QED
  BY <1>1, <1>2, <1>3, <1>4, <1>5, <1>6 DEF Ordering

LEMMA TypeInvWork ==
    ASSUME TypeInv, NEW t \in Threads, Work(t)
    PROVE  TypeInv'
<1> USE DEF TypeInv, TypeOK, Numbered, ovars
<1> DEFINE s == worker[t].seq
<1>1. CASE Take(t)
  <2>1. Head(execute_queue_) \in Seqs /\ Tail(execute_queue_) \in Seq(Seqs)
    BY <1>1 DEF Take
  <2>2. Head(execute_queue_) \in 0 .. MaxSeq /\ Head(execute_queue_) \in Nat
    BY <2>1 DEF Seqs
  <2>3. (~Finished(Bucket(Head(execute_queue_)))) \in BOOLEAN
    BY DEF Finished
  <2> QED
    BY <1>1, <2>1, <2>2, <2>3, BucketType DEF Take
<1>2. CASE Wait(t)
  BY <1>2 DEF Wait
<1>3. CASE Check(t)
  <2>1. s \in Seqs /\ s \in Nat
    BY <1>3 DEF Check, Seqs
  <2>2. (last_seq_ # 0 /\ s # last_seq_ + 1) \in BOOLEAN
    OBVIOUS
  <2> DEFINE idle == [at |-> "idle", seq |-> 0]
  <2>3. idle \in [at : {"idle", "wait", "check", "run"}, seq : 0 .. MaxSeq] /\ idle.at = "idle"
    BY ExecutorAssumption
  <2> HIDE DEF idle
  <2> QED
    <3>1. CASE /\ worker' = [worker EXCEPT ![t] = idle]
               /\ blucket_' = [blucket_ EXCEPT ![Bucket(s)] = 3]
               /\ UNCHANGED <<last_seq_, aborted>>
      BY <1>3, <2>1, <2>3, <3>1, BucketType DEF Check
    <3>2. CASE /\ aborted' = (last_seq_ # 0 /\ s # last_seq_ + 1) /\ last_seq_' = s
               /\ worker' = [worker EXCEPT ![t].at = "run"] /\ UNCHANGED blucket_
      BY <1>3, <2>1, <2>2, <3>2 DEF Check
    <3> QED
      BY <1>3, <3>1, <3>2 DEF Check, idle
<1>4. CASE Run(t)
  <2>1. s \in Seqs /\ s \in Nat
    BY <1>4 DEF Run, Seqs
  <2> DEFINE idle == [at |-> "idle", seq |-> 0]
  <2>2. idle \in [at : {"idle", "wait", "check", "run"}, seq : 0 .. MaxSeq] /\ idle.at = "idle"
    BY ExecutorAssumption
  <2> HIDE DEF idle
  <2>3. blucket_' \in [0 .. (blucket_num_ - 1) -> {0, 1, 3}] /\ decisions' \in Seq(Seqs)
    BY SMTT(30), <1>4, <2>1, BucketType DEF Run
  <2>4. /\ worker' \in [Threads -> [at : {"idle", "wait", "check", "run"}, seq : 0 .. MaxSeq]]
        /\ \A u \in Threads : worker'[u].at # "idle" => worker'[u].seq \in Seqs
    BY <1>4, <2>2 DEF Run, idle
  <2> QED
    BY <1>4, <2>1, <2>2, <2>3, <2>4 DEF Run, idle
<1> QED
  BY <1>1, <1>2, <1>3, <1>4 DEF Work

LEMMA TypeInvAdvance ==
    ASSUME TypeInv, Advance
    PROVE  TypeInv'
<1> USE DEF TypeInv, TypeOK, Numbered, ovars, wvars
<1>1. ASSUME NEW e \in Epochs, AdvanceTarget(e) PROVE TypeInv'
  <2>1. FirstAfterCancel(e) \in Nat /\ FirstAfterCancel(e) >= 1
    BY ExecutorAssumption DEF FirstAfterCancel
  <2>2. next_execute_seq_ \in Nat
    OBVIOUS
  <2> DEFINE m == Max({next_execute_seq_, FirstAfterCancel(e)})
  <2>3. /\ m \in {next_execute_seq_, FirstAfterCancel(e)}
        /\ m >= FirstAfterCancel(e)
    BY <2>1, <2>2, MaxOfTwo
  <2> HIDE DEF m
  <2>4. m \in Nat /\ m >= 1
    BY <2>1, <2>2, <2>3
  <2> QED
    BY <1>1, <2>4 DEF AdvanceTarget, m
<1>2. CASE AdvanceLast
  <2>1. advance.target - 1 \in Nat
    BY <1>2 DEF AdvanceLast
  <2> DEFINE m == Max({last_seq_, advance.target - 1})
  <2>2. m \in {last_seq_, advance.target - 1}
    BY <2>1, MaxOfTwo
  <2> HIDE DEF m
  <2>3. m \in Nat
    BY <2>1, <2>2
  <2> QED
    BY <1>2, <2>3 DEF AdvanceLast, m
<1>3. CASE AdvanceStore
  BY <1>3 DEF AdvanceStore
<1>4. CASE AdvanceErase
  BY <1>4 DEF AdvanceErase
<1>5. CASE AdvanceLoad
  BY <1>5 DEF AdvanceLoad
<1> QED
  BY <1>1, <1>2, <1>3, <1>4, <1>5 DEF Advance, AdvanceExecuteSeq

LEMMA TypeInvNext == TypeInv /\ [Next]_vars => TypeInv'
<1> SUFFICES ASSUME TypeInv, [Next]_vars PROVE TypeInv'
  OBVIOUS
<1>1. ASSUME NEW s \in Seqs, Commit(s) PROVE TypeInv'
  BY SMTT(30), <1>1, ExecutorAssumption DEF Commit, TypeInv, TypeOK, Numbered, wvars
<1>2. CASE UNCHANGED vars
  BY <1>2 DEF vars, ovars, wvars, TypeInv, TypeOK, Numbered
<1> QED
  BY <1>1, <1>2, TypeInvOrdering, TypeInvWork, TypeInvAdvance DEF Next

\* The fields keep their domains, whatever the threads interleave.
THEOREM TypeCorrect == Spec => []TypeOK
<1>1. Spec => []TypeInv
  BY TypeInvInit, TypeInvNext, PTL DEF Spec
<1> QED
  BY <1>1, PTL DEF TypeInv

-----------------------------------------------------------------------------
(* Once *)

\* last_seq_ is not below anything that was or is being executed.
BelowLast ==
    /\ \A i \in DOMAIN decisions : decisions[i] <= last_seq_
    /\ \A t \in Threads : worker[t].at = "run" =>
           /\ worker[t].seq <= last_seq_
           /\ \A i \in DOMAIN decisions : decisions[i] # worker[t].seq
    /\ \A t, u \in Threads :
           worker[t].at = "run" /\ worker[u].at = "run" /\ worker[t].seq = worker[u].seq => t = u

OnceInv == TypeInv /\ BelowLast /\ DeliveredOnce

\* Sequence numbers start at 1.
LEMMA SeqsAreNumbers ==
    ASSUME TypeInv
    PROVE  /\ \A i \in DOMAIN decisions : decisions[i] \in Nat /\ decisions[i] >= 1
           /\ \A t \in Threads : worker[t].at # "idle" => worker[t].seq \in Nat /\ worker[t].seq >= 1
           /\ last_seq_ \in Nat
<1>1. \A s \in Seqs : s \in Nat /\ s >= 1
  BY DEF Seqs
<1>2. \A i \in DOMAIN decisions : decisions[i] \in Seqs
  BY DEF TypeInv, TypeOK
<1> QED
  BY <1>1, <1>2 DEF TypeInv, TypeOK, Numbered

LEMMA OnceCheck ==
    ASSUME OnceInv, NEW t \in Threads, Check(t)
    PROVE  BelowLast' /\ DeliveredOnce'
<1> DEFINE s == worker[t].seq
<1> USE DEF OnceInv, TypeInv, TypeOK, Numbered
<1>1. s \in Seqs /\ s \in Nat /\ s >= 1 /\ decisions' = decisions
  BY DEF Check, Seqs
<1>2. DeliveredOnce'
  BY <1>1 DEF DeliveredOnce
<1>3. \A i \in DOMAIN decisions : decisions[i] \in Nat /\ decisions[i] >= 1
  BY SeqsAreNumbers
<1>4. \A u \in Threads : worker[u].at # "idle" => worker[u].seq \in Nat /\ worker[u].seq >= 1
  BY SeqsAreNumbers
<1>5. CASE Duplicate(s)
  <2>1. /\ last_seq_' = last_seq_
        /\ worker' = [worker EXCEPT ![t] = [at |-> "idle", seq |-> 0]]
    BY <1>5 DEF Check
  <2> QED
    BY <1>1, <1>2, <2>1 DEF BelowLast
<1>6. CASE ~Duplicate(s)
  <2>1. last_seq_' = s /\ worker' = [worker EXCEPT ![t].at = "run"]
    BY <1>6 DEF Check
  <2>2. s > last_seq_
    BY <1>1, <1>6 DEF Duplicate
  <2>3. /\ \A i \in DOMAIN decisions : decisions[i] < s
        /\ \A u \in Threads : worker[u].at = "run" => worker[u].seq < s
    BY <1>1, <1>3, <1>4, <2>2 DEF BelowLast
  <2>4. \A u \in Threads : /\ worker'[u].seq = worker[u].seq
                           /\ worker'[u].at = "run" => u = t \/ worker[u].at = "run"
    BY <2>1
  <2> HIDE DEF OnceInv
  <2>5. BelowLast
    BY DEF OnceInv
  <2>6. \A i \in DOMAIN decisions' : decisions'[i] <= last_seq_'
    BY <1>1, <1>3, <2>1, <2>3
  <2>7. ASSUME NEW u \in Threads, worker'[u].at = "run"
        PROVE  /\ worker'[u].seq <= last_seq_'
               /\ \A i \in DOMAIN decisions' : decisions'[i] # worker'[u].seq
    <3>1. CASE u = t
      BY <1>1, <1>3, <2>1, <2>3, <2>4, <3>1
    <3>2. CASE u # t
      BY <1>1, <1>4, <2>1, <2>3, <2>4, <2>5, <2>7, <3>2 DEF BelowLast
    <3> QED
      BY <3>1, <3>2
  <2>8. ASSUME NEW u \in Threads, NEW w \in Threads, worker'[u].at = "run",
               worker'[w].at = "run", worker'[u].seq = worker'[w].seq
        PROVE  u = w
    <3>1. \A x \in Threads : x # t /\ worker'[x].at = "run" => worker[x].seq \in Nat /\ worker[x].seq < s
      BY <1>4, <2>3, <2>4
    <3>2. CASE u = t \/ w = t
      BY <1>1, <2>4, <2>8, <3>1, <3>2
    <3>3. CASE u # t /\ w # t
      BY <2>4, <2>5, <2>8, <3>3 DEF BelowLast
    <3> QED
      BY <3>2, <3>3
  <2> QED
    BY <1>2, <2>6, <2>7, <2>8 DEF BelowLast
<1> QED
  BY <1>5, <1>6

\* A decision goes behind the delivered ones and leaves them as they are.
LEMMA AppendGrows ==
    ASSUME NEW S, NEW q \in Seq(S), NEW x \in S
    PROVE  /\ DOMAIN Append(q, x) = DOMAIN q \cup {Len(q) + 1}
           /\ Len(q) + 1 \notin DOMAIN q
           /\ \A i \in DOMAIN q : Append(q, x)[i] = q[i]
           /\ Append(q, x)[Len(q) + 1] = x
OBVIOUS

LEMMA OnceRun ==
    ASSUME OnceInv, NEW t \in Threads, Run(t)
    PROVE  BelowLast' /\ DeliveredOnce'
<1> DEFINE s == worker[t].seq
<1> USE DEF OnceInv, TypeInv, TypeOK, Numbered
<1>1. /\ s \in Seqs /\ worker[t].at = "run" /\ last_seq_' = last_seq_
      /\ decisions' = Append(decisions, s)
      /\ worker' = [worker EXCEPT ![t] = [at |-> "idle", seq |-> 0]]
  BY DEF Run
<1>2. /\ DOMAIN decisions' = DOMAIN decisions \cup {Len(decisions) + 1}
      /\ Len(decisions) + 1 \notin DOMAIN decisions
      /\ \A i \in DOMAIN decisions : decisions'[i] = decisions[i]
      /\ decisions'[Len(decisions) + 1] = s
  <2>1. decisions \in Seq(Seqs)
    OBVIOUS
  <2> HIDE DEF s, OnceInv, TypeInv, TypeOK, Numbered
  <2> QED
    BY <1>1, <2>1, AppendGrows
<1>3. s <= last_seq_ /\ \A i \in DOMAIN decisions : decisions[i] # s
  BY <1>1 DEF BelowLast
<1>4. DeliveredOnce'
  BY <1>2, <1>3 DEF DeliveredOnce
<1>5. \A u \in Threads : worker'[u].at = "run" => u # t /\ worker'[u] = worker[u]
  BY <1>1
<1>6. \A u \in Threads : worker'[u].at = "run" => worker[u].seq # s
  BY <1>1, <1>5 DEF BelowLast
<1> QED
  BY <1>1, <1>2, <1>3, <1>4, <1>5, <1>6 DEF BelowLast

\* A step that neither checks nor executes does not lower last_seq_.
LEMMA OnceOther ==
    ASSUME OnceInv, TypeInv', decisions' = decisions, last_seq_' >= last_seq_,
           \A t \in Threads : worker'[t].at = "run" => worker'[t] = worker[t]
    PROVE  BelowLast' /\ DeliveredOnce'
<1>1. DeliveredOnce'
  BY DEF OnceInv, DeliveredOnce
<1>2. /\ \A i \in DOMAIN decisions : decisions[i] \in Nat
      /\ last_seq_ \in Nat /\ last_seq_' \in Nat
      /\ \A t \in Threads : worker[t].at = "run" => worker[t].seq \in Nat
  BY SeqsAreNumbers DEF OnceInv, TypeInv, TypeOK
<1> QED
  BY <1>1, <1>2 DEF OnceInv, BelowLast

LEMMA OnceNext == OnceInv /\ [Next]_vars => OnceInv'
<1> SUFFICES ASSUME OnceInv, [Next]_vars PROVE BelowLast' /\ DeliveredOnce'
  BY TypeInvNext DEF OnceInv
<1> DEFINE Calm == /\ decisions' = decisions /\ last_seq_' >= last_seq_
                   /\ \A t \in Threads : worker'[t].at = "run" => worker'[t] = worker[t]
<1>1. TypeInv' /\ TypeInv /\ last_seq_ \in Nat
  BY TypeInvNext DEF OnceInv, TypeInv, TypeOK
<1>2. ASSUME NEW s \in Seqs, Commit(s) PROVE Calm
  BY <1>1, <1>2 DEF Commit, wvars
<1>3. ASSUME Ordering PROVE Calm
  BY <1>1, <1>3 DEF Ordering, OrderPop, OrderInsert, OrderPush, OrderStep, OrderGapWait,
                    OrderTimeout, wvars
<1>4. ASSUME Advance PROVE Calm
  <2>1. ASSUME NEW e \in Epochs, AdvanceTarget(e) PROVE Calm
    BY <1>1, <2>1 DEF AdvanceTarget, wvars
  <2>2. ASSUME AdvanceLast PROVE Calm
    <3>1. advance.target - 1 \in Nat
      BY <1>1, <2>2 DEF AdvanceLast, TypeInv, TypeOK, Numbered
    <3>2. Max({last_seq_, advance.target - 1}) >= last_seq_
      BY <1>1, <3>1, MaxOfTwo
    <3> QED
      BY <2>2, <3>2 DEF AdvanceLast
  <2>3. ASSUME AdvanceLoad \/ AdvanceStore \/ AdvanceErase PROVE Calm
    BY <1>1, <2>3 DEF AdvanceLoad, AdvanceStore, AdvanceErase, wvars
  <2> QED
    BY <1>4, <2>1, <2>2, <2>3 DEF Advance, AdvanceExecuteSeq
<1>5. ASSUME NEW t \in Threads, Take(t) \/ Wait(t) PROVE Calm
  <2>1. worker \in [Threads -> [at : {"idle", "wait", "check", "run"}, seq : 0 .. MaxSeq]]
    BY <1>1 DEF TypeInv, TypeOK
  <2>2. /\ decisions' = decisions /\ last_seq_' = last_seq_
        /\ \E x : worker' = [worker EXCEPT ![t] = x] /\ x.at # "run"
    <3>1. CASE Take(t)
      <4> DEFINE x == [at |-> "wait", seq |-> Head(execute_queue_)]
      <4>1. worker' = [worker EXCEPT ![t] = x] /\ x.at # "run"
        BY <3>1 DEF Take
      <4> QED
        BY <3>1, <4>1 DEF Take
    <3>2. CASE Wait(t)
      <4>1. worker' = [worker EXCEPT ![t] = [worker[t] EXCEPT !.at = "check"]]
        BY <3>2 DEF Wait
      <4>2. [worker[t] EXCEPT !.at = "check"].at = "check"
        BY <2>1
      <4> QED
        BY <3>2, <4>1, <4>2 DEF Wait
    <3> QED
      BY <1>5, <3>1, <3>2
  <2> QED
    BY <1>1, <2>1, <2>2
<1>6. ASSUME UNCHANGED vars PROVE Calm
  BY <1>1, <1>6 DEF vars, wvars
<1>7. ASSUME Calm PROVE BelowLast' /\ DeliveredOnce'
  BY <1>1, <1>7, OnceOther
<1> HIDE DEF Calm
<1> QED
  BY <1>2, <1>3, <1>4, <1>5, <1>6, <1>7, OnceCheck, OnceRun DEF Next, Work

\* However often a decision commits, wherever the executor is moved in between
\* (AdvanceExecuteSeq()) and however the pool is scheduled, the application is
\* given it once.
THEOREM DecisionsAreDeliveredOnce == Spec => []DeliveredOnce
<1>1. Init => OnceInv
  BY TypeInvInit DEF OnceInv, BelowLast, DeliveredOnce, Init
<1> QED
  BY <1>1, OnceNext, PTL DEF Spec, OnceInv

-----------------------------------------------------------------------------
(* The ring *)

LEMMA Quotient ==
    ASSUME NEW a \in Nat
    PROVE  /\ \E q \in Nat : a = q * blucket_num_ + Bucket(a)
           /\ Bucket(a) \in Nat /\ Bucket(a) < blucket_num_
<1>1. /\ a = (a \div blucket_num_) * blucket_num_ + Bucket(a) /\ a \div blucket_num_ \in Nat
      /\ Bucket(a) \in Nat /\ Bucket(a) < blucket_num_
  BY ExecutorAssumption DEF Bucket
<1> QED
  BY <1>1

LEMMA SameRemainder ==
    ASSUME NEW p \in Int, NEW q \in Int, NEW n \in Nat, NEW x \in Nat, NEW y \in Nat,
           x < n, y < n, p * n + x = q * n + y
    PROVE  x = y
<1>1. (p - q) * n = y - x
  OBVIOUS
<1>2. CASE p - q >= 1
  <2>1. (p - q) * n >= n
    BY <1>2
  <2> QED
    BY <1>1, <2>1
<1>3. CASE p - q <= -1
  <2>1. (p - q) * n <= -n
    BY <1>3
  <2> QED
    BY <1>1, <2>1
<1>4. CASE p - q = 0
  BY <1>1, <1>4
<1> QED
  BY <1>2, <1>3, <1>4

\* Decisions that are less than a round apart have slots of their own.
LEMMA BucketsDiffer ==
    ASSUME NEW a \in Nat, NEW b \in Nat, a < b, b - a < blucket_num_
    PROVE  Bucket(a) # Bucket(b)
<1> SUFFICES ASSUME Bucket(a) = Bucket(b) PROVE FALSE
  OBVIOUS
<1> DEFINE n == blucket_num_
<1>1. n \in Nat /\ a < b /\ b - a < n
  BY ExecutorAssumption
<1>2. PICK p \in Nat : a = p * n + Bucket(a)
  BY Quotient
<1>3. PICK q \in Nat : b = q * n + Bucket(b)
  BY Quotient
<1>4. Bucket(a) \in Nat
  BY Quotient
<1> HIDE DEF n
<1>5. b - a = (q - p) * n
  BY <1>1, <1>2, <1>3, <1>4
<1>6. CASE q - p >= 1
  <2>1. (q - p) * n >= n
    BY <1>1, <1>6
  <2> QED
    BY <1>1, <1>5, <2>1
<1>7. CASE q - p <= 0
  <2>1. (q - p) * n <= 0
    BY <1>1, <1>7
  <2> QED
    BY <1>1, <1>5, <2>1
<1> QED
  BY <1>6, <1>7

\* The slot WaitForExecute() looks at is that of the predecessor.
LEMMA BeforeIsPredecessor ==
    ASSUME NEW s \in Nat, s >= 1
    PROVE  Before(s) = Bucket(s - 1)
<1>1. s - 1 \in Nat /\ s - 1 + blucket_num_ \in Nat /\ blucket_num_ \in Nat
  BY ExecutorAssumption
<1>2. Before(s) = Bucket(s - 1 + blucket_num_)
  BY DEF Before, Bucket
<1>3. PICK p \in Nat : s - 1 = p * blucket_num_ + Bucket(s - 1)
  BY <1>1, Quotient
<1>4. PICK q \in Nat : s - 1 + blucket_num_ = q * blucket_num_ + Before(s)
  BY <1>1, <1>2, Quotient
<1>5. /\ Bucket(s - 1) \in Nat /\ Bucket(s - 1) < blucket_num_
      /\ Before(s) \in Nat /\ Before(s) < blucket_num_
  BY <1>1, <1>2, Quotient
<1>6. (p + 1) * blucket_num_ = p * blucket_num_ + blucket_num_
  BY <1>1
<1>7. (p + 1) * blucket_num_ + Bucket(s - 1) = q * blucket_num_ + Before(s)
  BY <1>1, <1>3, <1>4, <1>5, <1>6
<1>8. p + 1 \in Int /\ q \in Int
  OBVIOUS
<1> QED
  BY <1>1, <1>5, <1>7, <1>8, SameRemainder

-----------------------------------------------------------------------------
(* In order *)

(* Decisions 1..taken have been taken by the pool and 1..done executed.    *)
(* Those in between are each worked on by one thread; who has waited works *)
(* on the first of them, and last_seq_ tells whether it has started.       *)
PoolSound(w, last, done, taken) ==
    /\ done <= taken
    /\ \A t \in Threads : w[t].at # "idle" => done < w[t].seq /\ w[t].seq <= taken
    /\ \A t, u \in Threads :
           w[t].at # "idle" /\ w[u].at # "idle" /\ w[t].seq = w[u].seq => t = u
    /\ \A s \in (done + 1) .. taken : \E t \in Threads : w[t].at # "idle" /\ w[t].seq = s
    /\ \A t \in Threads : w[t].at \in {"check", "run"} => w[t].seq = done + 1
    /\ (\E t \in Threads : w[t].at = "run") => last = done + 1
    /\ (\A t \in Threads : w[t].at # "run") => last = done

\* The slots of the ring that are in use are theirs.
RingSound(ring, done, taken) ==
    /\ \A i \in 0 .. (blucket_num_ - 1) :
           ring[i] \in {0, 3} \/ \E s \in (done + 1) .. taken : Bucket(s) = i
    /\ \A s \in (done + 1) .. taken : ring[Bucket(s)] \notin {0, 3}

Places == [Threads -> [at : {"idle", "wait", "check", "run"}, seq : 0 .. MaxSeq]]
Rings == [0 .. (blucket_num_ - 1) -> {0, 1, 3}]

\* No more decisions are worked on than there are threads.
LEMMA FewInWork ==
    ASSUME NEW w \in Places, NEW last, NEW done \in Nat, NEW taken \in Nat,
           PoolSound(w, last, done, taken)
    PROVE  taken - done < blucket_num_
<1> DEFINE S == (done + 1) .. taken
           f == [s \in S |-> CHOOSE t \in Threads : w[t].at # "idle" /\ w[t].seq = s]
<1>1. \A s \in S : f[s] \in Threads /\ w[f[s]].seq = s
  BY DEF PoolSound
<1>2. f \in Injection(S, Threads)
  <2>1. f \in [S -> Threads]
    BY <1>1
  <2>2. \A a, b \in S : f[a] = f[b] => a = b
    BY <1>1
  <2> HIDE DEF f
  <2> QED
    BY <2>1, <2>2 DEF Injection, IsInjective
<1>3. Cardinality(S) <= Cardinality(Threads)
  BY <1>2, FS_Injection, ExecutorAssumption
<1>4. Cardinality(S) = IF done + 1 > taken THEN 0 ELSE taken - (done + 1) + 1
  BY FS_Interval
<1>5. Cardinality(Threads) \in Nat /\ Cardinality(Threads) < blucket_num_ /\ blucket_num_ \in Nat
  BY FS_CardinalityType, ExecutorAssumption
<1> QED
  BY <1>3, <1>4, <1>5 DEF PoolSound

LEMMA TakeKeepsPool ==
    ASSUME NEW w \in Places, NEW last \in Nat, NEW done \in Nat, NEW taken \in Nat,
           NEW t \in Threads, w[t].at = "idle", PoolSound(w, last, done, taken),
           NEW v, v = [w EXCEPT ![t] = [at |-> "wait", seq |-> taken + 1]]
    PROVE  PoolSound(v, last, done, taken + 1)
<1>1. /\ v[t].at = "wait" /\ v[t].seq = taken + 1
      /\ \A u \in Threads \ {t} : v[u] = w[u]
  BY DEF Places
<1>2. \A u \in Threads : w[u].seq \in Nat
  BY ExecutorAssumption DEF Places
<1>3. \A s \in (done + 1) .. (taken + 1) : s = taken + 1 \/ s \in (done + 1) .. taken
  OBVIOUS
<1>4. \A s \in (done + 1) .. (taken + 1) : \E u \in Threads : v[u].at # "idle" /\ v[u].seq = s
  <2> SUFFICES ASSUME NEW s \in (done + 1) .. (taken + 1)
               PROVE  \E u \in Threads : v[u].at # "idle" /\ v[u].seq = s
    OBVIOUS
  <2>1. CASE s = taken + 1
    BY <1>1, <2>1
  <2>2. CASE s \in (done + 1) .. taken
    <3>1. PICK u \in Threads : w[u].at # "idle" /\ w[u].seq = s
      BY <2>2 DEF PoolSound
    <3> QED
      BY <1>1, <3>1
  <2> QED
    BY <1>3, <2>1, <2>2
<1>5. \A u \in Threads \ {t} : w[u].at # "idle" => w[u].seq <= taken
  BY DEF PoolSound
<1>6. \A a, b \in Threads : v[a].at # "idle" /\ v[b].at # "idle" /\ v[a].seq = v[b].seq => a = b
  BY <1>1, <1>2, <1>5 DEF PoolSound
<1>7. /\ (\E u \in Threads : v[u].at = "run") => last = done + 1
      /\ (\A u \in Threads : v[u].at # "run") => last = done
  BY <1>1 DEF PoolSound
<1>8. /\ done <= taken + 1
      /\ \A u \in Threads : v[u].at # "idle" => done < v[u].seq /\ v[u].seq <= taken + 1
      /\ \A u \in Threads : v[u].at \in {"check", "run"} => v[u].seq = done + 1
  BY <1>1, <1>2 DEF PoolSound
<1> QED
  BY <1>4, <1>6, <1>7, <1>8 DEF PoolSound

LEMMA TakeKeepsRing ==
    ASSUME NEW ring \in Rings, NEW done \in Nat, NEW taken \in Nat, done <= taken,
           taken - done < blucket_num_, RingSound(ring, done, taken)
    PROVE  /\ ring[Bucket(taken + 1)] \in {0, 3}
           /\ RingSound([ring EXCEPT ![Bucket(taken + 1)] = 1], done, taken + 1)
<1> DEFINE b == Bucket(taken + 1)
           next == [ring EXCEPT ![b] = 1]
<1>1. b \in 0 .. (blucket_num_ - 1)
  BY BucketType
<1>2. \A s \in (done + 1) .. taken : Bucket(s) # b /\ Bucket(s) \in 0 .. (blucket_num_ - 1)
  <2> SUFFICES ASSUME NEW s \in (done + 1) .. taken
               PROVE  Bucket(s) # b /\ Bucket(s) \in 0 .. (blucket_num_ - 1)
    OBVIOUS
  <2>1. s \in Nat /\ taken + 1 \in Nat /\ s < taken + 1 /\ (taken + 1) - s < blucket_num_
    BY ExecutorAssumption
  <2> QED
    BY <2>1, BucketsDiffer, BucketType
<1>3. ring[b] \in {0, 3}
  BY <1>1, <1>2 DEF RingSound
<1>4. next[b] = 1 /\ \A i \in 0 .. (blucket_num_ - 1) : i # b => next[i] = ring[i]
  BY <1>1 DEF Rings
<1>5. \A s \in (done + 1) .. (taken + 1) : s = taken + 1 \/ s \in (done + 1) .. taken
  OBVIOUS
<1>6. taken + 1 \in (done + 1) .. (taken + 1) /\ (done + 1) .. taken \subseteq (done + 1) .. (taken + 1)
  OBVIOUS
<1>7. ASSUME NEW s \in (done + 1) .. (taken + 1) PROVE next[Bucket(s)] \notin {0, 3}
  <2>1. CASE s = taken + 1
    BY <1>4, <2>1
  <2>2. CASE s \in (done + 1) .. taken
    BY <1>2, <1>4, <2>2 DEF RingSound
  <2> QED
    BY <1>5, <2>1, <2>2
<1>8. ASSUME NEW i \in 0 .. (blucket_num_ - 1)
      PROVE  next[i] \in {0, 3} \/ \E s \in (done + 1) .. (taken + 1) : Bucket(s) = i
  <2>1. CASE i = b
    BY <1>6, <2>1
  <2>2. CASE i # b
    <3>1. next[i] = ring[i]
      BY <1>4, <2>2
    <3>2. ring[i] \in {0, 3} \/ \E s \in (done + 1) .. taken : Bucket(s) = i
      BY DEF RingSound
    <3> QED
      BY <1>6, <3>1, <3>2
  <2> QED
    BY <2>1, <2>2
<1> HIDE DEF next
<1>9. RingSound(next, done, taken + 1)
  BY <1>7, <1>8 DEF RingSound
<1> QED
  BY <1>3, <1>9 DEF next

LEMMA RunKeepsRing ==
    ASSUME NEW ring \in Rings, NEW done \in Nat, NEW taken \in Nat, done < taken,
           taken - done < blucket_num_, RingSound(ring, done, taken)
    PROVE  RingSound([ring EXCEPT ![Bucket(done + 1)] = 3], done + 1, taken)
<1> DEFINE b == Bucket(done + 1)
           next == [ring EXCEPT ![b] = 3]
<1>1. b \in 0 .. (blucket_num_ - 1)
  BY BucketType
<1>2. \A s \in (done + 1 + 1) .. taken : Bucket(s) # b /\ Bucket(s) \in 0 .. (blucket_num_ - 1)
  <2> SUFFICES ASSUME NEW s \in (done + 1 + 1) .. taken
               PROVE  Bucket(s) # b /\ Bucket(s) \in 0 .. (blucket_num_ - 1)
    OBVIOUS
  <2>1. s \in Nat /\ done + 1 \in Nat /\ done + 1 < s /\ s - (done + 1) < blucket_num_
    BY ExecutorAssumption
  <2> QED
    BY <2>1, BucketsDiffer, BucketType
<1>3. next[b] = 3 /\ \A i \in 0 .. (blucket_num_ - 1) : i # b => next[i] = ring[i]
  BY <1>1 DEF Rings
<1>4. /\ (done + 1 + 1) .. taken \subseteq (done + 1) .. taken
      /\ \A s \in (done + 1) .. taken : s = done + 1 \/ s \in (done + 1 + 1) .. taken
  OBVIOUS
<1>5. ASSUME NEW s \in (done + 1 + 1) .. taken PROVE next[Bucket(s)] \notin {0, 3}
  BY <1>2, <1>3, <1>4 DEF RingSound
<1>6. ASSUME NEW i \in 0 .. (blucket_num_ - 1)
      PROVE  next[i] \in {0, 3} \/ \E s \in (done + 1 + 1) .. taken : Bucket(s) = i
  <2>1. CASE i = b
    BY <1>3, <2>1
  <2>2. CASE i # b
    <3>1. next[i] = ring[i]
      BY <1>3, <2>2
    <3>2. ring[i] \in {0, 3} \/ \E s \in (done + 1) .. taken : Bucket(s) = i
      BY DEF RingSound
    <3> QED
      BY <1>4, <2>2, <3>1, <3>2
  <2> QED
    BY <2>1, <2>2
<1> HIDE DEF next
<1>7. RingSound(next, done + 1, taken)
  BY <1>5, <1>6 DEF RingSound
<1> QED
  BY <1>7 DEF next

\* The thread whose predecessor has finished is first in line.
LEMMA WaitKeepsPool ==
    ASSUME NEW w \in Places, NEW last \in Nat, NEW done \in Nat, NEW taken \in Nat,
           NEW ring \in Rings, RingSound(ring, done, taken), PoolSound(w, last, done, taken),
           NEW t \in Threads, w[t].at = "wait", ring[Before(w[t].seq)] \in {0, 3},
           NEW v, v = [w EXCEPT ![t].at = "check"]
    PROVE  PoolSound(v, last, done, taken)
<1>1. /\ v[t].at = "check" /\ v[t].seq = w[t].seq
      /\ \A u \in Threads \ {t} : v[u] = w[u]
  BY DEF Places
<1>2. w[t].seq \in Nat /\ done < w[t].seq /\ w[t].seq <= taken
  BY ExecutorAssumption DEF Places, PoolSound
<1>3. w[t].seq = done + 1
  <2> SUFFICES ASSUME w[t].seq # done + 1 PROVE FALSE
    OBVIOUS
  <2>1. w[t].seq - 1 \in (done + 1) .. taken /\ w[t].seq >= 1
    BY <1>2
  <2>2. ring[Bucket(w[t].seq - 1)] \notin {0, 3}
    BY <2>1 DEF RingSound
  <2>3. Before(w[t].seq) = Bucket(w[t].seq - 1)
    BY <1>2, <2>1, BeforeIsPredecessor
  <2> QED
    BY <2>2, <2>3
<1>4. \A u \in Threads : /\ v[u].at # "idle" <=> w[u].at # "idle"
                         /\ v[u].at = "run" <=> w[u].at = "run"
                         /\ v[u].seq = w[u].seq
  BY <1>1
<1>5. \A u \in Threads : v[u].at \in {"check", "run"} => v[u].seq = done + 1
  BY <1>1, <1>3 DEF PoolSound
<1> QED
  BY <1>4, <1>5 DEF PoolSound

\* Who checks finds its predecessor executed and nobody at work.
LEMMA CheckKeepsPool ==
    ASSUME NEW w \in Places, NEW last \in Nat, NEW done \in Nat, NEW taken \in Nat,
           PoolSound(w, last, done, taken), NEW t \in Threads, w[t].at = "check",
           NEW v, v = [w EXCEPT ![t].at = "run"]
    PROVE  w[t].seq = done + 1 /\ last = done /\ PoolSound(v, done + 1, done, taken)
<1>1. /\ v[t].at = "run" /\ v[t].seq = w[t].seq
      /\ \A u \in Threads \ {t} : v[u] = w[u]
  BY DEF Places
<1>2. w[t].seq = done + 1
  BY DEF PoolSound
<1>3. \A u \in Threads : w[u].at # "run"
  BY <1>2 DEF PoolSound
<1>4. last = done
  BY <1>3 DEF PoolSound
<1>5. \A u \in Threads : /\ v[u].at # "idle" <=> w[u].at # "idle"
                         /\ v[u].seq = w[u].seq
                         /\ v[u].at = "run" => v[u].seq = done + 1
  BY <1>1, <1>2, <1>3
<1>6. \A u \in Threads : v[u].at \in {"check", "run"} => v[u].seq = done + 1
  BY <1>1, <1>2 DEF PoolSound
<1> QED
  BY <1>1, <1>2, <1>4, <1>5, <1>6 DEF PoolSound

LEMMA RunKeepsPool ==
    ASSUME NEW w \in Places, NEW last \in Nat, NEW done \in Nat, NEW taken \in Nat,
           PoolSound(w, last, done, taken), NEW t \in Threads, w[t].at = "run",
           NEW v, v = [w EXCEPT ![t] = [at |-> "idle", seq |-> 0]]
    PROVE  /\ w[t].seq = done + 1 /\ done < taken
           /\ PoolSound(v, last, done + 1, taken)
<1>1. v[t].at = "idle" /\ \A u \in Threads \ {t} : v[u] = w[u]
  BY DEF Places
<1>2. w[t].seq = done + 1 /\ done < taken
  BY DEF PoolSound
<1>3. \A u \in Threads : w[u].seq \in Nat
  BY ExecutorAssumption DEF Places
<1>4. \A u \in Threads : v[u].at # "idle" =>
          /\ w[u].at # "idle" /\ v[u].seq = w[u].seq /\ w[u].at \notin {"check", "run"}
          /\ done + 1 < v[u].seq /\ v[u].seq <= taken
  BY <1>1, <1>2, <1>3 DEF PoolSound
<1>5. \A u \in Threads : v[u].at \notin {"check", "run"}
  BY <1>1, <1>4
<1>6. last = done + 1
  BY DEF PoolSound
<1>7. ASSUME NEW s \in (done + 1 + 1) .. taken
      PROVE  \E u \in Threads : v[u].at # "idle" /\ v[u].seq = s
  <2>1. s \in (done + 1) .. taken /\ s # done + 1
    OBVIOUS
  <2>2. PICK u \in Threads : w[u].at # "idle" /\ w[u].seq = s
    BY <2>1 DEF PoolSound
  <2> QED
    BY <1>1, <1>2, <2>1, <2>2
<1>8. \A a, b \in Threads : v[a].at # "idle" /\ v[b].at # "idle" /\ v[a].seq = v[b].seq => a = b
  BY <1>4 DEF PoolSound
<1> QED
  BY <1>2, <1>4, <1>5, <1>6, <1>7, <1>8 DEF PoolSound

\* What PBFT committed here; what the ordering thread has pushed of it, the
\* pool has taken and the application has been given.
Committed == {s \in Seqs : commits[s] > 0}
Pushed == IF orderer.at = "pushed" THEN next_execute_seq_ ELSE next_execute_seq_ - 1
Taken == Pushed - Len(execute_queue_)
Done == Len(decisions)

OrderSound ==
    /\ next_execute_seq_ >= 1 /\ Taken >= 0
    /\ \A i \in DOMAIN commit_queue_ : commit_queue_[i] \in Committed
    /\ orderer.at = "insert" => orderer.seq \in Committed
    /\ candidates_ \subseteq Committed
    /\ \A s \in 1 .. Pushed : s \in Committed
    /\ \A i \in DOMAIN execute_queue_ : execute_queue_[i] = Taken + i

InOrderInv ==
    /\ TypeInv
    /\ advance.at = "none" /\ ~aborted
    /\ OrderSound
    /\ PoolSound(worker, last_seq_, Done, Taken)
    /\ RingSound(blucket_, Done, Taken)
    /\ \A i \in DOMAIN decisions : decisions[i] = i

LEMMA InOrderInit == Init => InOrderInv
<1> SUFFICES ASSUME Init PROVE InOrderInv
  OBVIOUS
<1>1. Pushed = 0 /\ Taken = 0 /\ Done = 0
  BY DEF Init, Pushed, Taken, Done
<1>2. OrderSound
  BY <1>1 DEF Init, OrderSound
<1>3. PoolSound(worker, last_seq_, Done, Taken)
  BY <1>1 DEF Init, PoolSound
<1>4. RingSound(blucket_, Done, Taken)
  BY <1>1 DEF Init, RingSound
<1> QED
  BY <1>2, <1>3, <1>4, TypeInvInit DEF Init, InOrderInv

\* The fields the invariant speaks of, with their types.
LEMMA InOrderTypes ==
    ASSUME InOrderInv
    PROVE  /\ worker \in Places /\ blucket_ \in Rings /\ last_seq_ \in Nat /\ Done \in Nat
           /\ Pushed \in Nat /\ Taken \in Nat /\ next_execute_seq_ \in Nat
           /\ Len(execute_queue_) \in Nat /\ Done <= Taken
<1>1. /\ worker \in Places /\ blucket_ \in Rings /\ last_seq_ \in Nat /\ Done \in Nat
      /\ next_execute_seq_ \in Nat /\ Len(execute_queue_) \in Nat
  BY DEF InOrderInv, TypeInv, TypeOK, Places, Rings, Done
<1>2. next_execute_seq_ >= 1 /\ Taken >= 0
  BY DEF InOrderInv, OrderSound
<1> QED
  BY <1>1, <1>2 DEF Pushed, Taken, InOrderInv, PoolSound

LEMMA InOrderOrdering ==
    ASSUME InOrderInv, Ordering
    PROVE  InOrderInv'
<1>1. TypeInv' /\ UNCHANGED <<commits, wvars, advance, aborted>>
  BY TypeInvOrdering DEF InOrderInv, Ordering, OrderPop, OrderInsert, OrderPush, OrderStep,
                         OrderGapWait, OrderTimeout
<1>2. Committed' = Committed /\ Done' = Done
  BY <1>1 DEF Committed, Done, wvars
<1>3. ASSUME OrderSound', Taken' = Taken PROVE InOrderInv'
  BY <1>1, <1>2, <1>3 DEF InOrderInv, wvars, PoolSound, RingSound
<1> USE InOrderTypes
<1>4. CASE OrderPop
  <2> DEFINE q == commit_queue_
  <2>a. q \in Seq(Seqs) /\ q # <<>> /\ \A i \in DOMAIN q : q[i] \in Committed
    BY <1>4 DEF OrderPop, InOrderInv, OrderSound, TypeInv, TypeOK
  <2>1. Head(q) \in Committed
    BY <2>a
  <2>2. \A i \in DOMAIN Tail(q) : Tail(q)[i] \in Committed
    BY <2>a
  <2>3. Pushed' = Pushed /\ Taken' = Taken
    BY <1>4 DEF OrderPop, Pushed, Taken
  <2>4. orderer'.at = "insert" => orderer'.seq \in Committed
    BY <1>4, <2>1 DEF OrderPop
  <2> QED
    BY <1>2, <1>3, <1>4, <2>2, <2>3, <2>4 DEF OrderPop, InOrderInv, OrderSound
<1>5. CASE OrderInsert
  <2>1. Pushed' = Pushed /\ Taken' = Taken /\ orderer'.at = "drain"
    BY <1>5 DEF OrderInsert, Pushed, Taken, InOrderInv, TypeInv, TypeOK
  <2> QED
    BY <1>2, <1>3, <1>5, <2>1 DEF OrderInsert, InOrderInv, OrderSound
<1>6. CASE OrderPush
  <2> DEFINE n == next_execute_seq_
  <2>2. n \in candidates_ /\ Min(candidates_) = n
    BY <1>6, FirstCandidate DEF OrderPush, InOrderInv
  <2>3. /\ execute_queue_' = Append(execute_queue_, n) /\ orderer'.at = "pushed"
        /\ next_execute_seq_' = n /\ commit_queue_' = commit_queue_ /\ candidates_' \subseteq candidates_
        /\ orderer.at = "drain"
    BY <1>6, <2>2 DEF OrderPush, InOrderInv, TypeInv, TypeOK
  <2>4. execute_queue_ \in Seq(Seqs) /\ n \in Seqs
    BY <2>2 DEF InOrderInv, TypeInv, TypeOK
  <2>5. Len(execute_queue_') = Len(execute_queue_) + 1
    BY <2>3, <2>4
  <2>6. Pushed = n - 1 /\ Pushed' = n /\ Taken' = Taken
    BY <2>3, <2>5 DEF Pushed, Taken
  <2>7. \A s \in 1 .. Pushed' : s \in Committed
    <3>1. \A s \in 1 .. Pushed' : s = n \/ s \in 1 .. Pushed
      BY <2>6
    <3> QED
      BY <2>2, <3>1 DEF InOrderInv, OrderSound
  <2>8. \A i \in DOMAIN execute_queue_' : execute_queue_'[i] = Taken + i
    <3>1. Taken + (Len(execute_queue_) + 1) = n
      BY SMTT(30), <2>6 DEF Taken
    <3> QED
      BY <2>3, <2>4, <3>1 DEF InOrderInv, OrderSound
  <2> QED
    BY <1>2, <1>3, <2>3, <2>6, <2>7, <2>8 DEF InOrderInv, OrderSound
<1>7. CASE OrderStep
  <2>1. /\ orderer.at = "pushed" /\ orderer'.at = "drain"
        /\ next_execute_seq_' = next_execute_seq_ + 1
    BY <1>7 DEF OrderStep, InOrderInv, TypeInv, TypeOK
  <2>2. Pushed' = Pushed /\ Taken' = Taken
    BY <1>7, <2>1 DEF OrderStep, Pushed, Taken
  <2> QED
    BY <1>2, <1>3, <1>7, <2>1, <2>2 DEF OrderStep, InOrderInv, OrderSound
<1>8. CASE OrderGapWait \/ OrderTimeout
  <2>1. orderer.at # "pushed" /\ orderer'.at \in {"pop", "drain"}
    <3>1. CASE OrderGapWait
      BY <3>1 DEF OrderGapWait
    <3>2. CASE OrderTimeout
      BY <3>2 DEF OrderTimeout, InOrderInv, TypeInv, TypeOK
    <3> QED
      BY <1>8, <3>1, <3>2
  <2>2. Pushed' = Pushed /\ Taken' = Taken
    BY <1>8, <2>1 DEF OrderGapWait, OrderTimeout, Pushed, Taken
  <2> QED
    BY <1>2, <1>3, <1>8, <2>1, <2>2 DEF OrderGapWait, OrderTimeout, InOrderInv, OrderSound
<1> QED
  BY <1>4, <1>5, <1>6, <1>7, <1>8 DEF Ordering

LEMMA InOrderCommit ==
    ASSUME InOrderInv, NEW s \in Seqs, Commit(s)
    PROVE  InOrderInv' /\ Committed \subseteq Committed' /\ decisions' = decisions
<1>1. TypeInv'
  BY TypeInvNext DEF InOrderInv, Next
<1>2. /\ Committed \subseteq Committed' /\ s \in Committed'
  BY DEF Commit, Committed, InOrderInv, TypeInv, TypeOK
<1>3. /\ commit_queue_' = Append(commit_queue_, s) /\ commit_queue_ \in Seq(Seqs)
      /\ UNCHANGED <<orderer, next_execute_seq_, candidates_, execute_queue_, worker, blucket_,
                     last_seq_, decisions, advance, aborted>>
  BY DEF Commit, InOrderInv, TypeInv, TypeOK, wvars
<1>4. Pushed' = Pushed /\ Taken' = Taken /\ Done' = Done
  BY <1>3 DEF Pushed, Taken, Done
<1>5. \A i \in DOMAIN commit_queue_' : commit_queue_'[i] \in Committed'
  <2>1. \A i \in DOMAIN commit_queue_ : commit_queue_[i] \in Committed'
    BY <1>2 DEF InOrderInv, OrderSound
  <2> QED
    BY <1>2, <1>3, <2>1
<1>6. OrderSound'
  BY <1>2, <1>3, <1>4, <1>5 DEF InOrderInv, OrderSound
<1> QED
  BY <1>1, <1>2, <1>3, <1>4, <1>6 DEF InOrderInv, PoolSound, RingSound

\* A thread takes the next decision in sequence, and its slot is free.
LEMMA InOrderTake ==
    ASSUME InOrderInv, NEW t \in Threads, Take(t)
    PROVE  InOrderInv'
<1> DEFINE s == Head(execute_queue_)
<1>1. TypeInv'
  BY TypeInvWork DEF InOrderInv, Work
<1>2. /\ execute_queue_ \in Seq(Seqs) /\ execute_queue_ # <<>>
      /\ \A i \in DOMAIN execute_queue_ : execute_queue_[i] = Taken + i
      /\ Taken \in Nat /\ Pushed \in Nat
  BY InOrderTypes DEF Take, InOrderInv, TypeInv, TypeOK, OrderSound
<1>3. /\ s = Taken + 1 /\ Len(Tail(execute_queue_)) = Len(execute_queue_) - 1
      /\ \A i \in DOMAIN Tail(execute_queue_) : Tail(execute_queue_)[i] = Taken + 1 + i
  BY <1>2
<1>4. /\ execute_queue_' = Tail(execute_queue_)
      /\ worker' = [worker EXCEPT ![t] = [at |-> "wait", seq |-> Taken + 1]]
      /\ blucket_' = [blucket_ EXCEPT ![Bucket(Taken + 1)] = 1]
      /\ aborted' = ~Finished(Bucket(Taken + 1)) /\ worker[t].at = "idle"
      /\ UNCHANGED <<commits, commit_queue_, orderer, next_execute_seq_, candidates_,
                     last_seq_, decisions, advance>>
  BY <1>3 DEF Take
<1>5. Pushed' = Pushed /\ Taken' = Taken + 1 /\ Done' = Done /\ Committed' = Committed
  BY <1>2, <1>3, <1>4 DEF Pushed, Taken, Done, Committed
<1>6. OrderSound'
  BY <1>2, <1>3, <1>4, <1>5 DEF InOrderInv, OrderSound
<1>7. PoolSound(worker, last_seq_, Done, Taken) /\ RingSound(blucket_, Done, Taken)
  BY DEF InOrderInv
<1>8. PoolSound(worker', last_seq_', Done', Taken')
  BY <1>4, <1>5, <1>7, InOrderTypes, TakeKeepsPool
<1>9. Taken - Done < blucket_num_
  BY <1>7, InOrderTypes, FewInWork
<1>10. blucket_[Bucket(Taken + 1)] \in {0, 3} /\ RingSound(blucket_', Done', Taken')
  BY <1>4, <1>5, <1>7, <1>9, InOrderTypes, TakeKeepsRing
<1>11. ~aborted'
  BY <1>4, <1>10 DEF Finished
<1> HIDE DEF s
<1>12. /\ advance' = advance /\ decisions' = decisions
       /\ advance.at = "none" /\ \A i \in DOMAIN decisions : decisions[i] = i
  BY <1>4 DEF InOrderInv
<1> QED
  BY <1>1, <1>6, <1>8, <1>10, <1>11, <1>12 DEF InOrderInv

LEMMA InOrderWait ==
    ASSUME InOrderInv, NEW t \in Threads, Wait(t)
    PROVE  InOrderInv'
<1>1. TypeInv'
  BY TypeInvWork DEF InOrderInv, Work
<1>2. /\ worker' = [worker EXCEPT ![t].at = "check"] /\ worker[t].at = "wait"
      /\ blucket_[Before(worker[t].seq)] \in {0, 3}
      /\ UNCHANGED <<commits, commit_queue_, orderer, next_execute_seq_, candidates_,
                     execute_queue_, blucket_, last_seq_, decisions, advance, aborted>>
  BY DEF Wait, Finished, ovars
<1>3. Pushed' = Pushed /\ Taken' = Taken /\ Done' = Done /\ Committed' = Committed
  BY <1>2 DEF Pushed, Taken, Done, Committed
<1>4. OrderSound'
  BY <1>2, <1>3 DEF InOrderInv, OrderSound
<1>5. PoolSound(worker, last_seq_, Done, Taken) /\ RingSound(blucket_, Done, Taken)
  BY DEF InOrderInv
<1>6. PoolSound(worker', last_seq_', Done', Taken')
  BY <1>2, <1>3, <1>5, InOrderTypes, WaitKeepsPool
<1>7. RingSound(blucket_', Done', Taken')
  BY <1>2, <1>3, <1>5
<1> QED
  BY <1>1, <1>2, <1>4, <1>6, <1>7 DEF InOrderInv

\* Nothing is a duplicate and nothing is skipped, so that the assert holds.
LEMMA InOrderCheck ==
    ASSUME InOrderInv, NEW t \in Threads, Check(t)
    PROVE  InOrderInv'
<1> DEFINE s == worker[t].seq
           w == [worker EXCEPT ![t].at = "run"]
<1>1. TypeInv'
  BY TypeInvWork DEF InOrderInv, Work
<1>2. PoolSound(worker, last_seq_, Done, Taken) /\ RingSound(blucket_, Done, Taken)
  BY DEF InOrderInv
<1>3. worker[t].at = "check"
  BY DEF Check
<1>4. s = Done + 1 /\ last_seq_ = Done /\ PoolSound(w, Done + 1, Done, Taken)
  BY <1>2, <1>3, InOrderTypes, CheckKeepsPool
<1>5. ~Duplicate(s) /\ s = last_seq_ + 1
  BY <1>4, InOrderTypes DEF Duplicate
<1>6. /\ ~aborted' /\ last_seq_' = Done + 1 /\ worker' = w
      /\ UNCHANGED <<commits, commit_queue_, orderer, next_execute_seq_, candidates_,
                     execute_queue_, blucket_, decisions, advance>>
  BY <1>4, <1>5 DEF Check, ovars
<1>7. Pushed' = Pushed /\ Taken' = Taken /\ Done' = Done /\ Committed' = Committed
  BY <1>6 DEF Pushed, Taken, Done, Committed
<1>8. OrderSound'
  BY <1>6, <1>7 DEF InOrderInv, OrderSound
<1> HIDE DEF w
<1>9. PoolSound(worker', last_seq_', Done', Taken') /\ RingSound(blucket_', Done', Taken')
  BY <1>2, <1>4, <1>6, <1>7
<1> QED
  BY <1>1, <1>6, <1>8, <1>9 DEF InOrderInv

LEMMA InOrderRun ==
    ASSUME InOrderInv, NEW t \in Threads, Run(t)
    PROVE  /\ InOrderInv' /\ commits' = commits
           /\ decisions' = Append(decisions, Done + 1) /\ Done + 1 \in Committed
<1> DEFINE w == [worker EXCEPT ![t] = [at |-> "idle", seq |-> 0]]
<1>1. TypeInv'
  BY TypeInvWork DEF InOrderInv, Work
<1>2. PoolSound(worker, last_seq_, Done, Taken) /\ RingSound(blucket_, Done, Taken)
  BY DEF InOrderInv
<1>3. worker[t].at = "run"
  BY DEF Run
<1>4. worker[t].seq = Done + 1 /\ Done < Taken /\ PoolSound(w, last_seq_, Done + 1, Taken)
  BY <1>2, <1>3, InOrderTypes, RunKeepsPool
<1>5. /\ decisions' = Append(decisions, Done + 1) /\ worker' = w
      /\ blucket_' = [blucket_ EXCEPT ![Bucket(Done + 1)] = 3]
      /\ UNCHANGED <<commits, commit_queue_, orderer, next_execute_seq_, candidates_,
                     execute_queue_, last_seq_, advance, aborted>>
  BY <1>4 DEF Run, ovars
<1>6. decisions \in Seq(Seqs) /\ Done = Len(decisions)
  BY DEF InOrderInv, TypeInv, TypeOK, Done
<1>7. Pushed' = Pushed /\ Taken' = Taken /\ Done' = Done + 1 /\ Committed' = Committed
  BY <1>5, <1>6 DEF Pushed, Taken, Done, Committed
<1>8. OrderSound'
  BY <1>5, <1>7 DEF InOrderInv, OrderSound
<1> HIDE DEF w
<1>9. PoolSound(worker', last_seq_', Done', Taken')
  BY <1>4, <1>5, <1>7
<1>10. Taken - Done < blucket_num_
  BY <1>2, InOrderTypes, FewInWork
<1>11. RingSound(blucket_', Done', Taken')
  BY <1>2, <1>4, <1>5, <1>7, <1>10, InOrderTypes, RunKeepsRing
<1>12. \A i \in DOMAIN decisions' : decisions'[i] = i
  BY <1>5, <1>6 DEF InOrderInv
<1>13. Done + 1 \in Committed
  <2>1. Done + 1 \in 1 .. Pushed
    BY <1>4, InOrderTypes DEF Taken
  <2> QED
    BY <2>1 DEF InOrderInv, OrderSound
<1> QED
  BY <1>1, <1>5, <1>8, <1>9, <1>11, <1>12, <1>13 DEF InOrderInv

LEMMA InOrderNext ==
    ASSUME Epochs = {}
    PROVE  InOrderInv /\ [Next]_vars => InOrderInv'
<1> SUFFICES ASSUME InOrderInv, [Next]_vars PROVE InOrderInv'
  OBVIOUS
<1>1. CASE Advance
  BY <1>1 DEF Advance, AdvanceExecuteSeq, AdvanceLoad, AdvanceLast, AdvanceStore,
                 AdvanceErase, InOrderInv
<1>2. CASE UNCHANGED vars
  <2>1. Pushed' = Pushed /\ Taken' = Taken /\ Done' = Done /\ Committed' = Committed
    BY <1>2 DEF vars, ovars, wvars, Pushed, Taken, Done, Committed
  <2>2. OrderSound'
    BY <1>2, <2>1 DEF vars, ovars, InOrderInv, OrderSound
  <2>3. TypeInv'
    BY TypeInvNext DEF InOrderInv
  <2> QED
    BY <1>2, <2>1, <2>2, <2>3 DEF vars, wvars, InOrderInv
<1> QED
  BY <1>1, <1>2, InOrderCommit, InOrderOrdering, InOrderTake, InOrderWait, InOrderCheck,
     InOrderRun DEF Next, Work

\* Unless the executor is moved by gossip, no assert of RegisterExecute() or
\* Execute() fails, for any ring longer than the pool.
THEOREM NoAssertFails ==
    ASSUME Epochs = {}
    PROVE  Spec => []AssertsHold
<1>1. InOrderInv => AssertsHold
  BY DEF InOrderInv, AssertsHold
<1> QED
  BY <1>1, InOrderInit, InOrderNext, PTL DEF Spec

\* ... and the threads enter ExecuteBatch() one at a time.
THEOREM BatchesAreExclusive ==
    ASSUME Epochs = {}
    PROVE  Spec => []OneBatchAtATime
<1>1. InOrderInv => OneBatchAtATime
  BY DEF InOrderInv, OneBatchAtATime, PoolSound
<1> QED
  BY <1>1, InOrderInit, InOrderNext, PTL DEF Spec

\* ... and the application is given the decisions in sequence, without a gap:
\* what Ledger promises but for its fairness.
THEOREM ImplementsLedgerSafely ==
    ASSUME Epochs = {}
    PROVE  Spec => L!Init /\ [][L!Next]_(L!vars)
<1>1. Init => L!Init
  BY ExecutorAssumption DEF Init, L!Init
<1>2. InOrderInv /\ [Next]_vars => [L!Next]_(L!vars)
  <2> SUFFICES ASSUME InOrderInv, [Next]_vars PROVE [L!Next]_(L!vars)
    OBVIOUS
  <2>1. ASSUME NEW s \in Seqs, Commit(s) PROVE [L!Next]_(L!vars)
    BY <2>1, InOrderCommit DEF L!Next, L!Commit, Committed
  <2>2. ASSUME NEW t \in Threads, Run(t) PROVE [L!Next]_(L!vars)
    BY <2>2, InOrderRun DEF L!Next, L!Execute, L!NextToExecute, Committed, Done
  <2>3. ASSUME commits' = commits, decisions' = decisions PROVE [L!Next]_(L!vars)
    BY <2>3 DEF L!vars
  <2>4. CASE Ordering
    BY <2>3, <2>4 DEF Ordering, OrderPop, OrderInsert, OrderPush, OrderStep, OrderGapWait,
                      OrderTimeout, wvars
  <2>5. ASSUME NEW t \in Threads, Take(t) \/ Wait(t) \/ Check(t) PROVE [L!Next]_(L!vars)
    BY <2>3, <2>5 DEF Take, Wait, Check
  <2>6. CASE Advance
    BY <2>6 DEF Advance, AdvanceExecuteSeq, AdvanceLoad, AdvanceLast, AdvanceStore,
                 AdvanceErase, InOrderInv
  <2>7. CASE UNCHANGED vars
    BY <2>3, <2>7 DEF vars, wvars
  <2> QED
    BY <2>1, <2>2, <2>4, <2>5, <2>6, <2>7 DEF Next, Work
<1> QED
  BY <1>1, <1>2, InOrderInit, InOrderNext, PTL DEF Spec
===============================================================================
