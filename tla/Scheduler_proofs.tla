-------------------------- MODULE Scheduler_proofs --------------------------
(***************************************************************************)
(* The schedule is safe for every payload: any number of vehicles with any *)
(* lanes, movements, positions and priorities.                             *)
(***************************************************************************)
EXTENDS Scheduler, FiniteSetTheorems, WellFoundedInduction, NaturalsInduction, TLAPS

\* Batches before the open one are complete; the open one holds no QUIET vehicle.
BatchBounds ==
    \A v \in Vehicle :
        /\ ~open => batch_of[v] < n_batches
        /\ open /\ batch_of[v] = n_batches => ~IsQuietEntry(v)

SafetyInv == TypeOK /\ BatchBounds /\ NoConflictInBatch /\ LaneOrder

\* The conflict test does not depend on the order of its arguments.
LEMMA SafeIsSymmetric == \A a, b : IsSafeToBatch(a, b) <=> IsSafeToBatch(b, a)
BY DEF IsSafeToBatch

\* Two vehicles of one lane never cross together, and nobody stands in front of itself.
LEMMA SameLaneConflicts ==
    ASSUME TypeOK, NEW v \in Vehicle, NEW w \in Vehicle, InFront(v, w)
    PROVE  ~IsSafeToBatch(entries[w], entries[v]) /\ v # w
<1>1. ~IsSafeToBatch(entries[w], entries[v])
  BY DEF InFront, IsSafeToBatch
<1>2. entries[v].position \in Nat /\ v \in Nat
  BY PayloadAssumption DEF TypeOK, VehicleEntry
<1>3. v # w
  BY <1>2 DEF InFront, QueueBefore
<1> QED
  BY <1>1, <1>3

\* While the payload stays, so do the orders and the marks read from it.
LEMMA PayloadFrame ==
    ASSUME UNCHANGED payload
    PROVE  /\ \A v, w : InFront(v, w)' <=> InFront(v, w)
           /\ \A v : IsQuietEntry(v)' <=> IsQuietEntry(v)
BY DEF payload, InFront, QueueBefore, IsQuietEntry

\* Placing a vehicle that conflicts with nobody in the batch, its lane being free in
\* front of it, keeps the schedule safe.
LEMMA PlaceIsSafe ==
    ASSUME SafetyInv, NEW h \in Schedulable, UNCHANGED payload,
           batch_of' = [batch_of EXCEPT ![h] = n_batches],
           \A w \in Batch(n_batches) : /\ IsSafeToBatch(entries[h], entries[w])
                                       /\ ~IsQuietEntry(w) /\ ~IsQuietEntry(h)
    PROVE  NoConflictInBatch' /\ LaneOrder'
<1>1. /\ h \in Vehicle /\ ~Placed(h) /\ AllSameLaneFrontPlaced(h)
      /\ batch_of \in [Vehicle -> Int] /\ n_batches \in Nat /\ entries' = entries
  BY DEF Schedulable, SafetyInv, TypeOK, payload
<1>2. \A v \in Vehicle : batch_of'[v] = IF v = h THEN n_batches ELSE batch_of[v]
  BY <1>1
<1>3. NoConflictInBatch'
  <2> SUFFICES ASSUME NEW v \in Vehicle, NEW w \in Vehicle, v # w,
                      Placed(v)', batch_of'[v] = batch_of'[w]
               PROVE  IsSafeToBatch(entries[v], entries[w]) /\ ~IsQuietEntry(v)
    BY <1>1, PayloadFrame DEF NoConflictInBatch
  <2>1. CASE v = h
    <3>1. w \in Batch(n_batches)
      BY <1>2, <2>1 DEF Batch
    <3> QED
      BY <2>1, <3>1
  <2>2. CASE w = h
    <3>1. v \in Batch(n_batches)
      BY <1>2, <2>2 DEF Batch
    <3> QED
      BY <2>2, <3>1, SafeIsSymmetric
  <2>3. CASE v # h /\ w # h
    <3>1. Placed(v) /\ batch_of[v] = batch_of[w]
      BY <1>2, <2>3 DEF Placed, Unplaced
    <3> QED
      BY <3>1 DEF SafetyInv, NoConflictInBatch
  <2> QED
    BY <2>1, <2>2, <2>3
<1>4. LaneOrder'
  <2> SUFFICES ASSUME NEW v \in Vehicle, NEW w \in Vehicle, InFront(v, w), Placed(w)'
               PROVE  Placed(v)' /\ batch_of'[v] < batch_of'[w]
    BY PayloadFrame DEF LaneOrder
  <2>1. v # w /\ ~IsSafeToBatch(entries[w], entries[v])
    BY SameLaneConflicts DEF SafetyInv
  <2>2. CASE w = h
    <3>1. Placed(v) /\ v \notin Batch(n_batches)
      BY <1>1, <2>1, <2>2 DEF AllSameLaneFrontPlaced
    <3>2. batch_of[v] \in Unplaced .. n_batches /\ batch_of[v] # n_batches
      BY <3>1 DEF SafetyInv, TypeOK, Batch
    <3> QED
      BY <1>1, <1>2, <2>1, <2>2, <3>1, <3>2 DEF Placed, Unplaced
  <2>3. CASE w # h
    <3>1. Placed(w)
      BY <1>2, <2>3 DEF Placed, Unplaced
    <3>2. Placed(v) /\ batch_of[v] < batch_of[w]
      BY <3>1 DEF SafetyInv, LaneOrder
    <3>3. v # h
      BY <1>1, <3>2
    <3> QED
      BY <1>2, <2>3, <3>2, <3>3 DEF Placed, Unplaced
  <2> QED
    BY <2>2, <2>3
<1> QED
  BY <1>3, <1>4

\* The empty schedule is safe.
LEMMA ScheduleInit == Init => SafetyInv
<1> SUFFICES ASSUME Init PROVE SafetyInv
  OBVIOUS
<1>1. \A v \in Vehicle : ~Placed(v) /\ batch_of[v] = Unplaced
  BY DEF Init, Placed
<1>2. TypeOK
  <2>1. /\ entries \in [Vehicle -> VehicleEntry] /\ all_singleton \in BOOLEAN
        /\ open \in BOOLEAN /\ grew \in BOOLEAN /\ unseen \subseteq Vehicle
    BY DEF Init
  <2>2. n_batches \in Nat /\ batch_of \in [Vehicle -> Int]
    BY DEF Init, Unplaced
  <2>3. \A v \in Vehicle : batch_of[v] \in Unplaced .. n_batches
    BY <1>1 DEF Init, Unplaced
  <2> QED
    BY <2>1, <2>2, <2>3 DEF TypeOK
<1>3. BatchBounds
  BY <1>1 DEF Init, BatchBounds, Unplaced
<1> QED
  BY <1>1, <1>2, <1>3 DEF SafetyInv, NoConflictInBatch, LaneOrder

\* A new batch gets a head.
LEMMA HeadIsSafe ==
    ASSUME SafetyInv, NEW h \in Vehicle, PickHead(h)
    PROVE  SafetyInv'
<1>1. /\ h \in Schedulable /\ UNCHANGED payload /\ ~open
      /\ batch_of' = [batch_of EXCEPT ![h] = n_batches]
  BY DEF PickHead, IsFirst
<1>2. /\ batch_of \in [Vehicle -> Int] /\ n_batches \in Nat
      /\ \A v \in Vehicle : batch_of[v] \in Unplaced .. n_batches /\ batch_of[v] < n_batches
  BY <1>1 DEF SafetyInv, TypeOK, BatchBounds
<1>3. \A v \in Vehicle : batch_of'[v] = IF v = h THEN n_batches ELSE batch_of[v]
  BY <1>1, <1>2
<1>4. Batch(n_batches) = {}
  BY <1>2 DEF Batch
<1>5. NoConflictInBatch' /\ LaneOrder'
  BY <1>1, <1>4, PlaceIsSafe
<1>6. CASE all_singleton \/ IsQuietEntry(h)
  <2>1. n_batches' = n_batches + 1 /\ UNCHANGED <<open, unseen, grew>>
    BY <1>6 DEF PickHead
  <2>2. TypeOK'
    BY <1>1, <1>2, <1>3, <2>1 DEF SafetyInv, TypeOK, payload, Unplaced
  <2>3. BatchBounds'
    BY <1>1, <1>2, <1>3, <2>1 DEF BatchBounds
  <2> QED
    BY <1>5, <2>2, <2>3 DEF SafetyInv
<1>7. CASE ~(all_singleton \/ IsQuietEntry(h))
  <2>1. open' = TRUE /\ unseen' = Vehicle /\ grew' = FALSE /\ UNCHANGED n_batches
    BY <1>7 DEF PickHead
  <2>2. TypeOK'
    <3>1. open' \in BOOLEAN /\ grew' \in BOOLEAN /\ unseen' \subseteq Vehicle
      BY <2>1
    <3>2. entries' \in [Vehicle -> VehicleEntry] /\ all_singleton' \in BOOLEAN
      BY <1>1 DEF SafetyInv, TypeOK, payload
    <3>3. /\ n_batches' \in Nat /\ batch_of' \in [Vehicle -> Int]
          /\ \A v \in Vehicle : batch_of'[v] \in Unplaced .. n_batches'
      BY <1>1, <1>2, <1>3, <2>1 DEF Unplaced
    <3> QED
      BY <3>1, <3>2, <3>3 DEF TypeOK, Unplaced
  <2>3. BatchBounds'
    BY <1>1, <1>2, <1>3, <1>7, <2>1, PayloadFrame DEF BatchBounds
  <2> QED
    BY <1>5, <2>2, <2>3 DEF SafetyInv
<1> QED
  BY <1>6, <1>7

\* A batch grows by a vehicle that is safe with all of it.
LEMMA AdmitIsSafe ==
    ASSUME SafetyInv, NEW h \in Vehicle, Admit(h)
    PROVE  SafetyInv'
<1>1. /\ h \in Schedulable /\ SafeWithWholeBatch(h) /\ UNCHANGED payload /\ open
      /\ batch_of' = [batch_of EXCEPT ![h] = n_batches]
      /\ unseen' \subseteq unseen /\ grew' = TRUE /\ UNCHANGED <<n_batches, open>>
  BY DEF Admit, IsFirst, Admissible
<1>2. /\ batch_of \in [Vehicle -> Int] /\ n_batches \in Nat
      /\ \A v \in Vehicle : batch_of[v] \in Unplaced .. n_batches
  BY DEF SafetyInv, TypeOK
<1>3. \A v \in Vehicle : batch_of'[v] = IF v = h THEN n_batches ELSE batch_of[v]
  BY <1>1, <1>2
<1>4. \A w \in Batch(n_batches) : /\ IsSafeToBatch(entries[h], entries[w])
                                  /\ ~IsQuietEntry(w) /\ ~IsQuietEntry(h)
  BY <1>1 DEF SafeWithWholeBatch, SafetyInv, BatchBounds, Batch
<1>5. NoConflictInBatch' /\ LaneOrder'
  BY <1>1, <1>4, PlaceIsSafe
<1>6. TypeOK'
  BY <1>1, <1>2, <1>3 DEF SafetyInv, TypeOK, payload, Unplaced
<1>7. ~IsQuietEntry(h)
  BY <1>1 DEF SafeWithWholeBatch
<1>8. BatchBounds'
  BY <1>1, <1>3, <1>7, PayloadFrame DEF SafetyInv, BatchBounds
<1> QED
  BY <1>5, <1>6, <1>8 DEF SafetyInv

\* The end of a pass places nobody.
LEMMA EndPassIsSafe ==
    ASSUME SafetyInv, EndPass
    PROVE  SafetyInv'
<1>1. /\ UNCHANGED payload /\ batch_of' = batch_of /\ open
      /\ n_batches' \in {n_batches, n_batches + 1} /\ unseen' \in {Vehicle, {}}
      /\ grew' \in BOOLEAN /\ open' \in BOOLEAN
      /\ open' => n_batches' = n_batches
      /\ ~open' => n_batches' = n_batches + 1
  BY DEF EndPass, SafetyInv, TypeOK
<1>2. TypeOK'
  BY <1>1 DEF SafetyInv, TypeOK, payload, Unplaced
<1>3. BatchBounds'
  BY <1>1, PayloadFrame DEF SafetyInv, BatchBounds, TypeOK, Unplaced
<1>4. NoConflictInBatch'
  BY <1>1 DEF SafetyInv, NoConflictInBatch, Placed, IsQuietEntry, payload
<1>5. LaneOrder'
  BY <1>1, PayloadFrame DEF SafetyInv, LaneOrder, Placed
<1> QED
  BY <1>2, <1>3, <1>4, <1>5 DEF SafetyInv

\* Every step of the loop keeps the schedule safe.
LEMMA ScheduleNext == SafetyInv /\ [Next]_vars => SafetyInv'
<1> SUFFICES ASSUME SafetyInv, [Next]_vars PROVE SafetyInv'
  OBVIOUS
<1>1. CASE \E v \in Vehicle : PickHead(v) \/ Admit(v)
  BY <1>1, HeadIsSafe, AdmitIsSafe
<1>2. CASE EndPass
  BY <1>2, EndPassIsSafe
<1>3. CASE UNCHANGED vars
  <2>1. UNCHANGED payload /\ UNCHANGED <<entries, all_singleton, batch_of, n_batches, open, unseen, grew>>
    BY <1>3 DEF vars, payload
  <2>2. TypeOK' /\ BatchBounds'
    BY <2>1 DEF SafetyInv, TypeOK, BatchBounds, IsQuietEntry
  <2>3. NoConflictInBatch' /\ LaneOrder'
    BY <2>1, PayloadFrame DEF SafetyInv, NoConflictInBatch, LaneOrder, Placed, IsQuietEntry
  <2> QED
    BY <2>2, <2>3 DEF SafetyInv
<1> QED
  BY <1>1, <1>2, <1>3 DEF Next

\* Whatever payload is committed, no two vehicles of a batch conflict and a QUIET
\* vehicle crosses alone.
THEOREM BatchesDoNotConflict == Spec => []NoConflictInBatch
<1>1. SafetyInv => NoConflictInBatch
  BY DEF SafetyInv
<1> QED
  BY <1>1, ScheduleInit, ScheduleNext, PTL DEF Spec

\* Whatever payload is committed, no vehicle is scheduled before or with one that
\* stands in front of it in its lane.
THEOREM LanesKeepOrder == Spec => []LaneOrder
<1>1. SafetyInv => LaneOrder
  BY DEF SafetyInv
<1> QED
  BY <1>1, ScheduleInit, ScheduleNext, PTL DEF Spec

\* The decisions stay well formed, whatever payload is committed.
THEOREM TypeCorrect == Spec => []TypeOK
<1>1. SafetyInv => TypeOK
  BY DEF SafetyInv
<1> QED
  BY <1>1, ScheduleInit, ScheduleNext, PTL DEF Spec

-----------------------------------------------------------------------------
(* No room is wasted                                                       *)

\* A pass that has admitted nobody yet has left nobody out for good: the last pass of
\* a batch considers every vehicle.
PassInv == open /\ ~grew => unseen = Vehicle

RoomInv == SafetyInv /\ PassInv /\ NoWastedRoom

\* The batches before the one that grows stay as they are.
LEMMA PlaceWastesNoRoom ==
    ASSUME RoomInv, NEW h \in Schedulable, UNCHANGED payload,
           batch_of' = [batch_of EXCEPT ![h] = n_batches]
    PROVE  \A v \in Vehicle, i \in 0 .. n_batches - 1 :
             /\ ~IsQuietEntry(v)' /\ ~all_singleton'
             /\ ~Placed(v)' \/ batch_of'[v] > i
             /\ \A w \in Vehicle : InFront(w, v)' => Placed(w)' /\ batch_of'[w] < i
             => \E w \in Batch(i)' : IsQuietEntry(w)' \/ ~IsSafeToBatch(entries'[v], entries'[w])
<1>1. /\ h \in Vehicle /\ ~Placed(h) /\ batch_of \in [Vehicle -> Int] /\ n_batches \in Nat
      /\ entries' = entries /\ all_singleton' = all_singleton
  BY DEF Schedulable, RoomInv, SafetyInv, TypeOK, payload
<1>2. \A v \in Vehicle : batch_of'[v] = IF v = h THEN n_batches ELSE batch_of[v]
  BY <1>1
<1> SUFFICES ASSUME NEW v \in Vehicle, NEW i \in 0 .. n_batches - 1,
                    ~IsQuietEntry(v), ~all_singleton,
                    ~Placed(v)' \/ batch_of'[v] > i,
                    \A w \in Vehicle : InFront(w, v) => Placed(w)' /\ batch_of'[w] < i
             PROVE  \E w \in Batch(i)' : IsQuietEntry(w)' \/ ~IsSafeToBatch(entries'[v], entries'[w])
  BY <1>1, PayloadFrame
<1>3. ~Placed(v) \/ batch_of[v] > i
  BY <1>1, <1>2 DEF Placed
<1>4. \A w \in Vehicle : InFront(w, v) => Placed(w) /\ batch_of[w] < i
  BY <1>1, <1>2 DEF Placed
<1>5. PICK w \in Batch(i) : IsQuietEntry(w) \/ ~IsSafeToBatch(entries[v], entries[w])
  BY <1>3, <1>4 DEF RoomInv, NoWastedRoom
<1>6. w \in Vehicle /\ w # h /\ w \in Batch(i)'
  BY <1>1, <1>2, <1>5 DEF Batch, Placed, Unplaced
<1> QED
  BY <1>1, <1>5, <1>6, PayloadFrame

\* A new batch: all vehicles are still to be seen, or it is a singleton that is due.
LEMMA HeadWastesNoRoom ==
    ASSUME RoomInv, NEW h \in Vehicle, PickHead(h)
    PROVE  PassInv' /\ NoWastedRoom'
<1>1. /\ h \in Schedulable /\ UNCHANGED payload /\ ~open
      /\ batch_of' = [batch_of EXCEPT ![h] = n_batches]
      /\ batch_of \in [Vehicle -> Int] /\ n_batches \in Nat
  BY DEF PickHead, IsFirst, RoomInv, SafetyInv, TypeOK
<1>2. CASE all_singleton \/ IsQuietEntry(h)
  <2>1. n_batches' = n_batches + 1 /\ ~open'
    BY <1>1, <1>2 DEF PickHead
  <2>2. batch_of'[h] = n_batches
    BY <1>1
  <2>3. \A i \in 0 .. n_batches' - 1 : (i = n_batches /\ h \in Batch(i)') \/ i \in 0 .. n_batches - 1
    BY <1>1, <2>1, <2>2 DEF Batch
  <2>4. all_singleton' \/ IsQuietEntry(h)'
    BY <1>1, <1>2, PayloadFrame DEF payload
  <2>5. NoWastedRoom'
    BY <1>1, <2>3, <2>4, PlaceWastesNoRoom DEF NoWastedRoom
  <2> QED
    BY <2>1, <2>5 DEF PassInv
<1>3. CASE ~(all_singleton \/ IsQuietEntry(h))
  <2>1. unseen' = Vehicle /\ n_batches' = n_batches
    BY <1>3 DEF PickHead
  <2> QED
    BY <1>1, <2>1, PlaceWastesNoRoom DEF NoWastedRoom, PassInv
<1> QED
  BY <1>2, <1>3

\* The last pass of a batch found nobody: whoever could have joined conflicts with it.
LEMMA EndPassWastesNoRoom ==
    ASSUME RoomInv, EndPass
    PROVE  PassInv' /\ NoWastedRoom'
<1>1. /\ UNCHANGED payload /\ batch_of' = batch_of /\ open /\ Admissible = {}
      /\ n_batches \in Nat /\ batch_of \in [Vehicle -> Int]
      /\ \A v \in Vehicle : batch_of[v] \in Unplaced .. n_batches
  BY DEF EndPass, RoomInv, SafetyInv, TypeOK
<1>2. entries' = entries /\ all_singleton' = all_singleton
  BY <1>1 DEF payload
<1>3. CASE grew
  <2>1. unseen' = Vehicle /\ n_batches' = n_batches
    BY <1>3 DEF EndPass
  <2>2. NoWastedRoom'
    BY <1>1, <1>2, <2>1 DEF RoomInv, NoWastedRoom, Placed, Batch, InFront, QueueBefore, IsQuietEntry
  <2> QED
    BY <2>1, <2>2 DEF PassInv
<1>4. CASE ~grew
  <2>1. n_batches' = n_batches + 1 /\ ~open' /\ unseen = Vehicle
    BY <1>1, <1>4 DEF EndPass, RoomInv, PassInv
  <2>2. \A v \in Vehicle, i \in 0 .. n_batches :
            /\ ~IsQuietEntry(v) /\ ~all_singleton
            /\ ~Placed(v) \/ batch_of[v] > i
            /\ \A w \in Vehicle : InFront(w, v) => Placed(w) /\ batch_of[w] < i
            => \E w \in Batch(i) : IsQuietEntry(w) \/ ~IsSafeToBatch(entries[v], entries[w])
    <3> SUFFICES ASSUME NEW v \in Vehicle, NEW i \in 0 .. n_batches,
                        ~IsQuietEntry(v), ~all_singleton,
                        ~Placed(v) \/ batch_of[v] > i,
                        \A w \in Vehicle : InFront(w, v) => Placed(w) /\ batch_of[w] < i
                 PROVE  \E w \in Batch(i) : IsQuietEntry(w) \/ ~IsSafeToBatch(entries[v], entries[w])
      OBVIOUS
    <3>1. CASE i # n_batches
      <4>1. i \in 0 .. n_batches - 1
        BY <1>1, <3>1
      <4> QED
        BY <4>1 DEF RoomInv, NoWastedRoom
    <3>2. CASE i = n_batches
      <4>1. ~Placed(v)
        BY <1>1, <3>2
      <4>2. v \in unseen \cap Schedulable
        BY <2>1, <4>1 DEF Schedulable, AllSameLaneFrontPlaced
      <4>3. ~SafeWithWholeBatch(v)
        BY <1>1, <4>2 DEF Admissible
      <4> QED
        BY <3>2, <4>3 DEF SafeWithWholeBatch
    <3> QED
      BY <3>1, <3>2
  <2>3. n_batches' - 1 = n_batches
    BY <1>1, <2>1
  <2>4. NoWastedRoom'
    BY <1>1, <1>2, <2>2, <2>3 DEF NoWastedRoom, Placed, Batch, InFront, QueueBefore, IsQuietEntry
  <2> QED
    BY <2>1, <2>4 DEF PassInv
<1> QED
  BY <1>3, <1>4

LEMMA RoomNext == RoomInv /\ [Next]_vars => RoomInv'
<1> SUFFICES ASSUME RoomInv, [Next]_vars PROVE PassInv' /\ NoWastedRoom'
  BY ScheduleNext DEF RoomInv
<1>1. ASSUME NEW v \in Vehicle, Admit(v) PROVE PassInv' /\ NoWastedRoom'
  <2>1. /\ v \in Schedulable /\ UNCHANGED payload /\ grew' = TRUE /\ n_batches' = n_batches
        /\ batch_of' = [batch_of EXCEPT ![v] = n_batches]
    BY <1>1 DEF Admit, IsFirst, Admissible
  <2> QED
    BY <2>1, PlaceWastesNoRoom DEF NoWastedRoom, PassInv
<1>2. CASE UNCHANGED vars
  BY <1>2 DEF vars, payload, RoomInv, PassInv, NoWastedRoom, Placed, Batch, InFront, QueueBefore,
              IsQuietEntry
<1> QED
  BY <1>1, <1>2, HeadWastesNoRoom, EndPassWastesNoRoom DEF Next

\* Whatever payload is committed, a vehicle whose lane was free for a batch and that
\* waits for a later one conflicts with somebody of that batch, unless singletons are due:
\* the passes over the work queue go on until nobody else can be admitted.
THEOREM RoomIsUsed == Spec => []NoWastedRoom
<1>1. Init => RoomInv
  <2>1. ASSUME Init PROVE PassInv /\ NoWastedRoom
    BY <2>1 DEF Init, PassInv, NoWastedRoom
  <2> QED
    BY <2>1, ScheduleInit DEF RoomInv
<1>2. RoomInv => NoWastedRoom
  BY DEF RoomInv
<1> QED
  BY <1>1, <1>2, RoomNext, PTL DEF Spec

-----------------------------------------------------------------------------
(* An ambulance waits for nobody but blockers                              *)

LEMMA LeastNatural ==
    ASSUME NEW T, T \subseteq Nat, T # {}
    PROVE  \E x \in T : \A y \in T : x <= y
<1> DEFINE Less == {p \in Nat \X Nat : p[1] < p[2]}
<1>1. PICK x \in T : \A y \in T : <<y, x>> \notin Less
  <2>1. IsWellFoundedOn(Less, Nat)
    BY NatLessThanWellFounded DEF OpToRel
  <2> HIDE DEF Less
  <2> QED
    BY <2>1, WFMin
<1>2. \A y \in T : ~(y < x)
  BY <1>1
<1> QED
  BY <1>2

\* The vehicles are ordered by position and number; whoever is asked for the first of
\* some of them gets an answer.
LEMMA FirstInQueue ==
    ASSUME TypeOK, NEW S, S \subseteq Vehicle, S # {}
    PROVE  \E a \in S : \A b \in S \ {a} : QueueBefore(a, b)
<1>1. \A v \in S : v \in Nat /\ entries[v].position \in Nat
  BY PayloadAssumption DEF TypeOK, VehicleEntry
<1> DEFINE P == {entries[v].position : v \in S}
<1>2. PICK p \in P : \A q \in P : p <= q
  <2>1. P \subseteq Nat /\ P # {}
    BY <1>1
  <2> HIDE DEF P
  <2> QED
    BY <2>1, LeastNatural
<1> DEFINE N == {v \in S : entries[v].position = p}
<1>3. PICK a \in N : \A b \in N : a <= b
  <2>1. N \subseteq Nat /\ N # {}
    BY <1>1, <1>2
  <2> HIDE DEF N
  <2> QED
    BY <2>1, LeastNatural
<1>4. ASSUME NEW b \in S \ {a} PROVE QueueBefore(a, b)
  <2>1. entries[a].position = p /\ entries[b].position \in P
    OBVIOUS
  <2>2. p <= entries[b].position
    BY <1>2, <2>1
  <2>3. entries[b].position = p => a <= b
    BY <1>3
  <2> QED
    BY <1>1, <2>1, <2>2, <2>3 DEF QueueBefore
<1> QED
  BY <1>4

\* The order of the queue is strict.
LEMMA QueueOrder ==
    ASSUME TypeOK, NEW u \in Vehicle, NEW v \in Vehicle, NEW w \in Vehicle
    PROVE  /\ QueueBefore(u, v) => ~QueueBefore(v, u)
           /\ QueueBefore(u, v) /\ QueueBefore(v, w) => QueueBefore(u, w)
<1>1. \A x \in Vehicle : x \in Nat /\ entries[x].position \in Nat
  BY PayloadAssumption DEF TypeOK, VehicleEntry
<1> QED
  BY <1>1 DEF QueueBefore

\* A vehicle that makes way for an ambulance, or is one, entered the work queue for one.
LEMMA OwnerIsFlushed ==
    ASSUME TypeOK, NEW v \in Vehicle, Flushes(v) # {}
    PROVE  /\ Owner(v) \in Flushes(v)
           /\ \A b \in Flushes(v) \ {Owner(v)} : QueueBefore(Owner(v), b)
<1>1. Flushes(v) \subseteq Vehicle
  BY DEF Flushes, Ambulances
<1>2. \E a \in Flushes(v) : \A b \in Flushes(v) \ {a} : QueueBefore(a, b)
  BY <1>1, FirstInQueue
<1> QED
  BY <1>2 DEF Owner

PlacedAhead(a) == {v \in Ahead(a) : Placed(v)}

\* The batches so far, the open one included, each placed somebody ahead of every
\* ambulance that still waits.
BatchCount == IF open THEN n_batches + 1 ELSE n_batches

PriorityInv ==
    /\ SafetyInv
    /\ AmbulanceBound
    /\ \A a \in Ambulances : ~Placed(a) => BatchCount <= Cardinality(PlacedAhead(a))

\* While an ambulance waits, the first vehicle that may be scheduled is ahead of it or
\* is the ambulance.
LEMMA HeadIsAhead ==
    ASSUME SafetyInv, NEW a \in Ambulances, ~Placed(a),
           NEW h \in Vehicle, IsFirst(h, Schedulable)
    PROVE  h = a \/ h \in Ahead(a)
<1>0. TypeOK /\ a \in Vehicle
  BY DEF SafetyInv, Ambulances
<1> DEFINE W == {v \in Vehicle : ~Placed(v) /\ (v = a \/ InFront(v, a))}
<1>1. PICK u \in W : \A v \in W \ {u} : QueueBefore(u, v)
  <2>1. W \subseteq Vehicle /\ W # {}
    BY <1>0
  <2> HIDE DEF W
  <2> QED
    BY <1>0, <2>1, FirstInQueue
<1>2. u \in Schedulable
  <2> SUFFICES ASSUME NEW w \in Vehicle, InFront(w, u), ~Placed(w) PROVE FALSE
    BY DEF Schedulable, AllSameLaneFrontPlaced
  <2>1. InFront(w, a)
    BY <1>0, QueueOrder DEF InFront
  <2>2. w \in W /\ QueueBefore(w, u)
    BY <2>1 DEF InFront
  <2>3. w # u
    BY <1>0, <2>2, QueueOrder
  <2> QED
    BY <1>0, <1>1, <2>2, <2>3, QueueOrder
\* The ambulance that u makes way for first is a, or one before a.
<1>3. /\ Flushes(u) # {} /\ Owner(u) \in Ambulances
      /\ Owner(u) = a \/ QueueBefore(Owner(u), a)
  <2>1. CASE u = a \/ u \notin Ambulances
    <3>1. a \in Flushes(u)
      BY <2>1 DEF Flushes
    <3>2. /\ Owner(u) \in Flushes(u)
          /\ \A b \in Flushes(u) \ {Owner(u)} : QueueBefore(Owner(u), b)
      BY <1>0, <3>1, OwnerIsFlushed
    <3> QED
      BY <3>1, <3>2 DEF Flushes
  <2>2. CASE u # a /\ u \in Ambulances
    <3>1. Flushes(u) = {u} /\ QueueBefore(u, a)
      BY <2>2 DEF Flushes, InFront
    <3>2. Owner(u) \in Flushes(u)
      BY <1>0, <3>1, OwnerIsFlushed
    <3> QED
      BY <2>2, <3>1, <3>2
  <2> QED
    BY <2>1, <2>2
\* ... and so is the one that the head makes way for.
<1>4. Flushes(h) # {} /\ (Owner(h) = Owner(u) \/ QueueBefore(Owner(h), Owner(u)))
  <2>1. CASE h = u
    BY <1>3, <2>1
  <2>2. CASE h # u
    <3>1. WorkBefore(h, u)
      BY <1>2, <2>2 DEF IsFirst
    <3> QED
      BY <1>3, <3>1 DEF WorkBefore
  <2> QED
    BY <2>1, <2>2
<1>5. Owner(h) \in Flushes(h)
  BY <1>0, <1>4, OwnerIsFlushed
<1>6. Owner(h) \in Ambulances /\ Owner(h) \in Vehicle /\ Owner(u) \in Vehicle
  BY <1>3, <1>5 DEF Flushes, Ambulances
<1>7. Owner(h) = a \/ QueueBefore(Owner(h), a)
  BY <1>0, <1>3, <1>4, <1>6, QueueOrder
<1>8. h = Owner(h) \/ InFront(h, Owner(h))
  BY <1>5 DEF Flushes
<1> QED
  BY <1>6, <1>7, <1>8 DEF Ahead

\* What is ahead of an ambulance is read from the payload.
LEMMA AheadFrame ==
    ASSUME UNCHANGED payload
    PROVE  Ambulances' = Ambulances /\ \A a : Ahead(a)' = Ahead(a)
BY DEF payload, Ambulances, Ahead, InFront, QueueBefore

LEMMA AheadIsFinite ==
    ASSUME NEW a
    PROVE  /\ IsFiniteSet(Ahead(a)) /\ IsFiniteSet(PlacedAhead(a))
           /\ Cardinality(PlacedAhead(a)) \in Nat /\ Cardinality(Ahead(a)) \in Nat
           /\ Cardinality(PlacedAhead(a)) <= Cardinality(Ahead(a))
<1>1. Ahead(a) \subseteq Vehicle /\ PlacedAhead(a) \subseteq Ahead(a)
  BY DEF Ahead, PlacedAhead
<1>2. IsFiniteSet(Ahead(a))
  BY <1>1, PayloadAssumption, FS_Subset
<1> QED
  BY <1>1, <1>2, FS_Subset, FS_CardinalityType

\* Placing a vehicle does not lose one that was placed.
LEMMA PlaceKeepsAhead ==
    ASSUME SafetyInv, NEW h \in Schedulable, UNCHANGED payload,
           batch_of' = [batch_of EXCEPT ![h] = n_batches], NEW a
    PROVE  PlacedAhead(a)' = IF h \in Ahead(a) THEN PlacedAhead(a) \cup {h} ELSE PlacedAhead(a)
<1>1. /\ h \in Vehicle /\ ~Placed(h) /\ batch_of \in [Vehicle -> Int] /\ n_batches \in Nat
  BY DEF Schedulable, SafetyInv, TypeOK
<1>2. \A v \in Vehicle : Placed(v)' <=> v = h \/ Placed(v)
  BY <1>1 DEF Placed, Unplaced
<1>3. Ahead(a)' = Ahead(a) /\ Ahead(a) \subseteq Vehicle
  BY AheadFrame DEF Ahead
<1> QED
  BY <1>2, <1>3 DEF PlacedAhead

\* The bound of an ambulance that is placed does not move.
LEMMA PlaceKeepsBound ==
    ASSUME PriorityInv, NEW h \in Schedulable, UNCHANGED payload,
           batch_of' = [batch_of EXCEPT ![h] = n_batches],
           h \in Ambulances => n_batches <= Cardinality(PlacedAhead(h))
    PROVE  AmbulanceBound'
<1>1. h \in Vehicle /\ batch_of \in [Vehicle -> Int] /\ n_batches \in Nat
  BY DEF Schedulable, PriorityInv, SafetyInv, TypeOK
<1> SUFFICES ASSUME NEW a \in Ambulances, Placed(a)'
             PROVE  batch_of'[a] <= Cardinality(Ahead(a))
  BY AheadFrame DEF AmbulanceBound
<1>2. a \in Vehicle
  BY DEF Ambulances
<1>3. CASE a = h
  BY <1>1, <1>3, AheadIsFinite
<1>4. CASE a # h
  <2>1. Placed(a) /\ batch_of'[a] = batch_of[a]
    BY <1>1, <1>2, <1>4 DEF Placed
  <2> QED
    BY <2>1 DEF PriorityInv, AmbulanceBound
<1> QED
  BY <1>3, <1>4

LEMMA HeadKeepsPriority ==
    ASSUME PriorityInv, NEW h \in Vehicle, PickHead(h)
    PROVE  PriorityInv'
<1>1. /\ h \in Schedulable /\ UNCHANGED payload /\ ~open /\ IsFirst(h, Schedulable)
      /\ batch_of' = [batch_of EXCEPT ![h] = n_batches]
      /\ n_batches \in Nat /\ batch_of \in [Vehicle -> Int] /\ ~Placed(h) /\ SafetyInv
  BY DEF PickHead, IsFirst, Schedulable, PriorityInv, SafetyInv, TypeOK
<1>2. SafetyInv'
  BY <1>1, HeadIsSafe
<1>3. BatchCount' = n_batches + 1
  BY <1>1 DEF PickHead, BatchCount
<1>4. \A a \in Ambulances : ~Placed(a) => n_batches <= Cardinality(PlacedAhead(a))
  BY <1>1 DEF PriorityInv, BatchCount
<1>5. AmbulanceBound'
  BY <1>1, <1>4, PlaceKeepsBound
<1>6. ASSUME NEW a \in Ambulances, ~Placed(a)'
      PROVE  BatchCount' <= Cardinality(PlacedAhead(a))'
  <2>1. a \in Vehicle /\ a # h /\ ~Placed(a)
    BY <1>1, <1>6 DEF Ambulances, Placed, Unplaced
  <2>2. h \in Ahead(a)
    BY <1>1, <2>1, HeadIsAhead
  <2>3. PlacedAhead(a)' = PlacedAhead(a) \cup {h} /\ h \notin PlacedAhead(a)
    BY <1>1, <2>2, PlaceKeepsAhead DEF PlacedAhead
  <2>4. Cardinality(PlacedAhead(a) \cup {h}) = Cardinality(PlacedAhead(a)) + 1
    BY <2>3, AheadIsFinite, FS_AddElement
  <2>5. n_batches <= Cardinality(PlacedAhead(a)) /\ Cardinality(PlacedAhead(a)) \in Nat
    BY <1>4, <2>1, AheadIsFinite
  <2>6. Cardinality(PlacedAhead(a))' = Cardinality(PlacedAhead(a)) + 1
    BY <2>3, <2>4
  <2> QED
    BY <1>1, <1>3, <2>5, <2>6
<1> QED
  BY <1>1, <1>2, <1>5, <1>6, AheadFrame DEF PriorityInv

LEMMA AdmitKeepsPriority ==
    ASSUME PriorityInv, NEW h \in Vehicle, Admit(h)
    PROVE  PriorityInv'
<1>1. /\ h \in Schedulable /\ UNCHANGED payload /\ open /\ UNCHANGED <<n_batches, open>>
      /\ batch_of' = [batch_of EXCEPT ![h] = n_batches]
      /\ n_batches \in Nat /\ batch_of \in [Vehicle -> Int] /\ ~Placed(h) /\ SafetyInv
  BY DEF Admit, IsFirst, Admissible, Schedulable, PriorityInv, SafetyInv, TypeOK
<1>2. SafetyInv'
  BY <1>1, AdmitIsSafe
<1>3. BatchCount' = n_batches + 1 /\ BatchCount = n_batches + 1
  BY <1>1 DEF BatchCount
<1>4. \A a \in Ambulances : ~Placed(a) => n_batches + 1 <= Cardinality(PlacedAhead(a))
  BY <1>3 DEF PriorityInv
<1>5. AmbulanceBound'
  <2>1. h \in Ambulances => n_batches <= Cardinality(PlacedAhead(h))
    BY <1>1, <1>4, AheadIsFinite
  <2> QED
    BY <1>1, <2>1, PlaceKeepsBound
<1>6. ASSUME NEW a \in Ambulances, ~Placed(a)'
      PROVE  BatchCount' <= Cardinality(PlacedAhead(a))'
  <2>1. ~Placed(a) /\ a \in Vehicle
    BY <1>1, <1>6 DEF Ambulances, Placed, Unplaced
  <2>2. PlacedAhead(a) \subseteq PlacedAhead(a)' /\ IsFiniteSet(PlacedAhead(a)')
    <3>1. PlacedAhead(a)' \subseteq PlacedAhead(a) \cup {h} /\ PlacedAhead(a) \subseteq PlacedAhead(a)'
      BY <1>1, PlaceKeepsAhead
    <3>2. IsFiniteSet(PlacedAhead(a)')
      <4>1. PlacedAhead(a)' \subseteq Ahead(a)
        BY <1>1, AheadFrame DEF PlacedAhead
      <4> QED
        BY <4>1, AheadIsFinite, FS_Subset
    <3> QED
      BY <3>1, <3>2
  <2>3. Cardinality(PlacedAhead(a)) <= Cardinality(PlacedAhead(a)')
    BY <2>2, FS_Subset
  <2>4. Cardinality(PlacedAhead(a)) \in Nat /\ Cardinality(PlacedAhead(a)') \in Nat
    BY <2>2, AheadIsFinite, FS_CardinalityType
  <2> QED
    BY <1>1, <1>3, <1>4, <2>1, <2>3, <2>4
<1> QED
  BY <1>1, <1>2, <1>5, <1>6, AheadFrame DEF PriorityInv

LEMMA PriorityNext == PriorityInv /\ [Next]_vars => PriorityInv'
<1> SUFFICES ASSUME PriorityInv, [Next]_vars PROVE PriorityInv'
  OBVIOUS
<1>1. SafetyInv'
  BY ScheduleNext DEF PriorityInv
<1>2. ASSUME UNCHANGED payload, batch_of' = batch_of, BatchCount' = BatchCount
      PROVE  PriorityInv'
  <2>1. AmbulanceBound'
    BY <1>2, AheadFrame DEF PriorityInv, AmbulanceBound, Placed
  <2>2. \A a : PlacedAhead(a)' = PlacedAhead(a) /\ (Placed(a)' <=> Placed(a))
    BY <1>2, AheadFrame DEF PlacedAhead, Placed
  <2> QED
    BY <1>1, <1>2, <2>1, <2>2, AheadFrame DEF PriorityInv
<1>3. CASE EndPass
  <2>1. BatchCount' = BatchCount
    BY <1>3 DEF EndPass, BatchCount, PriorityInv, SafetyInv, TypeOK
  <2> QED
    BY <1>2, <1>3, <2>1 DEF EndPass
<1>4. CASE UNCHANGED vars
  BY <1>2, <1>4 DEF vars, BatchCount
<1> QED
  BY <1>3, <1>4, HeadKeepsPriority, AdmitKeepsPriority DEF Next

\* Whatever payload is committed, an ambulance is preceded by at most as many batches
\* as there are vehicles that are, or stand in front of, an ambulance up to it: each of
\* these batches is headed by one of them.
THEOREM PriorityIsBounded == Spec => []AmbulanceBound
<1>1. Init => PriorityInv
  <2> SUFFICES ASSUME Init PROVE PriorityInv
    OBVIOUS
  <2>1. \A v \in Vehicle : ~Placed(v)
    BY DEF Init, Placed
  <2>2. AmbulanceBound
    BY <2>1 DEF AmbulanceBound, Ambulances
  <2>3. BatchCount = 0
    BY DEF Init, BatchCount
  <2> QED
    BY <2>2, <2>3, ScheduleInit, AheadIsFinite DEF PriorityInv
<1>2. PriorityInv => AmbulanceBound
  BY DEF PriorityInv
<1> QED
  BY <1>1, <1>2, PriorityNext, PTL DEF Spec

=============================================================================
