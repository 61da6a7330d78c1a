----------------------------- MODULE Scheduler -----------------------------
(***************************************************************************)
(* BuildIntersectionSchedule(): the smart contract every executor runs on  *)
(* a committed ORDER payload.  It packs the vehicles of the payload into   *)
(* batches that cross one after the other.                                 *)
(*                                                                         *)
(* The loop takes the first vehicle of the work queue whose lane is free   *)
(* in front of it as the head of a batch, and then passes over the work    *)
(* queue, again and again while a pass admits somebody, to add vehicles    *)
(* that conflict with nobody in the batch.                                 *)
(***************************************************************************)
EXTENDS Integers, FiniteSets

CONSTANTS
    Vehicle,     \* the replica ids of the payload, distinct naturals
    Lane,        \* approaches: 0 = N, 1 = S, 2 = E, 3 = W
    Direction,   \* 0 = straight, 1 = left, 2 = right, 3 = unknown
    Position     \* values of position_in_lane; ties are possible

ASSUME PayloadAssumption ==
    /\ Vehicle \subseteq Nat /\ IsFiniteSet(Vehicle)
    /\ Lane \subseteq 0 .. 3 /\ Direction \subseteq 0 .. 3 /\ Position \subseteq Nat

VARIABLES
    entries,        \* [Vehicle -> VehicleEntry], the payload
    all_singleton,  \* RESDB_ALL_SINGLETON=1
    batch_of,       \* [Vehicle -> Int], Unplaced or the index of the batch
    n_batches,      \* batches_out.size()
    open,           \* a batch is growing; it has the index n_batches
    unseen,         \* what the pass over the work queue has not come to yet
    grew            \* the pass admitted somebody

payload == <<entries, all_singleton>>
vars    == <<payload, batch_of, n_batches, open, unseen, grew>>

Unplaced == -1

\* QUIET covers both of its marks.  A QUIET entry never claims to be an ambulance:
\* proposeAll() clears the flag and PreVerify rejects an entry that sets both.
VehicleEntry == [lane : Lane, direction : Direction, position : Position,
                 kind : {"CAR", "AMBULANCE", "QUIET"}]

-----------------------------------------------------------------------------
(* Conflicts *)

kSafe == { <<0, 0, 1, 0>>, <<2, 0, 3, 0>>, <<0, 2, 1, 2>>, <<0, 2, 2, 2>>,
           <<0, 2, 3, 2>>, <<1, 2, 2, 2>>, <<1, 2, 3, 2>>, <<2, 2, 3, 2>>,
           <<0, 2, 1, 0>>, <<1, 2, 0, 0>>, <<2, 2, 3, 0>>, <<3, 2, 2, 0>> }

IsSafeToBatch(a, b) ==
    /\ a.lane # b.lane
    /\ \/ <<a.lane, a.direction, b.lane, b.direction>> \in kSafe
       \/ <<b.lane, b.direction, a.lane, a.direction>> \in kSafe

IsQuietEntry(v) == entries[v].kind = "QUIET"

-----------------------------------------------------------------------------
(* Orders of the payload *)

QueueBefore(v, w) ==
    \/ entries[v].position < entries[w].position
    \/ entries[v].position = entries[w].position /\ v < w

InFront(v, w) == entries[v].lane = entries[w].lane /\ QueueBefore(v, w)

Ambulances == {v \in Vehicle : entries[v].kind = "AMBULANCE"}

\* Mutant: only the ambulance is moved to the front of the work queue.
FlushesItself(v) == {v} \cap Ambulances

\* The ambulances that v is, or whose way v blocks.
Flushes(v) == {a \in Ambulances : v = a \/ (v \notin Ambulances /\ InFront(v, a))}

\* v entered the work queue for the first of them.
Owner(v) == CHOOSE a \in Flushes(v) : \A b \in Flushes(v) \ {a} : QueueBefore(a, b)

\* Each ambulance in turn behind its blockers, then everybody else.
WorkBefore(v, w) ==
    LET pv == Flushes(v) # {}
        pw == Flushes(w) # {}
    IN  \/ pv /\ ~pw
        \/ pv /\ pw /\ QueueBefore(Owner(v), Owner(w))
        \/ pv /\ pw /\ Owner(v) = Owner(w) /\ QueueBefore(v, w)
        \/ ~pv /\ ~pw /\ QueueBefore(v, w)

IsFirst(v, S) == v \in S /\ \A w \in S \ {v} : WorkBefore(v, w)

Placed(v) == batch_of[v] # Unplaced
Batch(i)  == {v \in Vehicle : batch_of[v] = i}

\* Mutant: a vehicle at the same position is not looked at.
AllSameLaneFrontPlacedStrict(v) ==
    \A w \in Vehicle :
        (entries[w].lane = entries[v].lane /\ entries[w].position < entries[v].position)
            => Placed(w)

AllSameLaneFrontPlaced(v) == \A w \in Vehicle : InFront(w, v) => Placed(w)

\* Mutant: a candidate is compared with the head of the batch only.
SafeWithSomebody(v) ==
    ~IsQuietEntry(v)
    /\ \E w \in Batch(n_batches) : IsSafeToBatch(entries[v], entries[w])

SafeWithWholeBatch(v) ==
    /\ ~IsQuietEntry(v)
    /\ \A w \in Batch(n_batches) : IsSafeToBatch(entries[v], entries[w])

Schedulable == {v \in Vehicle : ~Placed(v) /\ AllSameLaneFrontPlaced(v)}
Admissible  == {v \in unseen \cap Schedulable : SafeWithWholeBatch(v)}

-----------------------------------------------------------------------------
(* The loop *)

Init ==
    /\ entries \in [Vehicle -> VehicleEntry] /\ all_singleton \in BOOLEAN
    /\ batch_of = [v \in Vehicle |-> Unplaced] /\ n_batches = 0
    /\ open = FALSE /\ unseen = {} /\ grew = FALSE

\* Mutant: batches are numbered from one.
PickHeadOneBased(head) ==
    /\ ~open /\ IsFirst(head, Schedulable)
    /\ batch_of' = [batch_of EXCEPT ![head] = n_batches + 1]
    /\ IF all_singleton \/ IsQuietEntry(head)
       THEN /\ n_batches' = n_batches + 1
            /\ UNCHANGED <<open, unseen, grew>>
       ELSE /\ open' = TRUE /\ unseen' = Vehicle /\ grew' = FALSE
            /\ UNCHANGED n_batches
    /\ UNCHANGED payload

\* A QUIET head, or any head in all-singleton mode, crosses alone.
PickHead(head) ==
    /\ ~open /\ IsFirst(head, Schedulable)
    /\ batch_of' = [batch_of EXCEPT ![head] = n_batches]
    /\ IF all_singleton \/ IsQuietEntry(head)
       THEN /\ n_batches' = n_batches + 1
            /\ UNCHANGED <<open, unseen, grew>>
       ELSE /\ open' = TRUE /\ unseen' = Vehicle /\ grew' = FALSE
            /\ UNCHANGED n_batches
    /\ UNCHANGED payload

\* Mutant: a batch takes one vehicle besides its head.
AdmitOne(v) ==
    /\ open /\ IsFirst(v, Admissible)
    /\ batch_of' = [batch_of EXCEPT ![v] = n_batches]
    /\ unseen' = {} /\ grew' = FALSE
    /\ UNCHANGED <<payload, n_batches, open>>

Admit(v) ==
    /\ open /\ IsFirst(v, Admissible)
    /\ batch_of' = [batch_of EXCEPT ![v] = n_batches]
    /\ unseen' = {w \in unseen : WorkBefore(v, w)}
    /\ grew' = TRUE
    /\ UNCHANGED <<payload, n_batches, open>>

\* Mutant: the flag of the pass before is not reset.
EndPassStale ==
    /\ open /\ Admissible = {}
    /\ IF grew
       THEN /\ unseen' = Vehicle
            /\ UNCHANGED <<n_batches, open, grew>>
       ELSE /\ open' = FALSE /\ unseen' = {} /\ n_batches' = n_batches + 1
            /\ UNCHANGED grew
    /\ UNCHANGED <<payload, batch_of>>

\* Another pass if this one admitted somebody, else the batch is complete.
EndPass ==
    /\ open /\ Admissible = {}
    /\ IF grew
       THEN /\ unseen' = Vehicle /\ grew' = FALSE
            /\ UNCHANGED <<n_batches, open>>
       ELSE /\ open' = FALSE /\ unseen' = {} /\ n_batches' = n_batches + 1
            /\ UNCHANGED grew
    /\ UNCHANGED <<payload, batch_of>>

Next ==
    \/ \E v \in Vehicle : PickHead(v) \/ Admit(v)
    \/ EndPass

\* A sequential function: it runs until it returns.
Spec == Init /\ [][Next]_vars /\ WF_vars(Next)

-----------------------------------------------------------------------------
(* Properties *)

\* The decisions are well formed: every batch index is that of a batch.
TypeOK ==
    /\ entries \in [Vehicle -> VehicleEntry] /\ all_singleton \in BOOLEAN
    /\ open \in BOOLEAN /\ grew \in BOOLEAN /\ unseen \subseteq Vehicle
    /\ n_batches \in Nat
    /\ batch_of \in [Vehicle -> Int]
    /\ \A v \in Vehicle : batch_of[v] \in Unplaced .. n_batches

\* Whoever crosses together does not conflict, pair by pair, and a QUIET vehicle
\* crosses alone.
NoConflictInBatch ==
    \A v, w \in Vehicle : v # w /\ Placed(v) /\ batch_of[v] = batch_of[w] =>
        /\ IsSafeToBatch(entries[v], entries[w])
        /\ ~IsQuietEntry(v)

\* Nobody is scheduled with or before a vehicle that stands in front of it in its lane:
\* ambulance priority, batching and QUIET singletons included.
LaneOrder ==
    \A v, w \in Vehicle : InFront(v, w) /\ Placed(w) =>
        Placed(v) /\ batch_of[v] < batch_of[w]

\* Those an ambulance may have to wait for: the ambulances before it, and whoever
\* stands in front of one of them or of itself.
Ahead(a) ==
    {v \in Vehicle \ {a} : \E b \in Ambulances : /\ b = a \/ QueueBefore(b, a)
                                                 /\ v = b \/ InFront(v, b)}

\* An ambulance waits for no batch but those headed by an earlier ambulance or by a
\* vehicle that blocks the lane of one of them: priority flushes the lane.
AmbulanceBound ==
    \A a \in Ambulances : Placed(a) => batch_of[a] <= Cardinality(Ahead(a))

\* No vehicle waits needlessly: a batch it could have joined, its lane being free then,
\* holds a vehicle that conflicts with it, unless singletons are due.
NoWastedRoom ==
    \A v \in Vehicle, i \in 0 .. n_batches - 1 :
        /\ ~IsQuietEntry(v) /\ ~all_singleton
        /\ ~Placed(v) \/ batch_of[v] > i
        /\ \A w \in Vehicle : InFront(w, v) => Placed(w) /\ batch_of[w] < i
        => \E w \in Batch(i) : IsQuietEntry(w) \/ ~IsSafeToBatch(entries[v], entries[w])

\* The function returns: every vehicle of the payload gets a batch.
EverybodyScheduled == <>(~open /\ \A v \in Vehicle : Placed(v))

=============================================================================
