------------------------------ MODULE Crossing ------------------------------
(***************************************************************************)
(* How the decisions become motion: the batch-gated resume of              *)
(* processOrders(), the poll that watches the preceding batch, the wreck   *)
(* and the empty box, the stop-sign and consensus timeouts, and the recall *)
(* of vehicles by a CANCEL.  The road (SUMO) is modelled by the three      *)
(* places the code tells apart; certificates and PBFT, which Rollback      *)
(* models, are reduced here to what they promise: a decision is taken once *)
(* f+1 vehicles have echoed what it stands for, and reaches each vehicle   *)
(* in order and at any later time.                                         *)
(***************************************************************************)
EXTENDS Integers, Sequences, FiniteSets

CONSTANTS
    Vehicle,
    Nobody,
    F,              \* tolerated_faults_
    Batches,        \* bound: batches of an ORDER
    Schedules,      \* [Vehicle -> batch] that ORDER(0) may give
    RollbackModes,  \* \subseteq BOOLEAN: values of enableRollback
    Timer,          \* \subseteq {"stop_sign", "consensus"}
    Timeouts,       \* BOOLEAN: clearance_timeout may pass
    Complete        \* BOOLEAN: discovery of epoch 1 finds everybody in line

\* BuildIntersectionSchedule() leaves no batch empty.
Gapless(s) == \A v \in Vehicle : s[v] > 0 => \E w \in Vehicle : s[w] = s[v] - 1

NoSlot  == [epoch |-> -1, batch |-> -1]
Slot    == [epoch : {0, 1}, batch : 0 .. Batches - 1]
Dwell   == {"NO", "DWELL", "ECHOED"}

ASSUME CrossingAssumption ==
    /\ IsFiniteSet(Vehicle) /\ Nobody \notin Vehicle /\ F \in Nat /\ Batches \in Nat \ {0}
    /\ Schedules \subseteq [Vehicle -> 0 .. Batches - 1]
    /\ \A s \in Schedules : Gapless(s)
    /\ RollbackModes \subseteq BOOLEAN /\ Timeouts \in BOOLEAN /\ Complete \in BOOLEAN

VARIABLES
    place,      \* "line" before the box, "box" on a junction lane, "clear"
    wreck,      \* the vehicle that broke down in the box, or Nobody
    decided,    \* what PBFT has ordered: ORDER(0), CANCEL(0), ORDER(1)
    enableRollback,  \* a parameter of the deployment, fixed
    app         \* [Vehicle -> App]

vars == <<place, wreck, decided, enableRollback, app>>

App == [
    entered           : BOOLEAN,   \* entered_stop_zone_
    released          : BOOLEAN,   \* resumeVehicle() after the last stopVehicle()
    order_applied     : BOOLEAN,
    epoch             : {0, 1},    \* current_epoch_
    last              : {-1, 0, 1},  \* last_committed_epoch_
    slot              : Slot \cup {NoSlot},  \* my_batch_index_, and whose it is
    poll              : BOOLEAN,   \* preceding_batch_poll_msg_ is scheduled
    overdue           : BOOLEAN,   \* released by clearance_timeout
    timers            : SUBSET Timer,
    consensus_pending : BOOLEAN,   \* cancel_consensus_pending_
    cancel_pending    : BOOLEAN,
    tombstones        : SUBSET {0},
    crash             : Dwell,     \* crash_dwell_since_, crash_echoed_targets_
    clear             : Dwell,     \* clear_dwell_since_, clear_echoed_incidents_
    incident          : {"NONE", "BLOCKING", "CLEARED"},
    queue             : 0 .. 3,    \* decisions the executor has handed over
    handled           : 0 .. 3]    \* ... and processOrders() has taken

Fresh == [entered |-> FALSE, released |-> FALSE, order_applied |-> FALSE,
          epoch |-> 0, last |-> -1, slot |-> NoSlot, poll |-> FALSE,
          overdue |-> FALSE, timers |-> {}, consensus_pending |-> FALSE,
          cancel_pending |-> FALSE, tombstones |-> {}, crash |-> "NO",
          clear |-> "NO", incident |-> "NONE", queue |-> 0, handled |-> 0]

Init == /\ place = [v \in Vehicle |-> "line"]
        /\ wreck = Nobody
        /\ decided = <<>>
        /\ enableRollback \in RollbackModes
        /\ app = [v \in Vehicle |-> Fresh]

(* decisions: ORDER(e) at 1 and 3, CANCEL(0) at 2; -1 is no slot *)
Order(e, s) == [kind |-> "ORDER", epoch |-> e, batch |-> s]
Cancel0 == [kind |-> "CANCEL", epoch |-> 0, batch |-> [v \in Vehicle |-> -1]]
BatchOf(e, v) == decided[IF e = 0 THEN 1 ELSE 3].batch[v]
Members(e) == {v \in Vehicle : BatchOf(e, v) >= 0}

BoxOccupied == \E v \in Vehicle : place[v] = "box"
Rolling(v) == place[v] = "line" /\ app[v].released
CancelActive(s) == s.cancel_pending \/ s.consensus_pending

\* isRecallable(); whoever cannot brake any more counts as in the box.
isRecallable(v) == place[v] = "line"

-----------------------------------------------------------------------------
(* resumeVehicle() and stopVehicle() *)
resumeVehicle(s) == [s EXCEPT !.released = TRUE]
Recall(s) == [s EXCEPT !.poll = FALSE, !.released = FALSE, !.overdue = FALSE]

(* processOrders(), one ORDER: an excluded vehicle stays stopped, batch 0  *)
(* goes at once, any other starts the poll.                                *)
ApplyOrder(s, v, d) ==
    LET back == IF s.cancel_pending /\ d.epoch = 1
                THEN [s EXCEPT !.cancel_pending = FALSE] ELSE s
        taken == [back EXCEPT !.last = d.epoch, !.timers = {}]
        mine == [taken EXCEPT !.order_applied = TRUE, !.overdue = FALSE,
                              !.slot = [epoch |-> d.epoch, batch |-> d.batch[v]]]
    IN  IF \/ place[v] = "clear"
           \/ d.epoch \in s.tombstones
           \/ s.order_applied /\ d.epoch <= s.epoch
        THEN s
        ELSE IF d.batch[v] < 0
             THEN [taken EXCEPT !.order_applied = @ \/ d.epoch = s.epoch]
             ELSE IF d.batch[v] = 0 THEN resumeVehicle(mine)
             ELSE [mine EXCEPT !.poll = TRUE]

\* Variant: the poll is not armed again after a CANCEL.
BeginDiscoveryNoPoll(s, v) ==
    LET t == IF isRecallable(v) THEN Recall(s) ELSE s
    IN  IF s.cancel_pending THEN s
        ELSE [t EXCEPT !.cancel_pending = TRUE, !.epoch = 1, !.order_applied = FALSE]

(* beginPostCancelDiscovery() *)
BeginDiscovery(s, v) ==
    LET t == IF isRecallable(v) THEN Recall(s) ELSE s
    IN  IF s.cancel_pending THEN s
        ELSE [t EXCEPT !.cancel_pending = TRUE, !.epoch = 1,
                       !.order_applied = FALSE, !.poll = @ \/ enableRollback]

(* handleCancelCommitDecision() *)
ApplyCancel(s, v) ==
    BeginDiscovery([s EXCEPT !.tombstones = @ \cup {0}, !.consensus_pending = FALSE], v)

Apply(s, v, d) == IF d.kind = "CANCEL" THEN ApplyCancel(s, v) ELSE ApplyOrder(s, v, d)

(* One pass of its loop, for the next decision that is queued. *)
TakeNext(s, v) ==
    IF s.handled >= s.queue THEN s
    ELSE [Apply(s, v, decided[s.handled + 1]) EXCEPT !.handled = s.handled + 1]

\* Variant: decisions in front of the swap are counted again.
processOrdersCounts(s, v) ==
    [TakeNext(TakeNext(TakeNext(s, v), v), v) EXCEPT !.handled = s.handled + s.queue]

(* processOrders() takes all that is queued: no more than three decisions. *)
processOrders(s, v) == TakeNext(TakeNext(TakeNext(s, v), v), v)

-----------------------------------------------------------------------------
(* The road.  A wreck stays in the box until it is towed; its app is mute. *)
Alive(v) == v # wreck

Enter(v) == /\ Rolling(v)
            /\ place' = [place EXCEPT ![v] = "box"]
            /\ UNCHANGED <<wreck, decided, enableRollback, app>>

Leave(v) == /\ place[v] = "box" /\ v # wreck
            /\ place' = [place EXCEPT ![v] = "clear"]
            /\ UNCHANGED <<wreck, decided, enableRollback, app>>

\* Bound: one wreck.
Crash(v) == /\ wreck = Nobody /\ place[v] = "box"
            /\ wreck' = v
            /\ app' = [app EXCEPT ![v].poll = FALSE]
            /\ UNCHANGED <<place, decided, enableRollback>>

Tow == /\ wreck # Nobody /\ place[wreck] = "box"
       /\ place' = [place EXCEPT ![wreck] = "clear"]
       /\ UNCHANGED <<wreck, decided, enableRollback, app>>

(* handlePositionUpdate() in the stop zone *)
EnterStopZone(v) ==
    /\ Alive(v) /\ ~app[v].entered /\ ~app[v].order_applied /\ place[v] = "line"
    /\ app' = [app EXCEPT ![v].entered = TRUE, ![v].released = FALSE, ![v].timers = Timer]
    /\ UNCHANGED <<place, wreck, decided, enableRollback>>

(* PBFT, and the gates before it: see Rollback.                            *)
Echoed(x) == {v \in Vehicle : app[v][x] = "ECHOED"}
Witnessed == Cardinality(Echoed("crash")) >= F + 1
Cleared == Cardinality(Echoed("clear")) >= F + 1

Decide(d) == /\ decided' = Append(decided, d)
             /\ UNCHANGED <<place, wreck, enableRollback, app>>

DecideOrder0 == decided = <<>> /\ \E s \in Schedules : Decide(Order(0, s))

DecideCancel0 == /\ Len(decided) = 1 /\ Witnessed
                 /\ \E v \in Vehicle : app[v].consensus_pending
                 /\ Decide(Cancel0)

\* Those that announced themselves for epoch 1; only who is in line does.
Announced == {v \in Vehicle : app[v].cancel_pending /\ place[v] = "line"}
DecideOrder1 ==
    /\ Len(decided) = 2 /\ Cleared /\ Announced # {}
    /\ Complete => Announced = {v \in Vehicle : place[v] = "line"}
    /\ \E s \in [Vehicle -> -1 .. Batches - 1] :
          /\ {v \in Vehicle : s[v] >= 0} = Announced /\ Gapless(s)
          /\ Decide(Order(1, s))

-----------------------------------------------------------------------------
(* The app *)
Step(v, s) == /\ app' = [app EXCEPT ![v] = s]
              /\ UNCHANGED <<place, wreck, decided, enableRollback>>

\* The executor's callback queues the next decision.
Deliver(v) == /\ Alive(v) /\ app[v].queue < Len(decided)
              /\ Step(v, [app[v] EXCEPT !.queue = @ + 1])

TransportPoll(v) == /\ Alive(v) /\ app[v].handled < app[v].queue
                    /\ Step(v, processOrders(app[v], v))

(* The CANCEL certificate registers the incident, then                     *)
(* handleValidCancelJustification() recalls the vehicle.                   *)
HandleCancelCert(v) ==
    LET s == [app[v] EXCEPT !.incident = IF @ = "NONE" THEN "BLOCKING" ELSE @]
        t == IF isRecallable(v) THEN Recall(s) ELSE s
    IN  /\ Alive(v) /\ enableRollback /\ Witnessed /\ s.last >= 0
        /\ Step(v, IF CancelActive(s) \/ 0 \in s.tombstones THEN s
                   ELSE [t EXCEPT !.consensus_pending = TRUE])

HandleClearCert(v) == /\ Alive(v) /\ Cleared /\ app[v].incident = "BLOCKING"
                      /\ Step(v, [app[v] EXCEPT !.incident = "CLEARED"])

\* Variant: the timeout does not look at the queue first.
TimeoutUnflushed(v, t) ==
    LET s == [app[v] EXCEPT !.timers = @ \ {t}]
    IN  /\ Alive(v) /\ t \in app[v].timers
        /\ Step(v, IF s.order_applied \/ CancelActive(s) \/ enableRollback THEN s
                   ELSE resumeVehicle([s EXCEPT !.order_applied = TRUE]))

(* stop_sign_timeout_msg_ and consensus_timeout_msg_: apply what is queued *)
(* first; then stay stopped, or without rollback cross uncoordinated.      *)
Timeout(v, t) ==
    LET s == processOrders([app[v] EXCEPT !.timers = @ \ {t}], v)
    IN  /\ Alive(v) /\ t \in app[v].timers
        /\ Step(v, IF s.order_applied \/ CancelActive(s) \/ enableRollback THEN s
                   ELSE resumeVehicle([s EXCEPT !.order_applied = TRUE]))

(* The poll looks for a wreck in all batches before its own...  A dwell    *)
(* time is longer than a released vehicle takes from the line to the box.  *)
DwellOver == \A v \in Vehicle : ~Rolling(v)
SeesWreck(s) == /\ wreck # Nobody /\ place[wreck] = "box" /\ s.last >= 0
                /\ BatchOf(s.last, wreck) >= 0
                /\ BatchOf(s.last, wreck) < s.slot.batch
ScanCrash(s) ==
    IF ~SeesWreck(s) THEN {[s EXCEPT !.crash = IF @ = "ECHOED" THEN @ ELSE "NO"]}
    ELSE IF s.crash = "NO" THEN {[s EXCEPT !.crash = "DWELL"]}
    ELSE {s} \cup (IF DwellOver THEN {[s EXCEPT !.crash = "ECHOED"]} ELSE {})

(* ... and for an empty box while an incident blocks. *)
ScanClear(s) ==
    IF s.incident # "BLOCKING" \/ s.clear = "ECHOED" THEN {s}
    ELSE IF BoxOccupied THEN {[s EXCEPT !.clear = "NO"]}
    ELSE IF s.clear = "NO" THEN {[s EXCEPT !.clear = "DWELL"]}
    ELSE {s} \cup (IF DwellOver THEN {[s EXCEPT !.clear = "ECHOED"]} ELSE {})

Scan(s) == IF enableRollback THEN UNION {ScanClear(c) : c \in ScanCrash(s)} ELSE {s}

Preceding(s) == {w \in Vehicle : BatchOf(s.slot.epoch, w) = s.slot.batch - 1}

\* Variant: one vehicle of the preceding batch is enough.
SomeCleared(s) == \E w \in Preceding(s) : place[w] = "clear"

AllCleared(s) == \A w \in Preceding(s) : place[w] = "clear"

\* Variant: a pending CANCEL does not hold the vehicle back.
GateWithoutCancel(s, timedOut) ==
    IF s.slot.batch <= 0 THEN [s EXCEPT !.poll = FALSE]
    ELSE IF AllCleared(s) \/ timedOut
    THEN resumeVehicle([s EXCEPT !.poll = FALSE, !.overdue = @ \/ ~AllCleared(s)])
    ELSE s

(* The gate: nothing to wait for, or still waiting, or go. *)
Gate(s, timedOut) ==
    IF s.slot.batch <= 0 THEN [s EXCEPT !.poll = FALSE]
    ELSE IF (AllCleared(s) \/ timedOut) /\ ~CancelActive(s)
    THEN resumeVehicle([s EXCEPT !.poll = FALSE, !.overdue = @ \/ ~AllCleared(s)])
    ELSE s

(* preceding_batch_poll_msg_ *)
PrecedingBatchPoll(v) ==
    /\ Alive(v) /\ app[v].poll
    /\ \E s \in Scan(app[v]) : \E timedOut \in {FALSE, Timeouts} : Step(v, Gate(s, timedOut))

AppNext(v) == \/ EnterStopZone(v) \/ Deliver(v) \/ TransportPoll(v)
              \/ HandleCancelCert(v) \/ HandleClearCert(v)
              \/ \E t \in Timer : Timeout(v, t)
              \/ PrecedingBatchPoll(v)

PbftNext == DecideOrder0 \/ DecideCancel0 \/ DecideOrder1

Next == \/ \E v \in Vehicle : AppNext(v) \/ Enter(v) \/ Leave(v) \/ Crash(v)
        \/ Tow \/ PbftNext

(* Radio retries deliver certificates and decisions, released vehicles     *)
(* drive, the scenario manager tows, the polls tick: none of them stops    *)
(* while it can still change something.  Each can do so only finitely      *)
(* often, so that one condition covers them all.                           *)
Progress == \/ Tow \/ PbftNext
            \/ \E v \in Vehicle : \/ Enter(v) \/ Leave(v) \/ Deliver(v) \/ TransportPoll(v)
                                  \/ HandleCancelCert(v) \/ HandleClearCert(v)
                                  \/ PrecedingBatchPoll(v)
Fairness == WF_vars(Progress)

Spec == Init /\ [][Next]_vars
FairSpec == Spec /\ Fairness

-----------------------------------------------------------------------------
(* The fields keep their domains, and nobody stands on an ORDER or a       *)
(* decision that was not taken.                                            *)
TypeOK ==
    /\ place \in [Vehicle -> {"line", "box", "clear"}]
    /\ wreck \in Vehicle \cup {Nobody} /\ enableRollback \in BOOLEAN
    /\ Len(decided) <= 3 /\ app \in [Vehicle -> App]
    /\ \A v \in Vehicle : app[v].handled <= app[v].queue /\ app[v].queue <= Len(decided)

(* Batches share the box only when a timeout let them: if two vehicles of  *)
(* different batches of one ORDER are in the box, a vehicle of a batch     *)
(* after the earlier one was released by clearance_timeout, or had left on *)
(* its own before it got the ORDER (ARCHITECTURE.md:32, "waits for         *)
(* preceding batches to clear").                                           *)
WentEarly(u) == app[u].overdue \/ (app[u].slot = NoSlot /\ place[u] # "line")
BoxIsShared ==
    \A v, w \in Vehicle :
        LET a == app[v].slot
            b == app[w].slot
        IN  /\ place[v] = "box" /\ place[w] = "box"
            /\ a.epoch = b.epoch /\ a.epoch >= 0 /\ a.batch < b.batch
            => \E u \in Vehicle : /\ WentEarly(u) /\ app[u].slot.epoch \in {-1, a.epoch}
                                  /\ BatchOf(a.epoch, u) \in (a.batch + 1) .. b.batch

(* No vehicle starts while it knows of a pending CANCEL, or under an ORDER *)
(* that it has tombstoned (ARCHITECTURE.md:1077).                          *)
Starts(v) == ~app[v].released /\ app'[v].released
NoStartWhileCancelled ==
    [][\A v \in Vehicle : Starts(v) =>
            /\ ~CancelActive(app'[v])
            /\ app'[v].slot.epoch \notin app'[v].tombstones]_vars

(* A vehicle without a slot starts only without rollback, and only if its  *)
(* executor had no ORDER for it when the timer fired.                      *)
UncoordinatedIsLastResort ==
    [][\A v \in Vehicle : Starts(v) /\ app'[v].slot = NoSlot =>
            ~enableRollback /\ app[v].queue = 0]_vars

(* Who got a slot crosses, wreck or not: by its own ORDER or, when this is *)
(* cancelled, by that of the recovery epoch.                               *)
ScheduledCross == (decided # <<>>) ~> (\A v \in Vehicle : place[v] = "clear")

(* A vehicle that the committed ORDER leaves out does not start            *)
(* (ResDBDecision.cc:1124, "no slot in current epoch; staying              *)
(* stopped/excluded").                                                     *)
ExcludedStaysStopped ==
    [][\A v \in Vehicle : Starts(v) /\ app'[v].last >= 0 =>
            app'[v].slot.epoch = app'[v].last]_vars
=============================================================================
