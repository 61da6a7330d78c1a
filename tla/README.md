# A verification project for the V2V intersection protocol

Vehicles at an unsignalised intersection agree by Byzantine fault tolerant
consensus over radio on the order in which they cross, and roll that order back
when a crash or an ambulance invalidates it.  This directory holds TLA+ modules
translated from the source, TLC configurations that check them on small
instances, and TLAPS proofs for all instances.

| modules | content |
|---|---|
| `Rollback`, `MCRollback`, `Rollback_proofs`, `RollbackEpochs_proofs` | CANCEL certificate, CANCEL consensus, gossip, CLEAR evidence, recovery ORDER |
| `Scheduler`, `MCScheduler`, `Scheduler_proofs` | `BuildIntersectionSchedule()`, the executor's smart contract |
| `Executor`, `Executor_proofs` | `TransactionExecutor`: ordering thread, pool of execute threads, jump after gossip |
| `Ledger` | what the executor promises: each decision once, in order; `Executor` implements it |
| `Pbft`, `MCPbft`, `Pbft_proofs` | the PBFT normal case with forced views and a primary that the application moves |
| `Crossing`, `MCCrossing`, `Crossing_proofs` | how decisions become motion: batches, polls, timeouts, wreck, recall |
| `Discovery`, `Discovery_proofs` | announcements, arrival and stopped-distance certificates, rounds |
| `Certificates`, `MCCertificates`, `Certificates_proofs` | the CANCEL and the CLEAR certificate on the radio |
| `Evidence` | what a certificate of f+1 witnesses promises; `Certificates` implements it twice |
| `PROJECT.json` | components, runs, mutants, source map, findings, hazards, theorems |

To check: `tlc -config crossing.cfg MCCrossing.tla`, and so on (the modules of
the runs are in section 3); `tlapm Crossing_proofs.tla`.

## 1. Inventory of the system

Every vehicle is one `ResDBIntersectionApp` (an OMNeT++ module; all its handlers
run on the simulator thread, one event at a time) on top of one ResilientDB
server with worker threads (PBFT, `PreVerify`, executor).  The two meet in
`bridge/resdb_omnet_bridge.cc`: the app submits payloads and registers callbacks;
a worker thread pushes decided bytes into `pending_orders_`, and the app's
transport poll (`processOrders()`) takes them out.  So a decision is executed in
one step and *seen* by the app in a later one, and anything may happen between.

| component | state | operations | what makes it correct |
|---|---|---|---|
| Epoch rollback (`ResDBRollbackProtocol.cc`) | `cancel_state_`, `cancel_consensus_pending_`, `cancel_pending_`, `rollback_cancel_initiated_`, cancelled and new epoch, proposer candidates and rotation, `committed_cancels_`, incident registry, echo and certificate sets, frozen ORDER candidate | witness, certificate, drain, propose CANCEL, fail over, commit/adopt CANCEL, rediscover, CLEAR echo/certificate, readiness | only witnessed incidents cancel; only the committed CANCEL undoes an ORDER; after a crash the intersection reopens only when it is empty; a certified incident is cancelled in the end |
| Decision delivery, ORDER proposal (`ResDBDecision.cc`) | `pending_orders_`, `committed_order_vehicle_ids_`, `order_applied_`, `last_committed_epoch_`, batch | `processOrders`, `proposeAll` | no decision applied twice or against a tombstone; views only advance |
| App event loop (`ResDBIntersectionApp.cc`) | timers, phase, batch clearance | `handleSelfMsg`, `onWSM`, batch poll, departure, timeouts | timers act on current state only |
| Decision gossip (`ResDBDecisionGossip.cc` and TYPE9 handlers) | votes by epoch and sender | broadcast, accumulate, adopt at f+1 | what is adopted was decided |
| Witness certificates (`ResDBWitnessCert.cc`) | echoes by statement, registered keys, retries | register, collect, assemble, validate | f+1 distinct signers of the committed view, one of them honest |
| Consensus bridge (`resdb_omnet_bridge.cc`) | crash epochs, active view, certificate snapshot | `PreVerify`, `ExecuteData`, `TriggerConsensus`, views, executor jump | voters enforce what the proposer must respect |
| Scheduler (`resdb_intersection_scheduler.cc`) | none (a function) | `BuildIntersectionSchedule` | conflict-free batches, lane order, priority, completeness, termination |
| PBFT normal case and its patches (`commitment.cpp`, `message_manager.cpp`, `transaction_collector.cpp`, `omnet_forced_view.h`) | collectors by sequence number, next sequence, forced views, primary | propose, prepare, commit, `TriggerConsensus`, `EnsureNextSeqAheadOfExecuted` | honest replicas agree on every sequence number, also when the application moves the primary inside one view |
| Transaction executor (`transaction_executor.cpp`, `AdvanceExecutorAfterGossipCancel`) | candidates, queues, ring of flags, `last_seq_` | order, execute, jump | each decision reaches the app once, in order, none skipped |
| Arrival discovery (`ResDBArrivalProtocol.cc`) | `DiscoveryState`, announcements, echoes, certificates, deadlines | announce, echo, certify, drain, finish | a round closes once, for its epoch, with valid certificates |
| Stopped-distance certificates (`ResDBDistanceProtocol.cc`) | attestations, echoes, certificates | attest, echo, certify, rank | ranks are a function of certified distances |
| Transport and relay (`ResDBTransport.cc`) | outbound and discovery queues, retry entries, pending relays | enqueue, drain, retry, relay, suppress | a packet is retried until its phase ends, and no longer |
| Perception, TraCI, utilities | sensor draws, vehicle state | | environment |

Hard behaviours: worker thread against simulator thread; lost, late, repeated
and reordered radio messages; two routes to every decision (own executor, f+1
gossip); the proposer lease; Byzantine signers; CLEAR evidence that must be
checked by voters in different views.  `PROJECT.json` lists each hazard with its
line and the properties that watch it.

## 2. How the modules fit together

A vehicle's life is: discovery of who is there (`Discovery`), an ORDER by
consensus (`Pbft`, executed by `Executor`, computed by `Scheduler`), motion
(`Crossing`), and when an incident makes the ORDER void, a certificate
(`Certificates`), a CANCEL, and a new round (`Rollback`).  One module that
contains all of this is far beyond TLC, so each module keeps the whole control of
its own component and takes its neighbours as what they promise:

| module | takes from its neighbours |
|---|---|
| `Rollback` | PBFT as a ledger (`Pbft`, `Executor`); a certificate as f+1 signatures (`Certificates`); discovery as a round that completes (`Discovery`); batches as a constant (`Scheduler`) |
| `Crossing` | decisions ORDER(0), CANCEL(0), ORDER(1), taken once f+1 vehicles have echoed what they stand for (`Rollback`); schedules without an empty batch (`Scheduler`) |
| `Pbft` | when the application proposes (`After`), and who votes (`Members`) |
| `Executor` | the stream of commits, in any order, some twice (`Pbft`) |
| `Certificates` | the decided CANCEL as a step that may come (`Rollback`) |

Where a promise is stated as a specification of its own, the detailed module is
shown to implement it: `Executor` implements `Ledger` (`ImplementsLedger`), and
`Certificates` implements `Evidence` (`ImplementsEvidence`), once for the wreck
and once for the empty box.

The order of the work was: `Rollback`, `Scheduler`, `Executor`, `Pbft`,
`Crossing`, `Discovery`, `Certificates`, and for each one its proofs.

## 3. Runs

All runs pass unless marked; none takes more than three minutes with two workers.

| run (module) | instance | states | shows |
|---|---|---|---|
| `crash_recovery` (`MCRollback`) | 3 vehicles, f = 0, crash, two possible primaries | 482k | `RecoveryOrderOnlyAfterClear`, `ClearedMeansEmpty`, `RecoveryCoherent`, `UndoneOnlyByItsCancel`, `TypeOK` |
| `gossip_byzantine` (`MCRollback`) | 4 vehicles, one faulty, ambulance, decision gossip | 425k | `CancelWitnessed`, `AcceptedCertProgresses`, `AdoptionSound`, `RecoveryAfterCancel`, `ExecutorWithinLedger` |
| `straggler` (`MCRollback`) | 2 vehicles, one missed ORDER(0), both first proposers silent, gossip and failover | 5k | `TombstonedNotApplied`, `ViewsAdvance`, `CertifiedIncidentIsCancelled` |
| `schedule` (`MCScheduler`) | all payloads of 3 vehicles | 93312 payloads | `NoConflictInBatch`, `LaneOrder`, `AmbulanceBound`, `NoWastedRoom`, `EverybodyScheduled`, `TypeOK` |
| `in_order` (`Executor`) | 4 decisions, each committed up to twice, 2 execute threads, ring of 3 | 513k | `AssertsHold`, `OneBatchAtATime`, `ImplementsLedger`, `TypeOK` |
| `gossip_jump` (`Executor`) | 3 decisions, the simulator thread jumps past CANCEL(0) | 413k | `DeliveredOnce` |
| `handover` (`MCPbft`) | 4 replicas, one faulty, ORDER(0) by one primary and CANCEL(0) by the next | 150k | `Agreement`, `CommittedHasQuorum`, `StuckOnlyIfDiverted`, `TypeOK` |
| `crossing` (`MCCrossing`) | 3 vehicles in 2 or 3 batches, one wreck, with and without rollback | 508k | `BoxIsShared`, `NoStartWhileCancelled`, `UncoordinatedIsLastResort`, `ScheduledCross`, `TypeOK` |
| `discovery` (`Discovery`) | 2 vehicles, both honest or one lying, epochs 0 and 1 | 195k | `EvidenceIsWitnessed`, `VotersAreBound`, `OwnCertWasHeard`, `StoppedVehicleFinishes` |
| `certificates` (`MCCertificates`) | 3 vehicles of a view of 4, one faulty, one that has not applied the ORDER | 206k | `HushHasReason`, `ImplementsEvidence`, `EvidenceIsReached` |
| `adopter_evidence` (violation) | | | `RecoveryOrderOnlyAfterClear`, section 11 |
| `excluded` (violation) | | | `ExcludedStaysStopped`, section 11 |

Runs do not check deadlock: the protocol comes to rest, after everybody crossed or
when the executor has nothing left.

### The fault model

A vehicle of `Faulty` is Byzantine; one that is dead or silent is an honest one that
takes no more steps.  What a faulty vehicle can do follows from what a receiver
compares.  Arrival, stopped-distance and CLEAR evidence, and the signatures in a
CANCEL certificate, are checked with the registered key of the vehicle they name
(`WitnessKeyRegistry`), so a faulty vehicle signs for itself only.  A CANCEL echo,
the carrier of a CANCEL certificate, a gossiped decision and a PBFT packet are
checked with the key they carry, and the sender they name is not compared with it
(ResDBRollbackProtocol.cc:297, 518, 1975; ResDBIntersectionApp.cc:1773;
ResDBTransport.cc:694).  A proposed CANCEL is checked for its shape
(`Check13ValidCancelProposal`).  The models have these steps: `SendUnchecked` in
`Pbft`, `Attested` and `CommitUnchecked` in `Rollback`, `HandleUnmatchedEcho`,
`FaultyFrame` and `FaultySend("CANCEL")` in `Certificates`.

`Pbft` and `Rollback` count them in a history variable, `unchecked`, and `Checked`
says that none has been taken: every sender has used its own name and only honest
vehicles have led a request.  Agreement on decisions, and whatever follows from
decisions, is stated under `Checked`: the code relies on genuine names there and
does not establish them.  Without `Checked` hold the type invariants, that an honest
vehicle proposes only witnessed CANCELs (the first half of `CancelWitnessed`), that
CLEAR evidence means an empty box, and both implementations of `Evidence`.

## 4. `Rollback`

`app[r]` is a record of the fields of one app; the operators from `RegisterBlocked`
to `ApplyOrder` are the functions of the code as functions of that record, and an
action applies the whole handler.  `pending_orders`, `executed`, `next_seq` and
`crash_epochs` are the bridge side of a vehicle.  `proposed`, `votes` and
`ledger` are PBFT: decisions are ordered by sequence number, an ORDER needs a
quorum of the members of its epoch whose `PreVerify` let it pass, a CANCEL is not
stopped by anything a voter knows.  `wreck` is the environment.

| action | code |
|---|---|
| `PerceiveCrash`, `PerceiveAmbulance` | crash dwell of the batch poll; `maybeTriggerEmergencyRollbackFrom...` |
| `HandleCancelEcho`, `HandleCancelCert` | the handlers, with `handleValidCancelJustification` and `beginCancelDrain` |
| `FinishCancelDrain`, `CancelLeaseExpires` | the two timers, with `trySubmitCancelProposal` and `proposeCancel` |
| `CommitCancel`, `VoteOrder`, `CommitOrder` | PBFT and `PreVerify` |
| `Execute` | `ExecuteData` and the callback into `pending_orders_` (worker thread) |
| `ProcessCancel`, `ProcessOrder` | one iteration of `processOrders` |
| `CommitUnchecked` | the same with a faulty leader, or with votes under others' names |
| `HandleCancelCommitGossip`, `HandleDecisionGossip` | adoption at f+1 names, with the jump of the executor |
| `DiscoveryCompletes`, `PrimaryChange` | `finishDiscoveryRound`, transport poll, with `evaluateOrderReadiness` and `proposeAll` |
| `SendClearEcho`, `HandleClearCert` | CLEAR dwell of the batch poll; echo completion or certificate, with `onIncidentCleared` |

Abstractions.

* Radio: what a vehicle signed can be received at any time, any number of times,
  or never.  A handler is enabled by the signatures in existence, so loss, delay,
  duplication and reordering are all included.  Faulty vehicles keep silent or
  sign any echo, CLEAR echo or gossip vote, and vote for ORDERs.  A decision they
  lead, or attest under several names, is counted in `unchecked` (section 3); an
  ORDER with a CLEAR trailer needs the f+1 CLEAR signatures all the same.
* `processOrders()` takes one entry per step where the code drains the queue; the
  worker may deliver between two entries anyway, so this only adds interleavings.
* The certificate is the set of its signers; `reasonRef` is the kind of the
  incident; ORDER bytes are epoch and CLEAR trailer, the membership of an epoch
  is the constant `Schedule`; an attestation is epoch and reason.
* Which vehicle PBFT makes primary is any of `Primaries` that is a member.
* Before any ORDER the committed view is empty (`None`), as in the code.

Bounds.  `MaxEpoch = 1` is one rollback cycle: ORDER(0), CANCEL(0), ORDER(1); the
documentation (ARCHITECTURE.md:2020) says that repeated resets remain incomplete.
`MaxUnchecked` is 1 in
`gossip_byzantine` and 0 in the runs without faulty vehicles; `UncheckedHorizon`
follows an unchecked step until PBFT has ordered a second decision or a second
vehicle has tombstoned epoch 0, far enough to see what it does to certificates,
drains and proposals of the others.  `MaxRotation` is the number of proposer rotations of a vehicle: 1 is enough to
pass a silent proposer.  The per-epoch mode needs four recovery voters, hence four
vehicles with a Byzantine one; a crash with f = 1 would need five (the wreck is
not among the members of ORDER(1)), which is too large for TLC and is what the
theorems are for.

Fairness (only `straggler`).  Weak fairness of the reception of a certificate not
seen yet (certificates are rebroadcast by a retry timer), of the two timers (the
event queue), and of the commit of a proposed CANCEL (PBFT with a live quorum).
`UntowedSpec` drops the tow so that the wait for CLEAR is the last state.

## 5. `Scheduler`

`BuildIntersectionSchedule()` as a state machine over one payload: `PickHead` is
the search for the head of a batch, `Admit` a vehicle that joins it in the current
pass over the work queue, `EndPass` the end of the `do ... while (grew)` body.
`WorkBefore` is the order of the work queue: each ambulance behind the vehicles
that block its lane, then everybody else.  `schedule` runs it on all 93312
payloads of three vehicles (three approaches, straight or right, two positions
with ties, car, QUIET or ambulance, both modes).  Left turns and unknown
directions are in no pair of `kSafe` and behave like a conflict with everybody,
so two movements are enough; two vehicles in one lane and one in another, or
three approaches, cover every kind of interaction the table knows.  A QUIET entry
with the ambulance flag is not a payload (`proposeAll()` clears the flag,
`PreVerify` rejects it).  `EverybodyScheduled` is liveness (a sequential function
runs on): the loop places every vehicle once, so that the branch "no schedulable
head", which is not an action, is dead code for distinct ids.

## 6. `Executor` and `Ledger`

PBFT worker threads call `Commit` in any order of sequence numbers.  One ordering
thread pops (`OrderPop`...), puts in sequence and hands on; a pool of threads
takes decisions from one queue and keeps them in order through a ring of flags
(`blucket_`), each thread waiting for the flag before its own; the simulator thread
jumps (`AdvanceLoad`, `AdvanceLast`, `AdvanceStore`, `AdvanceErase`) when the app adopts a CANCEL
by gossip.  One action is one lock section or one access to a field that other
threads read without a lock; `next_execute_seq_` is atomic, `candidates_` is a
`std::map` shared without a lock, whose accesses are taken one after the other (a
corrupted map is outside the model).  An `assert` that fails sets `aborted`.

`in_order` has no jump (`Epochs = {}`): with two threads and a ring of three flags
the ring wraps within four decisions, which is the case to fear; in the code the
ring is 1024 long and the pool smaller.  Fairness: threads run.  `gossip_jump` has
the jump; `DeliveredOnce` still holds there, order and the asserts do not (section
11).  `Ledger` is the abstract view: a set of committed numbers and the sequence
of executed ones; `ImplementsLedger` includes its liveness: a decision whose
predecessors have committed is executed.

## 7. `Pbft`

The normal case as this deployment runs it.  `node[r]` is one server: its view of
who is primary, next sequence number, proposals by number, what it has voted,
committed and executed.  `Submit` is `TriggerConsensus()` (the bridge makes the
vehicle primary for its own request and sends it as NEW_TXNS), `Receive` the
handlers of PRE_PREPARE, PREPARE, COMMIT with the quorum of the forced view
(`BftQuorumSize`), `Execute` the executor.  `msgs` only grows: a packet may be lost,
late, repeated or relayed.  A faulty replica has cast no vote or any vote under its
own name from the start, and `SendUnchecked` adds a PRE_PREPARE of its own or a
message under any other name: PBFT signatures are not verified, a leader is compared
with the payload only, and `sender_id` is not compared with the key of the packet
(section 3).  The view change is off while a forced view exists, and stable
checkpoints are off.

`Agreement` is not the textbook argument.  The view number never changes when the
primary does, so two primaries can propose at one number.  What saves it is that
the application chains its requests: it proposes CANCEL(e) only after ORDER(e) was
executed at the proposer (`After`).  `two_primaries.cfg` drops the chain and finds
two honest replicas that execute different requests at one number.  `handover` has
the chain of two requests with different proposers, four replicas, one of them
faulty.  `Agreement` and `CommittedHasQuorum` are about `Checked` behaviours.  This is
less than the documents say (PICABFT_IMPERFECT_PERCEPTION_SPEC.md:2615, "PBFT still
gives deterministic agreement under the existing Byzantine and timing assumptions"):
with a faulty leader nothing is claimed here.  The window of 64 is as in the code, but
two requests never reach its end.

`StuckOnlyIfDiverted` is what can be said of progress without fairness: when nothing
new can happen any more, although every packet that was sent could be delivered,
each submitted request has been executed by all its honest members, unless a repeated
PRE_PREPARE gave a request that waits in the queue of the new primary back to the old
one, whom everybody then refuses (consensus_manager_pbft.cpp:341).  Nothing is said of
packets that do not get through: retries are bounded (ResDBTransport.cc:339) and
`clearConsensusRetries()` drops those of all instances when an ORDER is applied
(ResDBDecision.cc:986), so that no fairness of delivery could be justified.
`UncheckedHorizon` follows an unchecked message until a server executes something;
`Agreement` and `CommittedHasQuorum` do not speak of what comes after it, `TypeOK` does.

## 8. `Crossing`

`place[v]` is what the code can tell of the road: in line, in the box, clear.
`app[v]` is the part of the app that decides about motion; the actions are
`EnterStopZone`, `Deliver` (executor callback), `TransportPoll` (`processOrders()`
with everything queued), `HandleCancelCert`, `HandleClearCert`, `Timeout` (stop-sign
and consensus timeout), `PrecedingBatchPoll` (crash scan, empty-box scan, gate) and
the moves `Enter`, `Leave`, `Crash`, `Tow` of the road.  A dwell time is longer than
a released vehicle needs from the line to the box (`DwellOver`), which is the one
real-time assumption.  `overdue` is not a field of the code: it remembers for
`BoxIsShared` that `clearance_timeout` let the vehicle go.

Three vehicles are enough for a batch of two before one, and for a chain of three;
one wreck; F = 0, because the certificates are the subject of other modules;
both values of `enableRollback`.  `Complete` says that the discovery after a CANCEL
finds everybody who waits in line; where it does not, the vehicle left out starts
on a cancelled slot (`excluded`).  Fairness: released vehicles drive, polls tick,
the scenario manager tows, radio retries deliver.  Each can do so only finitely
often, so one weak fairness condition covers them all.  `ScheduledCross` is then
the promise of the whole system: once there is an ORDER everybody gets across, wreck
or not.

## 9. `Discovery`

A vehicle announces a claim, others who perceive the same echo it, f+1 echoes make
an arrival certificate; after the stop the same is done for the distance
(attestation, echo, distance certificate).  A round collects, drains its own
certificates to the radio, and completes; its view becomes the candidate of an
ORDER.  The actions are the handlers of these frames, the two finalizers, the settle
and deadline timers, the drain, `EnterStopZone`, `OrderApplied` and
`BeginPostCancelDiscovery`.  Signatures are sets of pairs; frames may be lost and
come in any order as long as the sender stays in its round.  Perception is a verdict
(accept, wrong, unseen) that a vehicle may give anew each time.  A faulty vehicle
may replay an announcement of an earlier round, as it may send any certificate that
has its signers: `handleArrivalAnnouncement()` does not look at the epoch.  With two
vehicles in the run such an announcement changes nothing; the theorems cover any
number.

Two vehicles with f = 1 need each other's signature for everything, and the faulty
one may lie about itself, sign anything, or keep silent; the second epoch is
reached by one of them.  Fairness: armed timers expire and queued frames get their
slot; nothing is assumed of the radio, so `StoppedVehicleFinishes` does not depend
on others.  It does depend on the last retry finding the frame aired
(`RetriesRunOut = FALSE`); otherwise see `lost_certificate` in section 11.

## 10. `Certificates` and `Evidence`

The two certificates of an incident, frame by frame: echo, collection, candidate,
rank (who may send first), relay, carriers, retries, and what silences each of
them.  `road` is free, wreck or towed; `inbox[r]` holds frames that were sent and
not handled; one that is never handled is lost.  `Receive` is the type switch of
`onWSM` for types 12 to 16 with the frames of honest vehicles, `ReceiveFaulty` with
those of faulty ones, `Timers` the timers, `CrashDwell` and `ClearDwell`
the two scans of the batch poll.  One vehicle is late (it applies ORDER(0) only
later), one member of the view is not on the road at all, one vehicle signs
anything.

`ImplementsEvidence` maps the state to `Evidence` for each certificate: fact (the
wreck stands; the box is empty), honest witnesses, and who holds it certified.
`EvidenceIsReached` is liveness under a radio that loses nothing: if all honest
vehicles wait with the incident registered and nobody has echoed CLEAR yet, a
certificate comes about; and f+1 honest echoes of the wreck lead to a CANCEL
certificate, unless a collector holds an echo with another key under the name of an
honest vehicle (`Displaced`): `WitnessEchoCollector::add()` takes one echo per name
before keys are compared, and drops the next.  Fairness is assumed of the frames and
timers of honest vehicles only.  `HushHasReason`: a vehicle that keeps silent for its
own candidate still waits with it, or knows a certificate.

In the run the faulty vehicle signs along, sends CANCEL echoes under any name (one
wrong name for each receiver, `MaxUnmatched`) and leads a CANCEL without a certificate
or a recovery ORDER.  It sends no CLEAR echo, and the vehicles on the road are in the
view: `clear_hushed.cfg` shows `HushHasReason` fail for a signer that is not.  What
its CANCEL frames cause is followed until the CANCEL is committed somewhere
(`FaultyHorizon`): nothing reads the collector after that.  `faulty_carrier.cfg` (not a run: 1.4M states) lets it send CANCEL
certificates under any carrier's name, which stops the honest carriers early.

Dead code that modelling brought to light: `clear_cert_pending_retries_` is never
armed, so the CLEAR retry does not exist (ResDBIntersectionApp.cc:973);
`decisionGossipPropagationConfirmed()` can never become true, because the epoch guard of
`handleDecisionGossip()` returns before the vote is counted, so the early stop of
gossip does not exist either; the reopening of COLLECTING for a new eligible
announcement (ARCHITECTURE.md:381) is unreachable.

## 11. Where the code and its documentation disagree

Two runs expect a violation, each of a sentence that the repository states:

* `adopter_evidence`: the evidence gate of `PreVerify` is armed by the executor
  only (`resdb_omnet_bridge.cc:777`), so vehicles that learned the CANCEL by
  gossip vote for a recovery ORDER without CLEAR evidence; the comment at 1379
  says the gate constrains every voter.
* `excluded`: a vehicle that ORDER(1) leaves out ("staying stopped/excluded",
  ResDBDecision.cc:1124) still has its poll armed with the batch of the cancelled
  ORDER and starts on it.

Some sentences promise more than the properties claim, for the reason given in
section 3; the properties are stated as far as the code supports them:

| sentence | what is checked and proved |
|---|---|
| docs/archive/rollbackv3.md:784, "A committed `CANCEL(e)` implies at least one honest witness" | an honest vehicle proposes only such a CANCEL; what is committed, under `Checked` |
| docs/archive/rollbackv3.md:782, no two correct replicas disagree on an epoch | `AdoptionSound`, `Agreement`: under `Checked` |
| ResDBDecisionGossip.h:15, "f+1 distinct verified senders" | f+1 distinct names (`Attested`), which are vehicles under `Checked` |
| PICABFT_IMPERFECT_PERCEPTION_SPEC.md:2615, agreement under Byzantine assumptions | `Agreement`, under `Checked` and `Chain` |

The following configurations are kept beside the runs; each finds a violation.

| configuration (module) | property | what it shows |
|---|---|---|
| `adopter_state` (`MCRollback`) | `SameRecoveryState` | `handleCancelCommitGossip` leaves `rollback_cancel_initiated_` set; the comment in `beginPostCancelDiscovery` says both paths arrive with identical state |
| `straggler_regression` (`MCRollback`) | `UndoneOnlyByItsCancel` | no comparison of epochs stops a vehicle that already applied ORDER(1) from adopting CANCEL(0) |
| `duplicate_cancel` (`MCRollback`) | `LedgerPrefixPerEpoch` | the lease may fire while the decided CANCEL is queued; the ledger is no longer what the jump of the executor relies on (message_manager.cpp:552) |
| `executor_assert` (`Executor`) | `AssertsHold` | the jump between load and use of `next_execute_seq_` makes the order assert fail |
| `recovery_dropped` (`Executor`) | `RecoveryDelivered` | a decision popped before the jump and inserted after its erase blocks the head of the map |
| `two_primaries` (`MCPbft`) | `Agreement` | section 7: agreement without the chain of the application |
| `early_vote` (`MCPbft`) | `CommittedHasQuorum` | votes that precede the PRE_PREPARE are counted before the view that would exclude them is installed (ARCHITECTURE.md:2030) |
| `lost_certificate` (`Discovery`) | `StoppedVehicleFinishes` | `beginStoppedDistanceCollection()` erases the vehicle's own queued ARRIVAL_CERT while it stays QUEUED; with the retries used up the round drains for ever (comment ResDBArrivalProtocol.cc:545) |
| `stale_certificate` (`Discovery`) | `OldCertsDoNotAuthorize` | neither `handleArrivalCert()` nor `validateArrivalCert()` compares epochs (ARCHITECTURE.md:1088) |
| `clear_hushed` (`Certificates`) | `HushHasReason` | an echo from outside the view fills a candidate that `broadcastClearCert` rejects, and silences the vehicle (ARCHITECTURE.md:1138) |
| `clear_unranked` (`Certificates`) | `ClearNeedsNoRound` | a vehicle without a rank drops its candidate for good |
| `late_registration` (`Certificates`) | `SeenClearIsEffective` | a CLEAR certificate that overtakes the CANCEL certificate is marked seen without effect; the recovery ORDER repairs it |

## 12. Proofs

All theorems hold for every value of the constants under the named assumptions of
the modules.  Each proof module has an inductive invariant, one lemma per operator
on the state, one step per action.

| theorem | inductive invariant and argument |
|---|---|
| `Rollback_proofs!TypeCorrect` | `TypeOK` is inductive |
| `Rollback_proofs!AdoptionIsSound` (`Checked`) | a vehicle adopts from its queue and from votes, so `AdoptionInv` adds that every CANCEL in a queue was decided, that vehicles gossip ORDERs only, and that a CANCEL is determined by its epoch and reason; f+1 voters include an honest one (`HonestAmong`) |
| `Rollback_proofs!CancelsAreWitnessed` | under `Checked`, PBFT orders what an honest vehicle proposed earlier: `WitnessInv` carries the honest witness from the certificate to the vehicle that waits, and from there to its proposal; echoes are never taken back |
| `Rollback_proofs!ClearedIsEmpty` | `ClearInv`: while the wreck stands in the box no honest vehicle holds a CLEAR echo, a cleared incident, a CLEAR candidate or a gossiped ORDER with a trailer, and no queue, proposal or ledger entry has one; a certificate would need an honest signer, a trailer a frozen CLEAR candidate |
| `Rollback_proofs!RecoveriesFollowCancels` (`Checked`) | `RecoveryInv`, on top of `AdoptionInv`: a vehicle with current epoch e+1 has tombstoned e, so what it proposes for e+1 has its CANCEL in the ledger already, and the ledger only grows |
| `RollbackEpochs_proofs!ExecutorsFollowLedger` | `LedgerInv`, on top of `RecoveryInv`: the ledger holds the ORDER and the CANCEL of every epoch before one that is attested, so its length bounds the target of a jump |
| `RollbackEpochs_proofs!CrashRecoveryWaitsForClear` | `EvidenceInv`, on top of `ClearInv`: the executor of a vehicle has marked every crash epoch its app has cancelled, so whoever votes for its own ORDER has asked for CLEAR evidence, and a quorum includes the proposer |
| `RollbackEpochs_proofs!FirstRecoveryIsCoherent`, `FirstCertProgresses`, `FirstOrderIsUndone` | `FirstInv`: in an app in which only epoch 0 was ever cancelled, the phase of the CANCEL, the tombstone, the epochs and `order_applied_` determine each other |
| `RollbackEpochs_proofs!FirstViewsAdvance` | `FirstViews`, on top of `FirstInv`: who has the view of ORDER(1) has cancelled ORDER(0) or has ORDER(1) applied, so a late ORDER(0) is skipped |
| `RollbackEpochs_proofs!ViewsAdvanceWithoutGossip` | `OrderedInv`: what a vehicle has applied and what waits in its queue is the ledger, cut where the executor stands |
| `RollbackEpochs_proofs!CancelUndoesItsOrder`, `CancelledOrderIsNotDriven` | the same and `SettledInv`: the last decision applied tells what the app drives by |
| `RollbackEpochs_proofs!RecoveriesAreCoherent`, `CertsProgress` | `AloneInv`: `FirstInv` for any epoch, relative to the pending one |
| `Scheduler_proofs!TypeCorrect`, `BatchesDoNotConflict`, `LanesKeepOrder` | `SafetyInv`: closed batches have smaller indices than the open one, no QUIET vehicle is in a batch that grows; `PlaceIsSafe` serves both kinds of placement |
| `Scheduler_proofs!RoomIsUsed` | `RoomInv`: a pass that has admitted nobody yet has not looked away from anybody (`PassInv`), so the last pass of a batch has refused everybody who stays out |
| `Scheduler_proofs!PriorityIsBounded` | `PriorityInv`: while an ambulance waits, each batch has placed a vehicle that counts against it, because the first that may go is one (`HeadIsAhead`); a set that gains a member each time has as many as there are batches, so no induction over sets is needed |
| `Executor_proofs!DecisionsAreDeliveredOnce` | `OnceInv`: nothing delivered or in work lies above `last_seq_`; holds with every jump |
| `Executor_proofs!NoAssertFails`, `BatchesAreExclusive`, `ImplementsLedgerSafely` | `InOrderInv`: parts for the ordering thread, the pool and the ring (`OrderSound`, `PoolSound`, `RingSound`); fewer threads than flags (an injection into the threads), arithmetic modulo the length of the ring; `Epochs = {}` |
| `Certificates_proofs!CertificatesAreEvidence` | what a CLEAR frame names, and what a collector counts under a registered key, was signed (`SignedFrames`, `SignedEvidence`), with at most f faulty members; then each step is a step of `Evidence` or a stutter |
| `Certificates_proofs!HushIsFounded` | `HushInv`: from the moment a vehicle has the key, its candidate has f+1 signers or a certificate is known; with all signers in the view `broadcastClearCert()` refuses nothing that the collector counted |
| `Discovery_proofs!EvidenceIsPerceived`, `CandidatesAreBound`, `CompletedWereHeard` | `Sound` and `FramesSound`: whatever is stored, frozen or on the air was signed, and f+1 signers include an honest one |
| `Pbft_proofs!AgreementOnChain` | no quorum intersection: with a chain of requests (`Chain`) no number is ever given to two requests; `AgreeInv` follows the proposals (`Proposals`), what was executed before (`Executions`, `Follows`), the refusal of a diverted request even by its sender (`Refused`) and the order of numbers (`Ordered`) |
| `Pbft_proofs!CommittedByMembers` | `QuorumInv`, on top of `AgreeInv`: votes are cast for what was proposed, and by members (`VotesAreFounded`), and a number has one proposal, so the votes that a collector counts per hash are votes for its main request |
| `Crossing_proofs!BatchesShareAfterTimeoutOnly` | `CrossInv` ties how many decisions a vehicle has taken to tombstones, slot and pending CANCEL (`AppSound`, `InLineSound`), says that who has a slot in ORDER(1) waits for it in line (`MemberSound`), and that who was released in time went after the whole batch before (`ReleasedSound`); then the smallest batch that left the line too early is a witness |
| `Crossing_proofs!CancelHoldsTheStart`, `NoSlotIsLastResort` | the same invariant; only the vehicle's own app starts it (`StartsAreFit`) |

`RollbackEpochs_proofs` does not go through the 17 actions again for each of its
invariants.  `StepKinds` shows once that every step is one of a few kinds (a
vehicle changes locally, takes a CANCEL or an ORDER from its queue, adopts one;
PBFT commits; an executor delivers), and what each kind does to the fields that
matter; the invariants are then proved kind by kind.

Some of these theorems have a hypothesis, and each hypothesis has a behaviour that
shows why:

| hypothesis | of | without it |
|---|---|---|
| `Complete` | the theorems about `Crossing` | the run `excluded` |
| `Epochs = {}` | the asserts and the refinement of `Executor` | `executor_assert` |
| `Checked`: senders used their own names and faulty vehicles led nothing | all theorems of `RollbackEpochs_proofs`, the three of `Rollback_proofs` marked above, `AgreementOnChain`, `CommittedByMembers` | the code does not compare names with keys there (section 3); a vehicle that attests under f+1 names, or leads a request, decides for others |
| `Chain` | the theorems about `Pbft`, but for `TypeCorrect` | `two_primaries` |
| `FaultyAreMembers`: the views contain the faulty vehicles, at most f | `CommittedByMembers` | `early_vote`: a faulty vehicle outside the view votes before the view is forced |
| `~GossipEnabled` | `CrashRecoveryWaitsForClear` | `adopter_evidence`: who adopts a CANCEL by TYPE9 never executes it, and its voter gate stays open |
| `"EMERGENCY" \notin Reasons` | the same | an ORDER after an ambulance needs no empty box by design; the crash may come meanwhile |
| `Honest \subseteq Members(1)`: all are recalled | `FirstViewsAdvance` | who is not recalled applies nothing by ORDER(1), and an ORDER(0) that its executor delivers later moves its view back (`straggler_regression` with `ScheduleOne`, vehicle 0 the straggler) |
| `~GossipEnabled` | `ViewsAdvanceWithoutGossip` | the same |
| `~GossipEnabled` | `CancelUndoesItsOrder`, `CancelledOrderIsNotDriven` | `straggler_regression`: a vehicle that missed ORDER(0) adopts ORDER(1) by TYPE9 and CANCEL(0) after it, which undoes ORDER(1); for the second theorem no counterexample is known |
| `[]CancelOnce`: PBFT orders one CANCEL of an epoch | the same two | `duplicate_cancel`: two proposers, one certificate |
| `MaxEpoch <= 1`: one rollback | the four `First...` | a certificate for epoch 1 is accepted while the rollback of epoch 0 is pending (ResDBRollbackProtocol.cc:2022) and overwrites `rollback_cancelled_epoch_`, and `beginCancelDrain()` does nothing; simulation with `MaxEpoch = 2` finds it for `RecoveryCoherent` and `AcceptedCertProgresses` |
| `[]OneRollback`: exactly that does not happen | `RecoveriesAreCoherent`, `CertsProgress` | the same; `FirstRollbackIsAlone` proves that the first rollback satisfies it |
| `R \subseteq Members` | `HushIsFounded` | `clear_hushed`: an echo from outside the view |
| `[]ViewFirst`: who rolls ORDER(0) back has applied it | the same | a vehicle that adopts the CANCEL first may fill its candidate (with the echo of a faulty vehicle, which the run does not send), drop it for lack of a view, and keep the key |

All invariants and action properties of the passing runs are theorems, under these
hypotheses where there are any.  Only model-checked: all liveness (`CertifiedIncidentIsCancelled`,
`EverybodyScheduled`, `ScheduledCross`, `StoppedVehicleFinishes`,
`EvidenceIsReached` and the fairness of `ImplementsLedger`) and
`StuckOnlyIfDiverted`, which is about what is enabled: both are beyond the prover.  Open, and beyond the bounds of
the runs as well: `TombstonedNotApplied` with gossip through more than one epoch.

## 13. Not modelled

* Transport (`ResDBTransport.cc`): queues, the retry manager, the TYPE11 relay with
  ranks and suppression.  A model of the retries, relays and gossip of one request
  has more interleavings than TLC can enumerate already with three vehicles.  The
  modules above do not rely on it: loss, repetition and reordering are choices.  Two
  facts from reading it: `clearConsensusRetries()` at the commit of an ORDER drops the
  retries and relays of every instance (ResDBDecision.cc:986), and at most two
  carriers repeat a certificate, less than f+1 for f of two and more.
* WAIT heartbeats and the suspicion lease; the forced view change of epoch 0.
* The checks of `PreVerify` on the fields of an ORDER, key registration and
  signatures (a signature is what it proves), packing of payloads.
* PBFT view change, checkpoints, recovery from disk, the response path: the view
  change is ignored while a forced view exists, checkpoints are switched off.
* Sensor noise, TraCI distances and speeds, key material, experiment hooks and
  scripts: numeric or environment.  What the protocol needs of them is a choice.
* The vendored simulator, database and test libraries, and the two copies of the
  application and the bridge inside them (`veins-veins-5.3.1/.../resDB`,
  `incubator-resilientdb/integration/omnet`): no code of its own.
