------------------------------ MODULE Rollback ------------------------------
(***************************************************************************)
(* Epoch rollback of the intersection protocol.  Every vehicle runs one    *)
(* ResDBIntersectionApp (the "app" of a replica, on the simulator thread)  *)
(* on top of one ResilientDB server (executor, PreVerify and sequence      *)
(* allocator, on worker threads).                                          *)
(*                                                                         *)
(*   witnesses sign CANCEL echoes     -> f+1 echoes are a CANCEL certificate*)
(*   a certificate starts a drain     -> the selected proposer proposes     *)
(*                                       CANCEL(e) through PBFT             *)
(*   CANCEL(e) tombstones epoch e     -> discovery for epoch e+1, and, after*)
(*                                       a crash, the wait for f+1 CLEAR    *)
(*                                       echoes                             *)
(*   ORDER(e+1) commits               -> the rollback is over               *)
(*                                                                         *)
(* Messages may be lost, delayed, duplicated or reordered.  What a vehicle *)
(* ever signed stays available to be received: a handler action is enabled *)
(* by the signatures that exist, and it may never be taken.                *)
(***************************************************************************)
EXTENDS Naturals, Integers, Sequences, FiniteSets

CONSTANTS
    Replica,            \* vehicle ids: a finite set of naturals
    Faulty,             \* the Byzantine vehicles; who is dead or silent is an honest
                        \* vehicle that takes no more steps
    F,                  \* tolerated_faults_, anchored for all epochs
    PerEpochFaults,     \* rollbackFaultMode = "per_epoch" (else "anchored")
    MaxEpoch,           \* bound: epochs 0 .. MaxEpoch, the last is never cancelled
    Reasons,            \* the incidents of this run: subset of {"CRASH", "EMERGENCY"}
    Schedule,           \* Schedule[e][r]: batch of r in ORDER(e), NoSlot if it has none
    ActiveBatches,      \* the batches a vehicle may perceive as the executing one
    Wrecked,            \* the vehicle that stops in the conflict box
    Primaries,          \* the vehicles PBFT may make primary of a recovery epoch
    Recallable,         \* the vehicles that are still in front of the box
    Stragglers,         \* the vehicles that have missed ORDER(0) so far
    GossipEnabled,      \* gossipEnabled: TYPE9 and CANCEL-commit gossip
    EnableFailover,     \* enableCancelLeaderFailover
    SuppressedLeaders,  \* vehicles with injectSuppressInitialCancelLeader
    MaxRotation,        \* bound: proposer rotations one vehicle makes
    MaxUnchecked        \* bound: what Faulty get past the code, see Unchecked

Epoch  == 0 .. MaxEpoch
Honest == Replica \ Faulty
NoSlot == -1
None   == -1

ASSUME ReplicaAssumption ==
    /\ Replica \subseteq Nat /\ IsFiniteSet(Replica)
    /\ Faulty \subseteq Replica
    /\ F \in Nat /\ Cardinality(Faulty) <= F
    /\ Cardinality(Replica) >= 3 * F + 1

ASSUME ConfigAssumption ==
    /\ MaxEpoch \in Nat /\ MaxRotation \in Nat /\ MaxUnchecked \in Nat
    /\ Reasons \subseteq {"CRASH", "EMERGENCY"}
    /\ Schedule \in [Epoch -> [Replica -> Int]]
    /\ ActiveBatches \subseteq Int
    /\ Stragglers \subseteq Replica
    /\ PerEpochFaults \in BOOLEAN /\ GossipEnabled \in BOOLEAN
    /\ EnableFailover \in BOOLEAN

VARIABLES
    app,             \* [Honest -> AppState], the fields of ResDBIntersectionApp
    pending_orders,  \* [Honest -> Seq(Entry)], filled by the executor, drained by the app
    executed,        \* [Honest -> Nat], the executed prefix of the PBFT sequence
    next_seq,        \* [Honest -> Nat], MessageManager::next_seq_
    crash_epochs,    \* [Honest -> SUBSET Nat], CrashRecoveryState::epochs
    proposed,        \* proposals on the radio
    votes,           \* [Honest -> SUBSET Proposal], ORDER proposals PreVerify let pass
    ledger,          \* Seq(Entry), the totally ordered PBFT decisions
    wreck,           \* "NONE", "IN_BOX" or "TOWED": what stands in the conflict box
    unchecked        \* history: how often Unchecked was taken

bridgeVars == <<pending_orders, executed, next_seq, crash_epochs>>
pbftVars   == <<proposed, votes, ledger>>
vars       == <<app, bridgeVars, pbftVars, wreck, unchecked>>

-----------------------------------------------------------------------------
(* Types *)

CancelPhase    == {"INACTIVE", "WITNESSING", "DRAINING", "CONSENSUS", "COMMITTED"}
DiscoveryState == {"INACTIVE", "COLLECTING", "COMPLETE"}
IncidentState  == {"NONE", "BLOCKING", "CLEARED"}
CandidateKind  == {"NONE", "PLAIN", "CLEAR"}
Reason         == {"CRASH", "EMERGENCY"}
Witness        == Epoch \X Reason

Entry == [kind : {"ORDER", "CANCEL"}, epoch : Nat, reason : Reason \cup {"NONE"},
          clear : BOOLEAN]
Order(e, clear) == [kind |-> "ORDER", epoch |-> e, reason |-> "NONE", clear |-> clear]
Cancel(e, k)    == [kind |-> "CANCEL", epoch |-> e, reason |-> k, clear |-> FALSE]

\* The decisions of the epochs of an instance; the last epoch is never cancelled.
Decisions == {Order(e, clear) : e \in Epoch, clear \in BOOLEAN}
                 \cup {Cancel(e, k) : e \in Epoch \ {MaxEpoch}, k \in Reasons}

Proposal == [entry : Entry, leader : Replica, seq : Nat]

AppState == [
    cancel_state      : CancelPhase,
    consensus_pending : BOOLEAN,   \* cancel_consensus_pending_
    cancel_pending    : BOOLEAN,
    cancel_initiated  : BOOLEAN,   \* rollback_cancel_initiated_
    cancel_submitted  : BOOLEAN,   \* cancel_propose_submitted_
    propose_submitted : BOOLEAN,
    cancelled_epoch   : Nat,
    new_epoch         : Nat,       \* rollback_new_epoch_
    reason            : Reason,    \* rollback_reason_
    leaders           : SUBSET Replica,  \* cancel_leader_candidates_
    rotation          : Nat,       \* cancel_rotation_index_
    lease             : BOOLEAN,   \* cancel_vc_timer_ is scheduled
    current_epoch     : Nat,
    order_applied     : BOOLEAN,
    last_committed    : Int,       \* last_committed_epoch_, None before any ORDER
    view              : Int,       \* epoch of committed_order_vehicle_ids_
    cancels           : [Epoch -> Reason \cup {"NONE"}],  \* committed_cancels_
    discovery         : DiscoveryState,
    candidate         : CandidateKind,    \* order_candidate_
    incident          : [Epoch -> IncidentState],   \* incidentRegistry_
    echo_sent         : SUBSET Witness,   \* cancel_echo_sent_
    cert_seen         : SUBSET Witness,   \* cancel_cert_seen_
    clear_echo        : SUBSET Epoch,     \* clear_echo_sent_
    clear_seen        : SUBSET Epoch,     \* clear_cert_seen_
    order_gossip      : SUBSET Entry ]    \* ORDERs this vehicle sent as TYPE9

-----------------------------------------------------------------------------
(* Membership, quorums and certificates *)

\* committed_order_vehicle_ids_ after ORDER(e); empty before any ORDER.
Members(e) == IF e \in Epoch THEN {r \in Replica : Schedule[e][r] # NoSlot} ELSE {}

Smaller(a, b) == IF a < b THEN a ELSE b
Larger(a, b)  == IF a > b THEN a ELSE b

QuorumSize(n, f) == (n + f + 2) \div 2
EpochFaults(n)   == IF PerEpochFaults THEN Smaller(F, (n - 1) \div 3) ELSE F
MinRecoveryVoters == IF PerEpochFaults THEN 4 ELSE 3 * F + 1

\* What exists signed, by an honest vehicle that did sign or by a faulty one.
EchoSigners(e, k)  == {p \in Honest : <<e, k>> \in app[p].echo_sent} \cup Faulty
ClearSigners(e)    == {p \in Honest : e \in app[p].clear_echo} \cup Faulty

\* Mutant: f signers are enough.
ValidCertTooSmall(signers, view) == Cardinality(signers \cap Members(view)) >= F

\* f+1 distinct registry-bound signers inside the view the receiver committed.
ValidCert(signers, view) == Cardinality(signers \cap Members(view)) >= F + 1

\* Who attests a decision under its own name.
CancelVoters(e, k) == {p \in Honest : app[p].cancels[e] = k} \cup Faulty
OrderVoters(d)     == {p \in Honest : d \in app[p].order_gossip} \cup Faulty

\* Mutant: GossipAccumulator reports its threshold one vote early.
ReachedEarly(voters) == Cardinality(voters) >= F

\* GossipAccumulator: f+1 senders with equal bytes.
Reached(voters) == Cardinality(voters) >= F + 1

\* The sender of a gossiped decision and of a PBFT message is what the packet says:
\* it is not compared with the key that signed.  One faulty vehicle is enough once it
\* uses several names.
Unchecked == /\ Faulty # {} /\ unchecked < MaxUnchecked
             /\ unchecked' = unchecked + 1

\* ... but a CLEAR certificate needs its f+1 signatures, and every receiver of an
\* ORDER validates the one it carries.
Carried(d) == d.clear => Cardinality(ClearSigners(d.epoch - 1)) >= F + 1

Attested(voters) == (Reached(voters) /\ UNCHANGED unchecked) \/ Unchecked

-----------------------------------------------------------------------------
(* Steps of one app, as functions from its state to its next state *)

Tombstoned(s, e) == e \in Epoch /\ s.cancels[e] # "NONE"
Blocking(s, e)   == e \in Epoch /\ s.incident[e] = "BLOCKING"
Recovery(s)      == s.cancel_pending /\ s.current_epoch = s.new_epoch

RegisterBlocked(s, e, k) ==
    IF k = "CRASH" /\ s.incident[e] = "NONE"
    THEN [s EXCEPT !.incident[e] = "BLOCKING"]
    ELSE s

SendCancelEcho(s, e, k) ==
    IF <<e, k>> \in s.echo_sent THEN s
    ELSE [s EXCEPT !.echo_sent = @ \cup {<<e, k>>},
                   !.cancel_state = IF @ = "INACTIVE" THEN "WITNESSING" ELSE @]

\* The vehicles of the first batch that waits behind the executing one.
LeaderCandidates(view, active) ==
    LET waiting == {r \in Members(view) : Schedule[view][r] > active}
    IN  IF active < 0 THEN {}
        ELSE {r \in waiting : \A q \in waiting : Schedule[view][r] <= Schedule[view][q]}

NthSmallest(S, n) == CHOOSE x \in S : Cardinality({y \in S : y < x}) = n

Proposer(s) ==
    IF s.leaders = {} THEN None
    ELSE NthSmallest(s.leaders, s.rotation % Cardinality(s.leaders))

\* Mutant: a witness, which has left INACTIVE, never drains.
BeginCancelDrainInactive(s, active) ==
    IF s.cancel_state # "INACTIVE" THEN s
    ELSE [s EXCEPT !.cancel_state = "DRAINING",
                   !.leaders = LeaderCandidates(s.view, active)]

BeginCancelDrain(s, active) ==
    IF s.cancel_state \in {"COMMITTED", "DRAINING", "CONSENSUS"} THEN s
    ELSE [s EXCEPT !.cancel_state = "DRAINING",
                   !.leaders = LeaderCandidates(s.view, active)]

\* Mutant: the certificate, not the committed CANCEL, undoes the applied ORDER.
JustificationUndoes(s, e, k, active) ==
    IF s.consensus_pending \/ s.cancel_pending \/ Tombstoned(s, e) THEN s
    ELSE BeginCancelDrain(
            [s EXCEPT !.cancelled_epoch = e, !.reason = k,
                      !.consensus_pending = TRUE, !.cancel_initiated = TRUE,
                      !.order_applied = FALSE],
            active)

\* Mutant: the certificate alone tombstones the epoch and starts the recovery.
JustificationTombstones(s, e, k, active) ==
    IF s.cancel_pending \/ Tombstoned(s, e) THEN s
    ELSE [s EXCEPT !.cancels[e] = k, !.cancel_pending = TRUE, !.cancelled_epoch = e,
                   !.new_epoch = e + 1, !.current_epoch = e + 1, !.reason = k,
                   !.order_applied = FALSE, !.discovery = "COLLECTING"]

HandleValidCancelJustification(s, e, k, active) ==
    IF \/ (s.consensus_pending \/ s.cancel_pending) /\ s.cancelled_epoch = e
       \/ Tombstoned(s, e)
    THEN s
    ELSE BeginCancelDrain(
            [s EXCEPT !.cancelled_epoch = e, !.reason = k,
                      !.consensus_pending = TRUE, !.cancel_submitted = FALSE,
                      !.rotation = 0, !.leaders = {}, !.cancel_initiated = TRUE],
            active)

\* trySubmitCancelProposal() passes its state and submission gates.
MayPropose(s) ==
    s.cancel_state = "CONSENSUS" /\ s.consensus_pending /\ ~s.cancel_submitted

\* ... and goes on to proposeCancel(), which finds a large enough electorate.
ProposesCancel(s, r) ==
    /\ MayPropose(s)
    /\ Proposer(s) = r
    /\ ~(r \in SuppressedLeaders /\ s.rotation = 0)
    /\ r \in Recallable
    /\ Members(s.view) # {}
    /\ Cardinality(Members(s.view)) >= QuorumSize(Cardinality(Replica), F)

\* Mutant: only the selected proposer arms the lease that can replace it.
TrySubmitProposerLease(s, r) ==
    IF ~MayPropose(s) THEN s
    ELSE [s EXCEPT !.lease = @ \/ (EnableFailover /\ ProposesCancel(s, r)),
                   !.cancel_submitted = ProposesCancel(s, r),
                   !.propose_submitted = @ \/ ProposesCancel(s, r)]

TrySubmitCancel(s, r) ==
    IF ~MayPropose(s) THEN s
    ELSE [s EXCEPT !.lease = @ \/ EnableFailover,
                   !.cancel_submitted = ProposesCancel(s, r),
                   !.propose_submitted = @ \/ ProposesCancel(s, r)]

\* Mutant: current_epoch_ stays at the cancelled epoch.
BeginDiscoveryOldEpoch(s, e, k) ==
    IF s.cancel_pending /\ s.cancelled_epoch = e THEN s
    ELSE [s EXCEPT !.cancel_pending = TRUE, !.cancelled_epoch = e,
                   !.new_epoch = e + 1, !.reason = k, !.rotation = 0,
                   !.candidate = "NONE", !.propose_submitted = FALSE,
                   !.order_applied = FALSE, !.discovery = "COLLECTING"]

\* Mutant: order_applied_ survives the CANCEL.
BeginDiscoveryKeepsApplied(s, e, k) ==
    IF s.cancel_pending /\ s.cancelled_epoch = e THEN s
    ELSE [s EXCEPT !.cancel_pending = TRUE, !.cancelled_epoch = e,
                   !.new_epoch = e + 1, !.reason = k, !.rotation = 0,
                   !.candidate = "NONE", !.current_epoch = e + 1,
                   !.propose_submitted = FALSE, !.discovery = "COLLECTING"]

BeginPostCancelDiscovery(s, e, k) ==
    IF s.cancel_pending /\ s.cancelled_epoch = e THEN s
    ELSE [s EXCEPT !.cancel_pending = TRUE, !.cancelled_epoch = e,
                   !.new_epoch = e + 1, !.reason = k, !.rotation = 0,
                   !.candidate = "NONE", !.current_epoch = e + 1,
                   !.propose_submitted = FALSE, !.order_applied = FALSE,
                   !.discovery = "COLLECTING"]

\* A CANCEL decision the local executor delivered.
CancelCommitDecision(s, e, k) ==
    BeginPostCancelDiscovery(
        [s EXCEPT !.cancels[e] = k, !.consensus_pending = FALSE,
                  !.cancel_submitted = FALSE, !.cancel_state = "COMMITTED",
                  !.cancel_initiated = FALSE, !.lease = FALSE],
        e, s.reason)

\* A CANCEL decision f+1 peers attested: rollback_cancel_initiated_ and the
\* proposer lease are left as they are.
CancelGossipAdoption(s, e, k) ==
    BeginPostCancelDiscovery(
        [s EXCEPT !.cancels[e] = k, !.consensus_pending = FALSE,
                  !.cancel_submitted = FALSE, !.cancel_state = "COMMITTED"],
        e, k)

\* The gates of evaluateOrderReadiness(), in their order.
ReadyForOrder(s) ==
    /\ ~s.order_applied
    /\ ~s.consensus_pending
    /\ ~s.cancel_initiated
    /\ s.discovery = "COMPLETE"
    /\ s.cancel_pending =>
          /\ Recovery(s)
          /\ Tombstoned(s, s.cancelled_epoch)
          /\ ~Blocking(s, s.cancelled_epoch)

Freeze(s) ==
    IF s.candidate # "NONE" THEN s
    ELSE [s EXCEPT !.candidate =
            IF Recovery(s) /\ s.cancelled_epoch \in Epoch
                           /\ s.incident[s.cancelled_epoch] = "CLEARED"
            THEN "CLEAR" ELSE "PLAIN"]

\* proposeAll() submits: this vehicle is the primary and has not submitted yet.
SubmitsOrder(s, primary) ==
    /\ primary
    /\ ReadyForOrder(s)
    /\ Recovery(s) => Cardinality(Members(s.current_epoch)) >= MinRecoveryVoters
    /\ ~s.propose_submitted

EvaluateOrderReadiness(s, primary) ==
    IF ~ReadyForOrder(s) THEN s
    ELSE [Freeze(s) EXCEPT !.propose_submitted = @ \/ SubmitsOrder(s, primary)]

ClearIncident(s, e) ==
    IF Blocking(s, e) THEN [s EXCEPT !.incident[e] = "CLEARED"] ELSE s

\* onIncidentCleared() re-evaluates readiness only for the pending rollback.
ClearTriggers(s, e) == Blocking(s, e) /\ s.cancel_pending /\ s.cancelled_epoch = e

OnIncidentCleared(s, e, primary) ==
    IF ClearTriggers(s, e) THEN EvaluateOrderReadiness(ClearIncident(s, e), primary)
    ELSE ClearIncident(s, e)

\* Mutant: an ORDER of an epoch already served is applied.
SkipsOnlyTombstoned(s, d) == Tombstoned(s, d.epoch)

SkipsOrder(s, d) ==
    Tombstoned(s, d.epoch) \/ (s.order_applied /\ d.epoch <= s.current_epoch)

\* Mutant: the epochs of the rollback are invalidated with the batch and the primary.
EndRecoveryForgets(s, e) ==
    IF ~(s.cancel_pending /\ e = s.new_epoch) THEN s
    ELSE [s EXCEPT !.cancel_pending = FALSE, !.cancel_state = "INACTIVE",
                   !.new_epoch = None]

\* ORDER(e+1) ends the rollback of epoch e.
EndRecovery(s, e) ==
    IF ~(s.cancel_pending /\ e = s.new_epoch) THEN s
    ELSE [s EXCEPT !.cancel_pending = FALSE, !.cancel_state = "INACTIVE",
                   !.leaders = {}, !.cancel_initiated = FALSE, !.candidate = "NONE"]

\* last_committed_epoch_ to the start of gossip, for the vehicle's own slot.
CommitOrderLocally(s, r, d) ==
    LET committed == [s EXCEPT !.last_committed = d.epoch, !.discovery = "INACTIVE"]
        gossips   == /\ GossipEnabled
                     /\ ~(s.consensus_pending /\ s.cancelled_epoch = d.epoch)
    IN  IF r \in Members(d.epoch)
        THEN [committed EXCEPT !.order_applied = TRUE,
                               !.order_gossip = @ \cup (IF gossips THEN {d} ELSE {})]
        ELSE [committed EXCEPT !.order_applied = @ \/ d.epoch = s.current_epoch]

\* The loop body of processOrders() for an ORDER that is not skipped, from the
\* state after its CLEAR trailer was adopted.
ApplyOrder(s, r, d) ==
    LET ended == EndRecovery(s, d.epoch)
    IN  IF ended.cancel_pending /\ d.epoch = ended.cancelled_epoch THEN ended
        ELSE CommitOrderLocally(ended, r, d)

-----------------------------------------------------------------------------
(* Submission to PBFT: EnsureNextSeqAheadOfExecuted(), then allocate *)

SubmitSeq(r) == Larger(next_seq[r], executed[r] + 1)

Submit(r, entry, ok) ==
    /\ next_seq' = [next_seq EXCEPT ![r] = IF ok THEN SubmitSeq(r) + 1 ELSE @]
    /\ proposed' = proposed \cup
         IF ok /\ SubmitSeq(r) > Len(ledger)
         THEN {[entry |-> entry, leader |-> r, seq |-> SubmitSeq(r)]} ELSE {}

\* BuildCancelViewCandidate() wants 3f+1 electors and the leader among them.
CancelViewAccepted(s, r) ==
    r \in Members(s.view) /\ Cardinality(Members(s.view)) >= 3 * F + 1

\* An ORDER carries the CLEAR trailer its frozen candidate holds.
OrderOf(s) == Order(s.current_epoch, Freeze(s).candidate = "CLEAR")

Update(r, s) == app' = [app EXCEPT ![r] = s]

-----------------------------------------------------------------------------
(* Witnessing and the CANCEL certificate *)

\* Batch poll: a vehicle behind the wreck's batch saw it stand for the dwell time.
PerceiveCrash(r) ==
    /\ "CRASH" \in Reasons /\ wreck = "IN_BOX"
    /\ app[r].view \in Epoch /\ app[r].last_committed \in 0 .. MaxEpoch - 1
    /\ r # Wrecked /\ Wrecked \in Members(app[r].view) /\ r \in Members(app[r].view)
    /\ Schedule[app[r].view][Wrecked] < Schedule[app[r].view][r]
    /\ \A e \in Epoch : <<e, "CRASH">> \notin app[r].echo_sent
    /\ Update(r, SendCancelEcho(app[r], app[r].last_committed, "CRASH"))
    /\ UNCHANGED <<bridgeVars, pbftVars, wreck, unchecked>>

\* An ambulance outside the committed view announces itself or shows its certificate.
\* ORDER(1) has it among its members.
PerceiveAmbulance(r) ==
    LET e == app[r].last_committed IN
    /\ "EMERGENCY" \in Reasons
    /\ e \in 0 .. MaxEpoch - 1 /\ app[r].view < 1
    /\ ~Tombstoned(app[r], e)
    /\ ~(app[r].cancel_pending /\ app[r].cancelled_epoch = e)
    /\ Update(r, SendCancelEcho([app[r] EXCEPT !.cancel_initiated = TRUE],
                                e, "EMERGENCY"))
    /\ UNCHANGED <<bridgeVars, pbftVars, wreck, unchecked>>

AcceptCancelCert(r, e, k, active) ==
    LET seen == [RegisterBlocked(app[r], e, k) EXCEPT !.cert_seen = @ \cup {<<e, k>>}]
    IN  Update(r, IF <<e, k>> \notin app[r].cert_seen \/ ~app[r].consensus_pending
                  THEN HandleValidCancelJustification(seen, e, k, active)
                  ELSE seen)

\* The echo of another vehicle completes f+1: assemble and broadcast the certificate.
HandleCancelEcho(r, e, k, active) ==
    /\ <<e, k>> \notin app[r].cert_seen
    /\ EchoSigners(e, k) \ {r} # {}
    /\ ValidCert(EchoSigners(e, k), app[r].view)
    /\ AcceptCancelCert(r, e, k, active)
    /\ UNCHANGED <<bridgeVars, pbftVars, wreck, unchecked>>

\* A certificate of another vehicle arrives, first or again.
HandleCancelCert(r, e, k, active) ==
    /\ \/ \E p \in Honest \ {r} : <<e, k>> \in app[p].cert_seen
       \/ Faulty # {}
    /\ ValidCert(EchoSigners(e, k), app[r].view)
    /\ AcceptCancelCert(r, e, k, active)
    /\ UNCHANGED <<bridgeVars, pbftVars, wreck, unchecked>>

-----------------------------------------------------------------------------
(* CANCEL consensus *)

SubmitCancelFrom(r, s) ==
    /\ Update(r, TrySubmitCancel(s, r))
    /\ Submit(r, Cancel(s.cancelled_epoch, s.reason),
              ProposesCancel(s, r) /\ CancelViewAccepted(s, r))
    /\ UNCHANGED <<pending_orders, executed, crash_epochs, votes, ledger, wreck, unchecked>>

FinishCancelDrain(r) ==
    /\ app[r].cancel_state = "DRAINING" /\ app[r].consensus_pending
    /\ SubmitCancelFrom(r, [app[r] EXCEPT !.cancel_state = "CONSENSUS"])

CancelLeaseExpires(r) ==
    /\ app[r].lease /\ app[r].rotation < MaxRotation
    /\ SubmitCancelFrom(r, [app[r] EXCEPT !.lease = FALSE, !.rotation = @ + 1,
                                          !.cancel_submitted = FALSE,
                                          !.propose_submitted = FALSE])

-----------------------------------------------------------------------------
(* PBFT, external: proposals are ordered by sequence number *)

Commit(p) ==
    /\ p.seq = Len(ledger) + 1
    /\ ledger' = Append(ledger, p.entry)
    /\ proposed' = {q \in proposed : q.seq > p.seq}
    /\ votes' = [v \in Honest |-> {q \in votes[v] : q.seq > p.seq}]
    /\ UNCHANGED <<app, bridgeVars, wreck>>

\* PreVerify checks a CANCEL only for its shape, so nothing a voter knows stops it.
CommitCancel(p) ==
    /\ p \in proposed /\ p.entry.kind = "CANCEL"
    /\ Commit(p) /\ UNCHANGED unchecked

\* Mutant: the evidence gate is bypassed.
PreVerifyBypass(v, d) == TRUE

\* PreVerify: an ORDER of an epoch the executor marked needs CLEAR evidence
\* that is valid in the view the voter has committed.
PreVerify(v, d) ==
    d.epoch \in crash_epochs[v] =>
        d.clear /\ ValidCert(ClearSigners(d.epoch - 1), app[v].view)

VoteOrder(v, p) ==
    /\ p \in proposed \ votes[v] /\ p.entry.kind = "ORDER"
    /\ v = p.leader \/ p \in votes[p.leader]
    /\ v \in Members(p.entry.epoch)
    /\ PreVerify(v, p.entry)
    /\ votes' = [votes EXCEPT ![v] = @ \cup {p}]
    /\ UNCHANGED <<app, bridgeVars, proposed, ledger, wreck, unchecked>>

CommitOrder(p) ==
    LET electors == Members(p.entry.epoch)
        voters   == {v \in Honest : p \in votes[v]} \cup (Faulty \cap electors)
        n        == Cardinality(electors)
    IN  /\ p \in proposed /\ p.entry.kind = "ORDER"
        /\ p \in votes[p.leader]
        /\ Cardinality(voters) >= QuorumSize(n, EpochFaults(n))
        /\ Commit(p) /\ UNCHANGED unchecked

\* A faulty vehicle leads, or casts the votes of others: PBFT signatures are not
\* verified (bridge, SetSignatureVerifierEnabled(false)).
CommitUnchecked(p) ==
    /\ p.leader \in Faulty /\ Carried(p.entry)
    /\ Commit(p) /\ Unchecked

-----------------------------------------------------------------------------
(* Execution: worker thread to pending_orders_, transport poll to the app *)

Execute(r) ==
    LET d == ledger[executed[r] + 1] IN
    /\ executed[r] < Len(ledger)
    /\ executed' = [executed EXCEPT ![r] = @ + 1]
    /\ pending_orders' = [pending_orders EXCEPT ![r] = Append(@, d)]
    /\ crash_epochs' = [crash_epochs EXCEPT ![r] =
           IF d.kind = "CANCEL" /\ d.reason = "CRASH" THEN @ \cup {d.epoch + 1} ELSE @]
    /\ UNCHANGED <<app, next_seq, pbftVars, wreck, unchecked>>

Dequeue(r) ==
    /\ pending_orders[r] # <<>>
    /\ pending_orders' = [pending_orders EXCEPT ![r] = Tail(@)]

ProcessCancel(r) ==
    LET d == Head(pending_orders[r]) IN
    /\ Dequeue(r) /\ d.kind = "CANCEL"
    /\ Update(r, CancelCommitDecision(app[r], d.epoch, d.reason))
    /\ UNCHANGED <<executed, next_seq, crash_epochs, pbftVars, wreck, unchecked>>

\* The trailer is validated against the members the ORDER just installed.
TrailerAdopted(d, adopt) ==
    /\ adopt => d.clear
    /\ d.clear /\ Members(d.epoch - 1) \subseteq Members(d.epoch) => adopt

ProcessOrder(r, adopt, primary) ==
    LET d == Head(pending_orders[r])
        s == [app[r] EXCEPT !.view = d.epoch]
        e == d.epoch - 1
        cleared  == ClearIncident(s, e)
        submits  == adopt /\ ClearTriggers(s, e) /\ SubmitsOrder(cleared, primary)
    IN  /\ Dequeue(r) /\ d.kind = "ORDER"
        /\ IF SkipsOrder(app[r], d)
           THEN /\ ~adopt /\ ~primary
                /\ UNCHANGED <<app, next_seq, proposed>>
           ELSE /\ TrailerAdopted(d, adopt)
                /\ primary => adopt
                /\ Update(r, ApplyOrder(IF adopt THEN OnIncidentCleared(s, e, primary)
                                                 ELSE s, r, d))
                /\ Submit(r, OrderOf(cleared), submits)
        /\ UNCHANGED <<executed, crash_epochs, votes, ledger, wreck, unchecked>>

-----------------------------------------------------------------------------
(* Gossip of committed decisions *)

\* Mutant: one epoch too many is skipped.
GossipTargetPastOrder(r, e) == Larger(executed[r] + 1, 2 * (e + 2) + 1)

\* AdvanceExecutorAfterGossipCancel(): the sequence number to execute next.
GossipTarget(r, e) == Larger(executed[r] + 1, 2 * (e + 1) + 1)

\* f+1 equal attestations: adopt CANCEL(e), then move the executor past it.
HandleCancelCommitGossip(r, e, k) ==
    /\ GossipEnabled
    /\ ~Tombstoned(app[r], e)
    /\ Attested(CancelVoters(e, k))
    /\ Update(r, CancelGossipAdoption(app[r], e, k))
    /\ executed' = [executed EXCEPT ![r] = GossipTarget(r, e) - 1]
    /\ next_seq' = [next_seq EXCEPT ![r] = Larger(@, GossipTarget(r, e))]
    /\ UNCHANGED <<pending_orders, crash_epochs, pbftVars, wreck>>

\* f+1 equal ORDERs: applyGossipOrder() queues it and moves last_committed_epoch_.
HandleDecisionGossip(r, d) ==
    /\ GossipEnabled
    /\ Carried(d)
    /\ ~Tombstoned(app[r], d.epoch)
    /\ d.epoch > app[r].last_committed
    /\ ~app[r].order_applied
    /\ Attested(OrderVoters(d) \ {r})
    /\ Update(r, [app[r] EXCEPT !.last_committed = d.epoch])
    /\ pending_orders' = [pending_orders EXCEPT ![r] = Append(@, d)]
    /\ UNCHANGED <<executed, next_seq, crash_epochs, pbftVars, wreck>>

-----------------------------------------------------------------------------
(* Discovery, CLEAR and the recovery ORDER *)

\* Only a certified member of the epoch can be the initial primary or keep a view
\* it was given; which of them is one is not modelled.
MayLead(r) == {b \in BOOLEAN : b => r \in Primaries \cap Members(app[r].current_epoch)}

EvaluateFrom(r, s, primary) ==
    /\ Update(r, EvaluateOrderReadiness(s, primary))
    /\ Submit(r, OrderOf(s), SubmitsOrder(s, primary))
    /\ UNCHANGED <<pending_orders, executed, crash_epochs, votes, ledger, wreck, unchecked>>

DiscoveryCompletes(r, primary) ==
    /\ app[r].discovery = "COLLECTING"
    /\ EvaluateFrom(r, [app[r] EXCEPT !.discovery = "COMPLETE"], primary)

\* The transport poll finds that PBFT made this vehicle the primary.
PrimaryChange(r) ==
    /\ app[r].discovery = "COMPLETE" /\ ~app[r].order_applied
    /\ TRUE \in MayLead(r)
    /\ EvaluateFrom(r, app[r], TRUE)

\* Mutant: the witness does not look at the box.
SendClearEchoBlind(r, e) ==
    /\ app[r].incident[e] = "BLOCKING"
    /\ e \notin app[r].clear_echo \cup app[r].clear_seen
    /\ Update(r, [app[r] EXCEPT !.clear_echo = @ \cup {e}])
    /\ UNCHANGED <<bridgeVars, pbftVars, wreck, unchecked>>

\* Batch poll: the conflict box was empty for the dwell time.
SendClearEcho(r, e) ==
    /\ wreck # "IN_BOX"
    /\ app[r].incident[e] = "BLOCKING"
    /\ e \notin app[r].clear_echo \cup app[r].clear_seen
    /\ Update(r, [app[r] EXCEPT !.clear_echo = @ \cup {e}])
    /\ UNCHANGED <<bridgeVars, pbftVars, wreck, unchecked>>

\* f+1 CLEAR echoes arrive, one by one or as another vehicle's certificate.
HandleClearCert(r, e, primary) ==
    LET s == [app[r] EXCEPT !.clear_seen = @ \cup {e}] IN
    /\ (ClearSigners(e) \ {r}) # {}
    /\ ValidCert(ClearSigners(e), app[r].view)
    /\ primary => ClearTriggers(s, e)
    /\ Update(r, OnIncidentCleared(s, e, primary))
    /\ Submit(r, OrderOf(ClearIncident(s, e)),
              ClearTriggers(s, e) /\ SubmitsOrder(ClearIncident(s, e), primary))
    /\ UNCHANGED <<pending_orders, executed, crash_epochs, votes, ledger, wreck, unchecked>>

Tow ==
    /\ wreck = "IN_BOX" /\ wreck' = "TOWED"
    /\ UNCHANGED <<app, bridgeVars, pbftVars, unchecked>>

-----------------------------------------------------------------------------

\* Every vehicle but the stragglers has applied ORDER(0).
InitialApp(r) ==
    LET applied == r \notin Stragglers IN
    [ cancel_state |-> "INACTIVE", consensus_pending |-> FALSE,
      cancel_pending |-> FALSE, cancel_initiated |-> FALSE,
      cancel_submitted |-> FALSE, propose_submitted |-> FALSE,
      cancelled_epoch |-> 0, new_epoch |-> 0, reason |-> "CRASH",
      leaders |-> {}, rotation |-> 0, lease |-> FALSE, current_epoch |-> 0,
      order_applied |-> applied,
      last_committed |-> IF applied THEN 0 ELSE None,
      view |-> IF applied THEN 0 ELSE None,
      cancels |-> [e \in Epoch |-> "NONE"],
      discovery |-> IF applied THEN "INACTIVE" ELSE "COLLECTING",
      candidate |-> "NONE", incident |-> [e \in Epoch |-> "NONE"],
      echo_sent |-> {}, cert_seen |-> {}, clear_echo |-> {}, clear_seen |-> {},
      order_gossip |-> IF applied /\ GossipEnabled THEN {Order(0, FALSE)} ELSE {} ]

Init ==
    /\ app = [r \in Honest |-> InitialApp(r)]
    /\ pending_orders = [r \in Honest |-> <<>>]
    /\ executed = [r \in Honest |-> IF r \in Stragglers THEN 0 ELSE 1]
    /\ next_seq = [r \in Honest |-> IF r \in Stragglers THEN 1 ELSE 2]
    /\ crash_epochs = [r \in Honest |-> {}]
    /\ proposed = {} /\ votes = [r \in Honest |-> {}]
    /\ ledger = <<Order(0, FALSE)>>
    /\ wreck = IF "CRASH" \in Reasons THEN "IN_BOX" ELSE "NONE"
    /\ unchecked = 0

AppStep(r) ==
    \/ PerceiveCrash(r)
    \/ PerceiveAmbulance(r)
    \/ \E e \in Epoch, k \in Reason, active \in ActiveBatches :
          HandleCancelEcho(r, e, k, active) \/ HandleCancelCert(r, e, k, active)
    \/ FinishCancelDrain(r)
    \/ CancelLeaseExpires(r)
    \/ ProcessCancel(r)
    \/ \E adopt \in BOOLEAN, primary \in MayLead(r) : ProcessOrder(r, adopt, primary)
    \/ \E e \in Epoch \ {MaxEpoch}, k \in Reasons : HandleCancelCommitGossip(r, e, k)
    \/ \E e \in Epoch, clear \in BOOLEAN : HandleDecisionGossip(r, Order(e, clear))
    \/ \E primary \in MayLead(r) : DiscoveryCompletes(r, primary)
    \/ PrimaryChange(r)
    \/ \E e \in Epoch : SendClearEcho(r, e)
    \/ \E e \in Epoch, primary \in MayLead(r) : HandleClearCert(r, e, primary)

Protocol ==
    \/ \E r \in Honest : AppStep(r) \/ Execute(r)
    \/ \E p \in proposed : CommitCancel(p) \/ CommitOrder(p)
    \/ \E v \in Honest, p \in proposed : VoteOrder(v, p)
    \/ \E leader \in Faulty, d \in Decisions :
          CommitUnchecked([entry |-> d, leader |-> leader, seq |-> Len(ledger) + 1])

Next == Protocol \/ Tow

Spec == Init /\ [][Next]_vars

\* The radio eventually delivers what is retried, timers fire, PBFT orders what is
\* proposed, and the executor and the transport poll run.
Fairness ==
    /\ \A r \in Honest :
          /\ WF_vars(\E e \in Epoch, k \in Reason, active \in ActiveBatches :
                        <<e, k>> \notin app[r].cert_seen /\ HandleCancelCert(r, e, k, active))
          /\ WF_vars(FinishCancelDrain(r))
          /\ WF_vars(CancelLeaseExpires(r))
    /\ WF_vars(\E p \in proposed : CommitCancel(p))

\* The wreck is never towed: everything up to the wait for CLEAR.
UntowedSpec == Init /\ [][Protocol]_vars /\ Fairness

-----------------------------------------------------------------------------
(* Safety *)

\* The fields keep their types: in particular no epoch arithmetic of a rollback
\* (new_epoch, the executor's target) leaves the naturals.
TypeOK ==
    /\ app \in [Honest -> AppState]
    /\ pending_orders \in [Honest -> Seq(Entry)]
    /\ executed \in [Honest -> Nat] /\ next_seq \in [Honest -> Nat]
    /\ crash_epochs \in [Honest -> SUBSET Nat]
    /\ proposed \subseteq Proposal
    /\ votes \in [Honest -> SUBSET Proposal]
    /\ ledger \in Seq(Entry)
    /\ wreck \in {"NONE", "IN_BOX", "TOWED"}
    /\ unchecked \in Nat

Decided(d) == \E i \in 1 .. Len(ledger) : ledger[i] = d

\* So far, senders used their own names and only honest vehicles led: what the code
\* relies on and does not check.  With Faulty = {} it always holds.
Checked == unchecked = 0

\* A vehicle tombstones an epoch only for a CANCEL that PBFT ordered, with its reason:
\* f+1 attestations under the names of their senders include an honest one.
TombstonesDecided ==
    \A r \in Honest, e \in Epoch :
        app[r].cancels[e] # "NONE" => Decided(Cancel(e, app[r].cancels[e]))
AdoptionSound == Checked => TombstonesDecided

\* An honest vehicle proposes a CANCEL only if an honest vehicle witnessed the incident,
\* whatever faulty vehicles sign, attest, propose or vote.
HonestProposalWitnessed ==
    \A p \in proposed : p.entry.kind = "CANCEL" =>
        \E r \in Honest : <<p.entry.epoch, p.entry.reason>> \in app[r].echo_sent

\* ... so PBFT orders witnessed CANCELs only, as long as no faulty vehicle leads.
DecidedWitnessed ==
    \A i \in 1 .. Len(ledger) : ledger[i].kind = "CANCEL" =>
        \E r \in Honest : <<ledger[i].epoch, ledger[i].reason>> \in app[r].echo_sent
CancelWitnessed == HonestProposalWitnessed /\ (Checked => DecidedWitnessed)

\* PBFT orders ORDER(e+1) only after a CANCEL(e).
RecoveriesFollow ==
    \A i \in 1 .. Len(ledger) : ledger[i].kind = "ORDER" /\ ledger[i].epoch > 0 =>
        \E j \in 1 .. i - 1 : /\ ledger[j].kind = "CANCEL"
                              /\ ledger[j].epoch = ledger[i].epoch - 1
RecoveryAfterCancel == Checked => RecoveriesFollow

\* While a rollback is pending, the vehicle works for the epoch after a tombstoned one.
RecoveryCoherent ==
    \A r \in Honest : app[r].cancel_pending =>
        /\ Tombstoned(app[r], app[r].cancelled_epoch)
        /\ app[r].new_epoch = app[r].cancelled_epoch + 1
        /\ app[r].current_epoch = app[r].new_epoch

\* A vehicle never keeps applied an ORDER whose epoch it has tombstoned.
TombstonedNotApplied ==
    \A r \in Honest : app[r].order_applied => ~Tombstoned(app[r], app[r].view)

\* A vehicle that accepted a certificate always has a drain or a proposal under way.
AcceptedCertProgresses ==
    \A r \in Honest :
        app[r].consensus_pending => app[r].cancel_state \in {"DRAINING", "CONSENSUS"}

\* A recovery ORDER that follows a crash is ordered only once the box is empty.
RecoveryOrderOnlyAfterClear ==
    (\E i \in 1 .. Len(ledger) : ledger[i].kind = "ORDER" /\ ledger[i].epoch > 0)
        => wreck # "IN_BOX"

\* A vehicle believes the incident cleared only once the box is empty.
ClearedMeansEmpty ==
    \A r \in Honest, e \in Epoch : app[r].incident[e] = "CLEARED" => wreck # "IN_BOX"

\* The executor of a vehicle that adopted a CANCEL by gossip is not moved past the
\* sequence PBFT has ordered.
ExecutorsBehind == \A r \in Honest : executed[r] <= Len(ledger)
ExecutorWithinLedger == Checked => ExecutorsBehind

\* Every vehicle that holds a committed CANCEL is through with witnessing it.
SameRecoveryState ==
    \A r \in Honest :
        app[r].cancel_state = "COMMITTED" => ~app[r].cancel_initiated

-----------------------------------------------------------------------------
(* Actions *)

\* An applied ORDER is undone only by the CANCEL of its own epoch.
UndoneOnlyByItsCancel ==
    [][\A r \in Honest : app[r].order_applied /\ ~app'[r].order_applied
           => Tombstoned(app'[r], app[r].view)]_vars

\* No vehicle goes back to an earlier view.
ViewsAdvance == [][\A r \in Honest : app[r].view <= app'[r].view]_vars

-----------------------------------------------------------------------------
(* Liveness *)

\* A certified incident is cancelled, although the first proposer keeps silent.
CertifiedIncidentIsCancelled ==
    \A e \in Epoch :
        (\E r \in Honest : app[r].consensus_pending /\ app[r].cancelled_epoch = e)
            ~> (\E k \in Reason : Decided(Cancel(e, k)))

\* The PBFT sequence alternates: ORDER(e), then CANCEL(e), then ORDER(e+1).
LedgerPrefixPerEpoch ==
    \A i \in 1 .. Len(ledger) :
        /\ ledger[i].epoch = (i - 1) \div 2
        /\ ledger[i].kind = IF i % 2 = 1 THEN "ORDER" ELSE "CANCEL"

=============================================================================
