------------------------------- MODULE Discovery -------------------------------
(***************************************************************************)
(* How a vehicle learns whom to schedule.  It announces a claim about      *)
(* itself, others who perceive the same echo it, f+1 echoes make an        *)
(* arrival certificate; once stopped, the same is done for the distance to *)
(* the stop line.  A round collects, drains its own certificates to the    *)
(* radio and completes; its view then becomes the candidate of an ORDER.   *)
(* A claim, with its hash, is a record; signatures are the sets of pairs   *)
(* of a signer and what it signed.  Frames may be lost, and are heard in   *)
(* any order for as long as their sender stays in its round.               *)
(***************************************************************************)
EXTENDS Integers, FiniteSets

CONSTANTS
    R,              \* the replicas, \subseteq Nat
    FaultySets,     \* the deployments: which of them announce and sign at will
    F,              \* tolerated_faults_
    Truth, Lie,     \* what a vehicle can claim about itself
    FaultyEpochs,   \* bound: the epochs for which a faulty vehicle lies
    Verdicts,       \* \subseteq {"accept", "wrong", "unseen"}: of perception
    LastEpoch,      \* bound: 0 or 1, the epoch of the last round
    Recallable,     \* shouldIncludeInRollbackMembership()
    MinMembers,     \* minRollbackMembershipSize()
    RetriesRunOut   \* BOOLEAN: the last retry may find no frame aired yet

Epoch == 0 .. LastEpoch
Claim == {k \in [car : R, epoch : Epoch, variant : {Truth, Lie}] :
             k.variant = Lie => k.car \in UNION FaultySets /\ k.epoch \in FaultyEpochs}
Attestation == {a \in [car : R, epoch : Epoch, claim : Claim] : a.claim.car = a.car}
None == [car |-> -1]

ASSUME DiscoveryAssumption ==
    /\ R \subseteq Nat /\ IsFiniteSet(R) /\ FaultySets \subseteq SUBSET R /\ F \in Nat
    /\ \A faults \in FaultySets : Cardinality(faults) <= F
    /\ Truth # Lie /\ FaultyEpochs \subseteq Epoch /\ Verdicts \subseteq {"accept", "wrong", "unseen"}
    /\ LastEpoch \in {0, 1} /\ Recallable \subseteq R /\ MinMembers \in Nat
    /\ RetriesRunOut \in BOOLEAN

VARIABLES
    faulty,     \* the faulty vehicles of this deployment, fixed
    air,        \* what each vehicle has broadcast in its round
    signed,     \* the arrival echoes honest vehicles have signed
    dsigned,    \* ... and the stopped-distance echoes
    app         \* [R -> App]; that of a faulty vehicle is not used

vars == <<faulty, air, signed, dsigned, app>>

Honest == R \ faulty

Frame == [kind : {"ANN", "CERT"}, of : Claim]
            \cup [kind : {"ATT", "DIST"}, of : Attestation]
State == {"COLLECTING", "DRAINING_CERTS", "COMPLETE", "INACTIVE"}
LocalCertState == {"NOT_ASSEMBLED", "QUEUED", "AIRED"}

App == [
    epoch      : Epoch,              \* current_epoch_, discovery_.epoch
    state      : State,
    entered    : BOOLEAN,            \* entered_stop_zone_
    distance   : BOOLEAN,            \* stopped_distance_collection_active_
    submitted  : BOOLEAN,            \* propose_submitted_
    applied    : BOOLEAN,            \* order_applied_
    intents    : SUBSET R,           \* observed_intent_cars_
    hash       : [R -> Claim \cup {None}],  \* local_claim_hashes_
    variants   : SUBSET Claim,       \* first_arrival_claim_hashes_
    echoes     : SUBSET R,           \* my_received_echoes_: the signers
    certs      : [R -> Claim \cup {None}],  \* collected_certs_
    localCert  : LocalCertState,     \* ... which also tells cert_broadcast_
    own        : Claim \cup {None},  \* cert_pending_retries_
    retry      : BOOLEAN,            \* cert_retry_timer_ is scheduled
    attested   : Attestation \cup {None},  \* local_distance_attestation_
    dechoes    : SUBSET R,           \* my_received_distance_echoes_
    finalize   : BOOLEAN,            \* stopped_distance_finalize_timer_
    sampled    : SUBSET Attestation, \* stopped_distance_samples_
    pending    : SUBSET Attestation, \* pending_distance_attestations_
    dist       : [R -> Attestation \cup {None}],  \* collected_distance_certs_
    localDistanceCert : LocalCertState,
    queue      : SUBSET {"CERT", "DIST"},  \* own certificates yet to air
    voters     : SUBSET R,           \* order_candidate_
    evidence   : [R -> Claim \cup {None}]]  \* ... its certificates

Nothing == [v \in R |-> None]

(* DiscoveryRound::reset(), startDiscoveryRound() and, for a later epoch,  *)
(* what beginPostCancelDiscovery() clears.                                 *)
NewRound(e, stopped) == [
    epoch |-> e, state |-> "COLLECTING", entered |-> stopped, distance |-> FALSE,
    submitted |-> FALSE, applied |-> FALSE, intents |-> {}, hash |-> Nothing,
    variants |-> {}, echoes |-> {}, certs |-> Nothing, localCert |-> "NOT_ASSEMBLED",
    own |-> None, retry |-> FALSE, attested |-> None, dechoes |-> {},
    finalize |-> FALSE, sampled |-> {}, pending |-> {}, dist |-> Nothing,
    localDistanceCert |-> "NOT_ASSEMBLED", queue |-> {}, voters |-> {},
    evidence |-> Nothing]

Init == /\ faulty \in FaultySets
        /\ air = [v \in R |-> {}]
        /\ signed = {}
        /\ dsigned = {}
        /\ app = [v \in R |-> NewRound(0, FALSE)]

-----------------------------------------------------------------------------
(* Certificates *)

\* Variant: validateArrivalCert() and the collector ask for f signatures.
EnoughF(signers) == Cardinality(signers) >= F

(* required = f + 1, the claimant's own signature included *)
Enough(signers) == Cardinality(signers) >= F + 1

Signers(k) == {w \in Honest \ {k.car} : <<w, k>> \in signed} \cup faulty
DistanceSigners(a) == {w \in Honest : <<w, a>> \in dsigned} \cup faulty \cup {a.car}

(* What can be heard from s: an honest vehicle's frames of this round, or  *)
(* anything a faulty one can put together, announcements of earlier rounds *)
(* included.                                                               *)
Heard(s, kind, x) ==
    IF s \in Honest THEN [kind |-> kind, of |-> x] \in air[s]
    ELSE CASE kind = "CERT" -> Enough(Signers(x))
           [] kind = "DIST" -> x.car \in faulty /\ Enough(DistanceSigners(x))
           [] OTHER -> \/ x.car = s /\ x.epoch \in FaultyEpochs
                       \/ kind = "ANN" /\ <<x.car, x>> \in signed

(* Bound: what arrives after an ORDER has closed the round is left out; it *)
(* is stored at most, and cleared by the next round.                       *)
Listening(s) == s.state # "INACTIVE"

Active(s) == ~s.submitted /\ ~s.applied
Collecting(s) == s.state = "COLLECTING" /\ Active(s)

InMembership(s, v) == s.epoch = 0 \/ v \in Recallable

(* CertPrimary() *)
CertPrimary(s) ==
    LET eligible == {v \in R : s.certs[v] # None /\ InMembership(s, v)}
    IN  IF eligible = {} THEN -1 ELSE CHOOSE p \in eligible : \A v \in eligible : p <= v

arrivalViewCertified(s) ==
    LET eligible == {v \in s.intents : InMembership(s, v)}
    IN  eligible # {} /\ \A v \in eligible : s.certs[v] # None

discoveryViewCertified(s, r) ==
    LET eligible == {v \in s.intents : InMembership(s, v)}
    IN  /\ eligible # {}
        /\ s.epoch = 1 /\ r \in Recallable => r \in eligible
        /\ \A v \in eligible : s.certs[v] # None /\ s.dist[v] # None

-----------------------------------------------------------------------------
(* Closing a round *)

(* evaluateOrderReadiness() and buildOrderCandidate(): the candidate is    *)
(* frozen here; its primary proposes, unless a recovery is too small.      *)
evaluateOrderReadiness(s, r) ==
    LET voters == {v \in R : s.certs[v] # None /\ s.dist[v] # None /\ InMembership(s, v)}
        small == s.epoch = 1 /\ Cardinality(voters) < MinMembers
    IN  [s EXCEPT !.voters = voters,
                  !.evidence = [v \in R |-> IF v \in voters THEN s.certs[v] ELSE None],
                  !.submitted = ~small /\ r \in voters /\ \A v \in voters : r <= v]

\* Variant: only the queue is looked at, not whether a frame was refused.
maybeCompleteQueue(s, r) ==
    IF s.state # "DRAINING_CERTS" \/ s.queue # {} THEN s
    ELSE evaluateOrderReadiness([s EXCEPT !.state = "COMPLETE", !.retry = FALSE], r)

(* maybeCompleteDiscoveryDrain(), finishDiscoveryRound() *)
maybeComplete(s, r) ==
    IF \/ s.state # "DRAINING_CERTS"
       \/ s.localCert = "QUEUED" \/ s.localDistanceCert = "QUEUED" \/ s.queue # {}
    THEN s
    ELSE evaluateOrderReadiness([s EXCEPT !.state = "COMPLETE", !.retry = FALSE], r)

(* finalizeLocalArrivalCert() and the part of broadcastArrivalCert() that  *)
(* sends and stores; the frame is refused while distances are collected.   *)
finalizeArrival(s, r) ==
    IF s.localCert # "NOT_ASSEMBLED" \/ ~Enough(s.echoes) \/ s.hash[r] = None THEN s
    ELSE [s EXCEPT !.localCert = "QUEUED", !.retry = TRUE,
                   !.own = IF s.hash[r].epoch = s.epoch THEN s.hash[r] ELSE None,
                   !.queue = IF Collecting(s) /\ ~s.distance THEN @ \cup {"CERT"} ELSE @,
                   !.certs[r] = IF @ = None THEN s.hash[r] ELSE @]

(* finalizeLocalStoppedDistanceCert(): the second copy is queued whatever  *)
(* the state of the round.                                                 *)
finalizeDistance(s, r) ==
    IF \/ s.attested = None \/ s.localDistanceCert # "NOT_ASSEMBLED"
       \/ ~Enough(s.dechoes \cup {r})
    THEN s
    ELSE [s EXCEPT !.localDistanceCert = "QUEUED", !.finalize = FALSE,
                   !.queue = @ \cup {"DIST"}, !.dist[r] = s.attested]

(* beginDiscoveryDrain() *)
beginDiscoveryDrain(s, r) ==
    maybeComplete([finalizeDistance(finalizeArrival(s, r), r)
                      EXCEPT !.state = "DRAINING_CERTS", !.distance = FALSE], r)

(* beginStoppedDistanceCollection(): every frame of the first stage that   *)
(* waits for its radio slot is dropped.                                    *)
beginStoppedDistanceCollection(s) ==
    [s EXCEPT !.distance = TRUE, !.queue = @ \cap {"DIST"}]

\* Variant: the deadline of the second stage starts that stage again.
DeadlineAgain(s, r) ==
    IF arrivalViewCertified(s) /\ ~discoveryViewCertified(s, r)
    THEN beginStoppedDistanceCollection(s)
    ELSE beginDiscoveryDrain(s, r)

(* maybeAdvanceDiscovery() with a deadline *)
DeadlineReached(s, r) ==
    IF ~s.distance /\ arrivalViewCertified(s) /\ ~discoveryViewCertified(s, r)
    THEN beginStoppedDistanceCollection(s)
    ELSE beginDiscoveryDrain(s, r)

(* ... and without: a cold start never closes before its first deadline.   *)
maybeAdvance(s, r, settled) ==
    IF /\ Collecting(s) /\ s.entered /\ settled
       /\ s.epoch > 0 \/ s.distance
       /\ discoveryViewCertified(s, r)
    THEN beginDiscoveryDrain(s, r) ELSE s

Step(r, s) == r \in Honest /\ app' = [app EXCEPT ![r] = s]
Send(r, frames) == air' = [air EXCEPT ![r] = @ \cup frames]

-----------------------------------------------------------------------------
(* Bound: noise that rejects an honest claim amounts to the loss of its    *)
(* frame, so only a faulty vehicle's claims get every verdict.             *)
VerdictsOn(v) == IF v \in faulty THEN Verdicts ELSE {"accept"}
Accepts(v) == {verdict = "accept" : verdict \in VerdictsOn(v)}

(* The arrival stage *)

Own(s, r) == [car |-> r, epoch |-> s.epoch, variant |-> Truth]

(* broadcastArrivalAnnouncement(), the first time: the claim is made, kept *)
(* and signed by its claimant; later broadcasts repeat it.                 *)
announced(s, r) == [s EXCEPT !.hash[r] = Own(s, r), !.echoes = {r}, !.intents = @ \cup {r}]

Announce(r) ==
    LET s == app[r]
        k == Own(s, r)
    IN  /\ s.state = "COLLECTING" /\ Active(s) /\ ~s.distance
        /\ InMembership(s, r)
        /\ [kind |-> "ANN", of |-> k] \notin air[r]
        /\ Step(r, announced(s, r))
        /\ Send(r, {[kind |-> "ANN", of |-> k]})
        /\ signed' = signed \cup {<<r, k>>}
        /\ UNCHANGED <<faulty, dsigned>>

(* One variant of a claim is evaluated per witness, target and epoch. *)
FirstVariant(s, k) == \A h \in s.variants : h.car # k.car \/ h.epoch # k.epoch

(* handleArrivalAnnouncement(), directly or carried by another vehicle.    *)
(* Repetitions retransmit what the first one led to.                       *)
HandleArrivalAnnouncement(r, from, k, verdict) ==
    LET s == app[r]
        judged == [s EXCEPT !.variants = @ \cup {k}]
        known == [judged EXCEPT !.hash[k.car] = k, !.intents = @ \cup {k.car}]
    IN  /\ verdict \in VerdictsOn(k.car)
        /\ k.car # r /\ Collecting(s) /\ ~s.distance
        /\ Heard(from, "ANN", k) /\ (from \in {k.car} \cup faulty \/ k.epoch >= s.epoch)
        /\ FirstVariant(s, k)
        /\ Step(r, IF verdict = "unseen" THEN judged ELSE known)
        /\ IF verdict = "accept"
           THEN /\ signed' = signed \cup {<<r, k>>}
                /\ Send(r, {[kind |-> "ANN", of |-> k]})
           ELSE UNCHANGED <<signed, air>>
        /\ UNCHANGED <<faulty, dsigned>>

(* handleArrivalEcho() and collectArrivalEcho() *)
HandleArrivalEcho(r, w) ==
    LET s == app[r]
        k == Own(s, r)
    IN  /\ Collecting(s) /\ ~s.distance /\ s.localCert = "NOT_ASSEMBLED"
        /\ w # r /\ w \notin s.echoes /\ s.hash[r] = k
        /\ w \in faulty \/ <<w, k>> \in signed
        /\ Step(r, [s EXCEPT !.echoes = @ \cup {w}])
        /\ UNCHANGED <<faulty, air, signed, dsigned>>

(* The end of the collection window. *)
FinalizeArrivalCert(r, settled) ==
    LET s == app[r] IN
    /\ s.state = "COLLECTING" /\ s.localCert = "NOT_ASSEMBLED" /\ Enough(s.echoes)
    /\ s.hash[r] # None
    /\ Step(r, maybeAdvance(finalizeArrival(s, r), r, settled))
    /\ UNCHANGED <<faulty, air, signed, dsigned>>

(* handleStoppedDistanceAttestation(), once the claim it names is known *)
Bound(s, a) == s.hash[a.car] = a.claim \/ s.certs[a.car] = a.claim
Echoes(r, atts, accepts) == IF accepts THEN {<<r, a>> : a \in atts} ELSE {}

(* handleArrivalCert(): of any epoch and in any state.  The attestations   *)
(* that waited for the claim are taken up; the certificate is relayed, and *)
(* repeated by the lowest certified vehicle of the stop zone.              *)
HandleArrivalCert(r, from, k, settled, accepts) ==
    LET s == app[r]
        open == s.state = "COLLECTING"
        stored == [s EXCEPT !.certs[k.car] = k, !.hash[k.car] = k,
                            !.intents = @ \cup {k.car}]
        due == {a \in s.pending : a.claim = k} \ s.sampled
        resumed == [stored EXCEPT
            !.pending = {a \in @ : a.claim # k},
            !.sampled = IF Active(s) THEN @ \cup due ELSE @]
        sends == open /\ Active(s) /\ ~s.distance
        gossips == s.entered /\ CertPrimary(stored) = r
        frames == {k} \cup IF gossips THEN {stored.certs[v] : v \in R} \ {None} ELSE {}
    IN  /\ accepts \in Accepts(k.car)
        /\ Listening(s) /\ from # r /\ Heard(from, "CERT", k) /\ s.certs[k.car] = None
        /\ Step(r, maybeAdvance(resumed, r, settled))
        /\ IF sends THEN Send(r, [kind : {"CERT"}, of : frames]) ELSE UNCHANGED air
        /\ dsigned' = dsigned \cup IF Active(s) THEN Echoes(r, due, accepts) ELSE {}
        /\ UNCHANGED <<faulty, signed>>

-----------------------------------------------------------------------------
(* The stopped-distance stage *)

(* maybeBroadcastStoppedDistanceAttestation(), of a vehicle that stands in *)
(* its lane: what is bound is the claim stored for oneself.                *)
MaybeBroadcastAttestation(r) ==
    LET s == app[r]
        a == [car |-> r, epoch |-> s.epoch, claim |-> s.hash[r]]
    IN  /\ s.entered /\ Collecting(s) /\ InMembership(s, r)
        /\ s.attested = None /\ s.hash[r] # None
        /\ Step(r, [s EXCEPT !.attested = a, !.finalize = Enough({r})])
        /\ Send(r, {[kind |-> "ATT", of |-> a]})
        /\ UNCHANGED <<faulty, signed, dsigned>>

HandleAttestation(r, a, accepts) ==
    LET s == app[r] IN
    /\ accepts \in Accepts(a.car)
    /\ a.car # r /\ Heard(a.car, "ATT", a) /\ a.epoch = s.epoch /\ Active(s)
    /\ a \notin s.sampled
    /\ IF Bound(s, a)
       THEN /\ Step(r, [s EXCEPT !.sampled = @ \cup {a}])
            /\ dsigned' = dsigned \cup Echoes(r, {a}, accepts)
       ELSE /\ a \notin s.pending /\ accepts
            /\ Step(r, [s EXCEPT !.pending = @ \cup {a}])
            /\ UNCHANGED dsigned
    /\ UNCHANGED <<faulty, air, signed>>

(* handleStoppedDistanceEcho(), collectStoppedDistanceEcho(): in any state *)
HandleDistanceEcho(r, w) ==
    LET s == app[r] IN
    /\ s.attested # None /\ s.localDistanceCert = "NOT_ASSEMBLED"
    /\ Listening(s) /\ w # r /\ w \notin s.dechoes
    /\ w \in faulty \/ <<w, s.attested>> \in dsigned
    /\ Step(r, [s EXCEPT !.dechoes = @ \cup {w},
                         !.finalize = @ \/ Enough(s.dechoes \cup {r, w})])
    /\ UNCHANGED <<faulty, air, signed, dsigned>>

FinalizeDistanceCert(r, settled) ==
    /\ app[r].finalize
    /\ Step(r, maybeAdvance(finalizeDistance(app[r], r), r, settled))
    /\ UNCHANGED <<faulty, air, signed, dsigned>>

\* Variant: the certificate need not be of the claim that was certified.
DistanceBoundAny(s, a) == s.certs[a.car] # None

DistanceBound(s, a) == s.certs[a.car] = a.claim

(* handleStoppedDistanceCert() *)
HandleDistanceCert(r, from, a, settled) ==
    LET s == app[r]
        sends == s.state = "COLLECTING" /\ Active(s)
    IN  /\ Listening(s) /\ from # r /\ Heard(from, "DIST", a) /\ a.epoch = s.epoch
        /\ s.dist[a.car] = None /\ DistanceBound(s, a)
        /\ Step(r, maybeAdvance([s EXCEPT !.dist[a.car] = a], r, settled))
        /\ IF sends THEN Send(r, {[kind |-> "DIST", of |-> a]}) ELSE UNCHANGED air
        /\ UNCHANGED <<faulty, signed, dsigned>>

-----------------------------------------------------------------------------
(* Radio slots, timers and the road *)

(* flushDueDiscoveryTxs(): those that are due.  The queue is kept for the  *)
(* vehicle's own certificates; a relayed frame counts as on the air as     *)
(* soon as it is queued.                                                   *)
Flush(r, due) ==
    LET s == app[r]
        airs == s.state \in {"COLLECTING", "DRAINING_CERTS"}
        sent == IF airs THEN due ELSE {}
        aired == [s EXCEPT
            !.queue = @ \ due,
            !.localCert = IF "CERT" \in sent THEN "AIRED" ELSE @,
            !.localDistanceCert = IF "DIST" \in sent THEN "AIRED" ELSE @,
            !.retry = @ /\ "CERT" \notin sent]
    IN  /\ due # {} /\ due \subseteq s.queue
        /\ Step(r, maybeComplete(aired, r))
        /\ Send(r, (IF "CERT" \in sent /\ s.own # None
                    THEN {[kind |-> "CERT", of |-> s.own]} ELSE {})
                   \cup IF "DIST" \in sent THEN {[kind |-> "DIST", of |-> s.attested]} ELSE {})
        /\ UNCHANGED <<faulty, signed, dsigned>>

(* cert_retry_timer_: refused while distances are collected.  It takes     *)
(* longer than that stage to run out, unless RetriesRunOut.  A copy of a   *)
(* certificate that has been aired adds nothing here.                      *)
RetryCert(r, last) ==
    LET s == app[r]
        accepted == Active(s) /\ ~s.distance /\ s.state \in {"COLLECTING", "DRAINING_CERTS"}
    IN  /\ s.retry
        /\ Step(r, [s EXCEPT !.retry = ~last,
                             !.queue = IF accepted THEN @ \cup {"CERT"} ELSE @])
        /\ UNCHANGED <<faulty, air, signed, dsigned>>

(* handlePositionUpdate(), at the stop zone *)
EnterStopZone(r, settled) ==
    LET s == app[r] IN
    /\ ~s.entered /\ ~s.applied
    /\ Step(r, maybeAdvance([s EXCEPT !.entered = TRUE], r, settled))
    /\ UNCHANGED <<faulty, air, signed, dsigned>>

(* discovery_settle_msg_ *)
Settle(r) ==
    /\ maybeAdvance(app[r], r, TRUE) # app[r]
    /\ Step(r, maybeAdvance(app[r], r, TRUE))
    /\ UNCHANGED <<faulty, air, signed, dsigned>>

(* discovery_deadline_msg_ is armed as long as a stopped vehicle collects. *)
Deadline(r) ==
    /\ app[r].entered /\ Collecting(app[r])
    /\ Step(r, DeadlineReached(app[r], r))
    /\ UNCHANGED <<faulty, air, signed, dsigned>>

(* processOrders() takes the ORDER of this epoch: deactivateDiscovery().   *)
OrderApplied(r) ==
    LET s == app[r] IN
    /\ ~s.applied /\ (s.epoch = LastEpoch => LastEpoch = 0)
    /\ {p \in Honest : app[p].epoch = s.epoch /\ (app[p].submitted \/ app[p].applied)} # {}
    /\ Step(r, [s EXCEPT !.applied = TRUE, !.state = "INACTIVE", !.distance = FALSE,
                         !.retry = FALSE, !.finalize = FALSE, !.queue = {}])
    /\ UNCHANGED <<faulty, air, signed, dsigned>>

(* beginPostCancelDiscovery(): CANCEL(0), which takes vehicles that have   *)
(* committed ORDER(0), is committed; a vehicle that can still be recalled  *)
(* announces at once.  One that cannot has been released by ORDER(0).      *)
BeginPostCancelDiscovery(r) ==
    LET fresh == NewRound(1, app[r].entered)
        k == Own(fresh, r)
        joins == r \in Recallable
    IN  /\ LastEpoch = 1 /\ app[r].epoch = 0
        /\ {p \in Honest : app[p].applied \/ app[p].epoch = 1} # {}
        /\ ~joins => app[r].applied /\ app[r].entered
        /\ Step(r, IF joins THEN announced(fresh, r) ELSE fresh)
        /\ air' = [air EXCEPT ![r] = IF joins THEN {[kind |-> "ANN", of |-> k]} ELSE {}]
        /\ signed' = IF joins THEN signed \cup {<<r, k>>} ELSE signed
        /\ UNCHANGED <<faulty, dsigned>>

Drain(r) == \/ \E due \in SUBSET {"CERT", "DIST"} : Flush(r, due)
            \/ \E last \in {FALSE, RetriesRunOut} : RetryCert(r, last)

Next ==
    \E r \in R :
        \/ Announce(r) \/ MaybeBroadcastAttestation(r)
        \/ Settle(r) \/ OrderApplied(r) \/ BeginPostCancelDiscovery(r)
        \/ \E from \in R, k \in Claim, verdict \in Verdicts :
               HandleArrivalAnnouncement(r, from, k, verdict)
        \/ \E w \in R : HandleArrivalEcho(r, w) \/ HandleDistanceEcho(r, w)
        \/ \E settled \in BOOLEAN :
               \/ FinalizeArrivalCert(r, settled) \/ FinalizeDistanceCert(r, settled)
               \/ EnterStopZone(r, settled)
               \/ \E from \in R, k \in Claim, accepts \in BOOLEAN :
                      HandleArrivalCert(r, from, k, settled, accepts)
               \/ \E from \in R, a \in Attestation : HandleDistanceCert(r, from, a, settled)
        \/ \E a \in Attestation, accepts \in BOOLEAN : HandleAttestation(r, a, accepts)
        \/ Deadline(r) \/ Drain(r)

(* Timers that are armed expire, and queued frames get their slot. *)
Fairness ==
    \A r \in R :
        /\ WF_vars(Deadline(r))
        /\ WF_vars(Drain(r))

Spec == Init /\ [][Next]_vars /\ Fairness
-----------------------------------------------------------------------------
(* Properties *)

TypeOK == /\ faulty \in FaultySets
          /\ air \in [R -> SUBSET Frame]
          /\ signed \subseteq R \X Claim
          /\ dsigned \subseteq R \X Attestation
          /\ app \in [R -> App]

(* Whatever a vehicle has stored as certified, an honest vehicle perceived *)
(* or made itself (validateArrivalCert(), validateStoppedDistanceCert()):  *)
(* the f faulty ones cannot certify a claim among themselves, in whatever  *)
(* order claims, echoes and certificates arrive.                           *)
EvidenceIsWitnessed ==
    \A r \in Honest, v \in R :
        /\ app[r].certs[v] # None => \E w \in Honest : <<w, app[r].certs[v]>> \in signed
        /\ app[r].dist[v] # None /\ v \in faulty =>
               \E w \in Honest : <<w, app[r].dist[v]>> \in dsigned

(* In a candidate (buildOrderCandidate()) the distance that ranks another  *)
(* vehicle was attested for the very claim that its arrival certificate is *)
(* about, although the two stages certify at different times.              *)
VotersAreBound ==
    \A r \in Honest : \A v \in app[r].voters \ {r} :
        app[r].dist[v].claim = app[r].evidence[v]

(* Who has completed has been heard: a certificate of its own that it      *)
(* assembled was on the radio before its candidate was frozen              *)
(* (maybeCompleteDiscoveryDrain()), however the stages dropped its frames. *)
OwnCertWasHeard ==
    \A r \in Honest : app[r].state = "COMPLETE" /\ app[r].own # None =>
        [kind |-> "CERT", of |-> app[r].own] \in air[r]

(* A candidate holds certificates of its own epoch only.                   *)
OldCertsDoNotAuthorize ==
    \A r \in Honest : \A v \in app[r].voters : app[r].evidence[v].epoch = app[r].epoch

(* A stopped vehicle's round ends: the deadlines expire, its certificates  *)
(* reach the radio, and it completes or an ORDER overtakes it.             *)
StoppedVehicleFinishes ==
    \A r \in R :
        r \in Honest /\ app[r].entered /\ app[r].state = "COLLECTING"
            ~> app[r].state \in {"COMPLETE", "INACTIVE"}

==============================================================================
