----------------------------- MODULE Certificates -----------------------------
(***************************************************************************)
(* The two certificates of an incident.  Vehicles that see a wreck in the  *)
(* box sign a CANCEL echo; f+1 echoes are a CANCEL certificate, which      *)
(* halts, registers the incident as BLOCKING and is relayed and repeated.  *)
(* After the committed CANCEL, vehicles that see the box empty sign a      *)
(* CLEAR echo; f+1 make a candidate that waits for its turn, and the CLEAR *)
(* certificate lets the recovery ORDER be proposed.  A frame is handled    *)
(* once by each receiver, in any order; one that is never handled is lost. *)
(* Who signed a certificate, a CLEAR echo or its carrier is checked with   *)
(* the registered keys; whose name a CANCEL echo or a CANCEL carrier has   *)
(* is not.                                                                 *)
(***************************************************************************)
EXTENDS Integers, FiniteSets

CONSTANTS
    R,              \* the vehicles on the road, \subseteq Nat; all recallable
    Faulty,         \* \subseteq R: sign whatever others want to certify
    FaultySends,    \* bound: what they send
    MaxUnmatched,   \* bound: CANCEL echoes under a wrong name, by receiver
    Members,        \* committed_order_vehicle_ids_, the view of ORDER(0)
    F,              \* tolerated_faults_, anchored to that view
    Late,           \* \subseteq R: have not applied ORDER(0) at first
    MaxRetries      \* bound, cancel_cert_retry_max_

Kind == {"CANCEL_ECHO", "CANCEL_CERT", "CLEAR_ECHO", "CLEAR_CERT"}

(* ... and proposals that a faulty primary submits                         *)
Proposal == {"CANCEL", "ORDER"}

ASSUME CertificatesAssumption ==
    /\ R \subseteq Nat /\ IsFiniteSet(R) /\ IsFiniteSet(Members) /\ F \in Nat
    /\ Faulty \subseteq R /\ Cardinality(Faulty \cap Members) <= F
    /\ FaultySends \subseteq Kind \cup Proposal /\ Late \subseteq R
    /\ MaxRetries \in Nat \ {0} /\ MaxUnmatched \in Nat

VARIABLES
    road,       \* "free", "wreck" (in the box) or "towed"
    inbox,      \* [R -> SUBSET Frame]: sent, not yet handled
    app         \* [R -> App]; that of a faulty vehicle is not used

vars == <<road, inbox, app>>

Honest == R \ Faulty
Frame == [kind : Kind, from : R]

App == [
    view         : BOOLEAN,         \* has_committed_order_, and its members
    phase        : {"NONE", "CONSENSUS", "PENDING", "OVER"},
                                    \* cancel_consensus_pending_, cancel_pending_
    echoed       : BOOLEAN,         \* cancel_echo_sent_
    echoes       : SUBSET R,        \* cancel_echo_collector_: whose echoes
    unmatched    : SUBSET R,        \* ... names of echoes with another key
    seen         : BOOLEAN,         \* cancel_cert_seen_
    relayed      : BOOLEAN,         \* cancel_cert_relayed_
    carriers     : SUBSET R,        \* cancel_cert_carriers_
    retries      : -1 .. MaxRetries - 1,  \* cancel_cert_retry_count_, -1: stopped
    incident     : {"NONE", "BLOCKING", "CLEARED"},    \* incidentRegistry_
    certs        : {"OWN", "NONE", "OTHERS"},  \* whose are in collected_certs_
    dwelt        : BOOLEAN,         \* clear_echoed_incidents_
    clear_echoes : SUBSET R,        \* clear_echo_collector_
    key          : BOOLEAN,         \* clear_cert_candidate_keys_
    candidate    : SUBSET R,        \* clear_cert_candidate_, while its timer runs
    clear_seen   : BOOLEAN,         \* clear_cert_seen_
    tracker      : SUBSET R,        \* clear_propagation_tracker_
    clear_relayed : BOOLEAN,        \* clear_cert_relayed_
    relay        : BOOLEAN,         \* clear_cert_pending_relay_, with its timer
    submitted    : BOOLEAN,         \* propose_submitted_, of the recovery ORDER
    applied      : BOOLEAN]         \* order_applied_

Fresh(view) == [
    view |-> view, phase |-> "NONE", echoed |-> FALSE, echoes |-> {}, unmatched |-> {},
    seen |-> FALSE, relayed |-> FALSE, carriers |-> {}, retries |-> -1,
    incident |-> "NONE", certs |-> "OWN", dwelt |-> FALSE, clear_echoes |-> {}, key |-> FALSE, candidate |-> {},
    clear_seen |-> FALSE, tracker |-> {}, clear_relayed |-> FALSE, relay |-> FALSE,
    submitted |-> FALSE, applied |-> view]

Init == /\ road = "free"
        /\ inbox = [r \in R |-> {}]
        /\ app = [r \in R |-> Fresh(r \notin Late)]

-----------------------------------------------------------------------------
(* Evidence *)

(* WitnessCertificateValidator::validate(): f+1 signers of the view *)
Enough(signers) == Cardinality(signers \cap Members) >= F + 1

\* Variant: one more than f+1 echoes to assemble a certificate.
ReachedMore(bucket) == Cardinality(bucket) >= F + 2

(* The collectors count every signer, of the view or not. *)
Reached(bucket) == Cardinality(bucket) >= F + 1

(* Whose signatures exist; nobody can put more into a certificate. *)
Signed      == {p \in Honest : app[p].echoed} \cup Faulty
ClearSigned == {p \in Honest : p \in app[p].clear_echoes} \cup Faulty

(* The carriers that make a sender stop. *)
Confirmed(s)      == Cardinality(s.carriers) >= F + 1
ClearConfirmed(s) == Cardinality(s.tracker) >= F + 1

(* clearPropagationRank() of oneself: known once one has been told to halt *)
(* and unless only other vehicles' arrival certificates are at hand.       *)
Ranked(s) == s.phase # "NONE" /\ s.certs # "OTHERS"

(* r becomes s, having handled the frames got, and broadcasts some.        *)
Do(r, s, got, sent) ==
    /\ app' = [app EXCEPT ![r] = s]
    /\ inbox' = [p \in R |-> IF p = r THEN inbox[p] \ got
                             ELSE IF p \in Faulty THEN {}
                             ELSE inbox[p] \cup [kind : sent, from : {r}]]
    /\ UNCHANGED road

FaultySend(what) == Faulty # {} /\ what \in FaultySends

(* A frame of a faulty vehicle, with the name of its signer (its carrier,  *)
(* if a certificate): a CANCEL certificate is carried under any name but   *)
(* the receiver's, which onWSM() drops.                                    *)
FaultyFrame(r, f) == /\ FaultySend(f.kind)
                     /\ f.from \in Faulty \/ (f.kind = "CANCEL_CERT" /\ f.from # r)

-----------------------------------------------------------------------------
(* The CANCEL certificate *)

(* registerBlockedIncidentIfCrash() *)
Register(s) == IF s.incident = "NONE" THEN [s EXCEPT !.incident = "BLOCKING"] ELSE s

(* handleValidCancelJustification(): once per cancelled epoch *)
Halt(s) == IF s.phase = "NONE" THEN [s EXCEPT !.phase = "CONSENSUS"] ELSE s

(* broadcastCancelCert(), of a valid certificate *)
Broadcasted(s) ==
    Halt([Register(s) EXCEPT !.seen = TRUE,
                             !.retries = IF Confirmed(s) THEN -1 ELSE 0])

(* The crash dwell of the poll: sendCancelEcho() *)
CrashDwell(r) ==
    LET s == app[r] IN
    /\ road = "wreck" /\ s.view /\ s.phase = "NONE" /\ ~s.echoed
    /\ Do(r, [s EXCEPT !.echoed = TRUE, !.echoes = @ \cup ({r} \ s.unmatched)],
          {}, {"CANCEL_ECHO"})

(* handleCancelEcho(): the collector takes one echo under each name, with  *)
(* the key it carries; the validator counts those of the registered keys.  *)
Collected(s) == s.echoes \cup s.unmatched

Collect(r, t, got) ==
    IF /\ Collected(t) # Collected(app[r]) /\ Reached(Collected(t)) /\ ~t.seen
       /\ t.view /\ Enough(t.echoes)
    THEN Do(r, Broadcasted(t), got, {"CANCEL_CERT"})
    ELSE Do(r, t, got, {})

HandleCancelEcho(r, f) ==
    LET s == app[r] IN
    /\ f.kind = "CANCEL_ECHO"
    /\ Collect(r, [s EXCEPT !.echoes = @ \cup ({f.from} \ s.unmatched)], {f})

HandleUnmatchedEcho(r, p) ==
    LET s == app[r] IN
    /\ Faulty # {} /\ Cardinality(s.unmatched) < MaxUnmatched
    /\ p \notin Collected(s)
    /\ Collect(r, [s EXCEPT !.unmatched = @ \cup {p}], {})

HandleCancelCert(r, f) ==
    LET s == app[r] IN
    /\ f.kind = "CANCEL_CERT"
    /\ IF s.view /\ Enough(Signed)
       THEN Do(r, Halt([Register(s) EXCEPT !.carriers = @ \cup {f.from},
                                           !.seen = TRUE, !.relayed = TRUE]),
               {f}, IF s.relayed THEN {} ELSE {"CANCEL_CERT"})
       ELSE Do(r, s, {f}, {})

(* cancel_cert_retry_timer_ *)
RetryCancelCert(r) ==
    LET s == app[r]
        next == s.retries + 1
    IN  /\ s.retries >= 0
        /\ IF s.phase \notin {"CONSENSUS", "PENDING"} \/ Confirmed(s)
           THEN Do(r, [s EXCEPT !.retries = -1], {}, {})
           ELSE Do(r, [s EXCEPT !.retries = IF next = MaxRetries THEN -1 ELSE next],
                   {}, {"CANCEL_CERT"})

(* The committed CANCEL: handleCancelCommitDecision() and                  *)
(* handleCancelCommitGossip(), the latter without the end of the retries,  *)
(* then beginPostCancelDiscovery().  What a faulty primary submits is      *)
(* voted for without a certificate (Check13ValidCancelProposal()).         *)
BeginRollback(s) ==
    [s EXCEPT !.phase = "PENDING", !.applied = FALSE, !.submitted = FALSE, !.certs = "NONE",
              !.candidate = {}, !.key = FALSE, !.tracker = {}, !.relay = FALSE]

CommitCancel(r, decided) ==
    LET s == app[r] IN
    /\ s.phase \in {"NONE", "CONSENSUS"}
    /\ Enough(Signed) \/ FaultySend("CANCEL")
    /\ Do(r, [BeginRollback(s) EXCEPT !.retries = IF decided THEN -1 ELSE @], {}, {})

-----------------------------------------------------------------------------
(* The CLEAR certificate *)

Hushed(s) == s.incident = "CLEARED" \/ s.clear_seen \/ s.key

(* onIncidentCleared(): ignored unless the incident is registered *)
Clear(s) == IF s.incident = "BLOCKING"
            THEN [s EXCEPT !.incident = "CLEARED", !.candidate = {}] ELSE s

(* ... with evaluateOrderReadiness(): the primary may submit at once       *)
Cleared(s, submits) ==
    [Clear(s) EXCEPT !.submitted = @ \/ (submits /\ s.incident = "BLOCKING"
                                         /\ s.phase = "PENDING")]

\* Variant: the dwell goes on although the box is occupied.
ClearDwellOccupied(r) ==
    LET s == app[r]
        t == [s EXCEPT !.dwelt = TRUE]
    IN  /\ s.phase = "PENDING" /\ s.incident = "BLOCKING" /\ ~s.dwelt
        /\ IF Hushed(s) THEN Do(r, t, {}, {})
           ELSE Do(r, [t EXCEPT !.clear_echoes = @ \cup {r}], {}, {"CLEAR_ECHO"})

(* The empty-box dwell of the poll, armed again by the CANCEL *)
ClearDwell(r) ==
    LET s == app[r]
        t == [s EXCEPT !.dwelt = TRUE]
    IN  /\ road # "wreck" /\ s.phase = "PENDING" /\ s.incident = "BLOCKING" /\ ~s.dwelt
        /\ IF Hushed(s) THEN Do(r, t, {}, {})
           ELSE Do(r, [t EXCEPT !.clear_echoes = @ \cup {r}], {}, {"CLEAR_ECHO"})

\* Variant: the key is inserted before the rank is known.
CandidateUnranked(s) ==
    [s EXCEPT !.key = TRUE, !.candidate = IF Ranked(s) THEN s.clear_echoes ELSE {}]

(* scheduleClearCertCandidate() *)
Candidate(s) ==
    IF Ranked(s) THEN [s EXCEPT !.key = TRUE, !.candidate = s.clear_echoes] ELSE s

HandleClearEcho(r, f) ==
    LET s == app[r]
        t == [s EXCEPT !.clear_echoes = @ \cup {f.from}]
        new == ~Hushed(s) /\ f.from \notin s.clear_echoes
    IN  /\ f.kind = "CLEAR_ECHO"
        /\ Do(r, IF ~new THEN s ELSE IF Reached(t.clear_echoes) THEN Candidate(t) ELSE t,
              {f}, {})

(* clear_cert_candidate_timer_, broadcastClearCert() *)
CandidateFires(r, submits) ==
    LET s == app[r]
        t == [s EXCEPT !.candidate = {}]
    IN  /\ s.candidate # {}
        /\ IF s.incident = "CLEARED" \/ s.applied \/ ~s.view \/ ~Enough(s.candidate)
           THEN Do(r, t, {}, {})
           ELSE Do(r, Cleared([t EXCEPT !.clear_seen = TRUE, !.tracker = @ \cup {r}], submits),
                   {}, {"CLEAR_CERT"})

(* scheduleClearCertRelay() *)
ScheduleRelay(s) ==
    IF ClearConfirmed(s) THEN [s EXCEPT !.relay = FALSE]
    ELSE IF s.applied \/ s.submitted \/ s.clear_relayed THEN s
    ELSE [s EXCEPT !.clear_relayed = TRUE, !.relay = Ranked(s)]

(* handleClearCert(); one whose carrier is not yet known as a member of    *)
(* the round counts as lost.                                               *)
HandleClearCert(r, f, submits) ==
    LET s == app[r]
        t == [s EXCEPT !.tracker = @ \cup {f.from}, !.clear_seen = TRUE, !.candidate = {}]
    IN  /\ f.kind = "CLEAR_CERT"
        /\ Do(r, IF s.view /\ Enough(ClearSigned)
                 THEN ScheduleRelay(Cleared(t, submits)) ELSE s,
              {f}, {})

(* clear_cert_relay_timer_ *)
RelayFires(r) ==
    LET s == app[r]
        t == [s EXCEPT !.relay = FALSE]
    IN  /\ s.relay
        /\ IF ClearConfirmed(s) \/ s.applied \/ s.submitted THEN Do(r, t, {}, {})
           ELSE Do(r, [t EXCEPT !.tracker = @ \cup {r}], {}, {"CLEAR_CERT"})

-----------------------------------------------------------------------------
(* Around the certificates *)

Crash == /\ road = "free" /\ road' = "wreck" /\ UNCHANGED <<inbox, app>>
Tow   == /\ road = "wreck" /\ road' = "towed" /\ UNCHANGED <<inbox, app>>

(* ORDER(0) reaches a late vehicle. *)
LearnOrder(r) ==
    /\ ~app[r].view
    /\ Do(r, [app[r] EXCEPT !.view = TRUE, !.applied = app[r].phase = "NONE"], {}, {})

(* handleArrivalCert() and finalizeLocalArrivalCert() of the new round: an *)
(* own certificate is kept until the end.                                  *)
Discover(r, own) ==
    LET s == app[r] IN
    /\ s.phase = "PENDING" /\ s.certs # "OWN"
    /\ s.certs = "OTHERS" => own
    /\ Do(r, [s EXCEPT !.certs = IF own THEN "OWN" ELSE "OTHERS"], {}, {})

(* proposeAll() later than the certificate; before the rollback the flag   *)
(* is as good as applied.                                                  *)
Propose(r) ==
    LET s == app[r] IN
    /\ s.phase = "PENDING" /\ s.incident = "CLEARED" /\ ~s.submitted
    /\ Do(r, [s EXCEPT !.submitted = TRUE], {}, {})

(* processOrders() with ORDER(1), which carries the CLEAR certificate.     *)
RecoveryOrder(r) ==
    LET s == app[r] IN
    /\ s.phase = "PENDING"
    /\ \/ \E p \in Honest : app[p].submitted
       \/ FaultySend("ORDER") /\ Enough(ClearSigned)
    /\ Do(r, [Clear(s) EXCEPT !.phase = "OVER", !.applied = TRUE, !.retries = -1,
                              !.candidate = {}, !.relay = FALSE], {}, {})

Handle(r, f) == \/ HandleCancelEcho(r, f) \/ HandleCancelCert(r, f) \/ HandleClearEcho(r, f)
                \/ \E submits \in BOOLEAN : HandleClearCert(r, f, submits)

Receive(r)       == \E f \in inbox[r] : Handle(r, f)
ReceiveFaulty(r) == \/ \E f \in Frame : FaultyFrame(r, f) /\ Handle(r, f)
                    \/ \E p \in R : HandleUnmatchedEcho(r, p)

Timers(r) == \/ RetryCancelCert(r) \/ RelayFires(r)
             \/ \E submits \in BOOLEAN : CandidateFires(r, submits)

Next == \/ Crash \/ Tow
        \/ \E r \in Honest :
               \/ Receive(r) \/ ReceiveFaulty(r) \/ Timers(r) \/ CrashDwell(r) \/ ClearDwell(r)
               \/ \E decided \in BOOLEAN : CommitCancel(r, decided)
               \/ LearnOrder(r) \/ Propose(r) \/ RecoveryOrder(r)
               \/ \E own \in BOOLEAN : Discover(r, own)

(* A vehicle's armed timers expire, its poll runs, and what honest         *)
(* vehicles send arrives: the promise of progress is for a radio that      *)
(* loses nothing.  Nothing is assumed of the faulty ones.                  *)
Fairness == \A r \in Honest : WF_vars(Receive(r) \/ Timers(r) \/ ClearDwell(r))

Spec == Init /\ [][Next]_vars /\ Fairness
-----------------------------------------------------------------------------
(* Properties *)

TypeOK == /\ road \in {"free", "wreck", "towed"}
          /\ inbox \in [R -> SUBSET Frame]
          /\ app \in [R -> App]

(* Both certificates are Evidence: whatever is relayed, repeated,          *)
(* overtaken or adopted with an ORDER, an incident is BLOCKING or CLEARED  *)
(* only on f+1 signatures of the view, and honest ones are from vehicles   *)
(* that saw the wreck, or the empty box after it.                          *)
Sufficient == {S \in SUBSET R : Cardinality(S \cap Members) >= F + 1}
Blocked == INSTANCE Evidence WITH
    fact <- road = "wreck",
    witnesses <- {p \in Honest : app[p].echoed},
    accepted <- {p \in Honest : app[p].incident # "NONE"}
Emptied == INSTANCE Evidence WITH
    fact <- road = "towed",
    witnesses <- {p \in Honest : p \in app[p].clear_echoes},
    accepted <- {p \in Honest : app[p].incident = "CLEARED"}
ImplementsEvidence == Blocked!Spec /\ Emptied!Spec

(* A vehicle that suppresses CLEAR echoes because it has a candidate of    *)
(* its own (scheduleClearCertCandidate(), handleClearEcho()) still waits   *)
(* for its turn, or knows a certificate: no vehicle is silenced by a       *)
(* candidate that was dropped.                                             *)
HushHasReason ==
    \A r \in Honest :
        app[r].phase = "PENDING" /\ app[r].key => app[r].candidate # {} \/ app[r].clear_seen

(* Enough honest echoes of a crash lead to a certificate, although an own  *)
(* echo never completes it, unless a collector took another echo under the *)
(* name of an honest vehicle (WitnessEchoCollector::add()); and when the   *)
(* rounds of the rollback have found their members before the box is       *)
(* empty, and all of them hold the CANCEL certificate, the CLEAR           *)
(* certificate follows.                                                    *)
Halted(r) == app[r].phase = "PENDING" /\ app[r].certs = "OWN"
Ready == /\ road = "towed"
         /\ \A r \in Honest : /\ Halted(r) /\ app[r].view /\ app[r].incident = "BLOCKING"
                              /\ app[r].clear_echoes = {}
Displaced == \E r \in Honest : app[r].unmatched \cap Honest # {}
EvidenceIsReached ==
    /\ Enough(Signed \ Faulty) ~> Displaced \/ \E r \in Honest : app[r].incident # "NONE"
    /\ Ready ~> \E r \in Honest : app[r].incident = "CLEARED"

-----------------------------------------------------------------------------
(* What the code does not give; the README shows the counterexamples.      *)

(* The premise of the second part above without the rounds: a candidate    *)
(* is dropped for good while clearPropagationRank() does not know oneself. *)
Towed == /\ road = "towed"
         /\ \A r \in Honest : /\ app[r].phase = "PENDING" /\ app[r].view
                              /\ app[r].incident = "BLOCKING" /\ app[r].clear_echoes = {}
ClearNeedsNoRound == Towed ~> \E r \in Honest : app[r].incident = "CLEARED"

(* A CLEAR certificate that is known has cleared the incident: not when it *)
(* overtakes the CANCEL certificate that registers it.                     *)
SeenClearIsEffective ==
    \A r \in Honest : app[r].clear_seen => app[r].incident # "BLOCKING"
==============================================================================
