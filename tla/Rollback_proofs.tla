--------------------------- MODULE Rollback_proofs ---------------------------
(***************************************************************************)
(* What holds of Rollback for every number of vehicles, every f with at    *)
(* most f faulty vehicles, every schedule and every number of epochs.      *)
(***************************************************************************)
EXTENDS Rollback, FiniteSetTheorems, TLAPS

-----------------------------------------------------------------------------
(* Types: every step of the app maps an AppState to an AppState *)

\* Epochs are naturals, so the epoch a rollback moves to is one.
LEMMA EpochIsNat == Epoch \subseteq Nat
BY ConfigAssumption DEF Epoch

\* committed_order_vehicle_ids_ names vehicles only.
LEMMA MembersAreReplicas == \A e : Members(e) \subseteq Replica
BY DEF Members

\* cancelLeaderCandidatesForBatch() picks vehicles only.
LEMMA CandidatesAreReplicas == \A view, active : LeaderCandidates(view, active) \subseteq Replica
BY MembersAreReplicas DEF LeaderCandidates

\* Signing an echo and registering a crash keep the types of the fields.
LEMMA WitnessingType ==
    ASSUME NEW s \in AppState, NEW e \in Epoch, NEW k \in Reason
    PROVE  /\ RegisterBlocked(s, e, k) \in AppState
           /\ SendCancelEcho(s, e, k) \in AppState
<1>1. RegisterBlocked(s, e, k) \in AppState
  BY DEF RegisterBlocked, AppState, IncidentState
<1>2. SendCancelEcho(s, e, k) \in AppState
  <2>1. <<e, k>> \in Witness
    BY DEF Witness
  <2> QED
    BY ZenonT(60), <2>1 DEF SendCancelEcho, AppState, CancelPhase
<1> QED
  BY <1>1, <1>2

\* handleValidCancelJustification() and the drain it begins keep the types.
LEMMA JustificationType ==
    ASSUME NEW s \in AppState, NEW e \in Epoch, NEW k \in Reason, NEW active
    PROVE  HandleValidCancelJustification(s, e, k, active) \in AppState
<1>1. ASSUME NEW t \in AppState
      PROVE  BeginCancelDrain(t, active) \in AppState
  <2>1. LeaderCandidates(t.view, active) \in SUBSET Replica
    BY CandidatesAreReplicas
  <2> QED
    BY ZenonT(60), <2>1 DEF BeginCancelDrain, AppState, CancelPhase
<1>2. [s EXCEPT !.cancelled_epoch = e, !.reason = k,
                !.consensus_pending = TRUE, !.cancel_submitted = FALSE,
                !.rotation = 0, !.leaders = {}, !.cancel_initiated = TRUE] \in AppState
  BY EpochIsNat DEF AppState
<1> QED
  BY <1>1, <1>2 DEF HandleValidCancelJustification

\* The submission of a CANCEL, chosen proposer or not, keeps the types.
LEMMA ProposerType ==
    ASSUME NEW s \in AppState, NEW r \in Honest
    PROVE  TrySubmitCancel(s, r) \in AppState
<1>1. ProposesCancel(s, r) \in BOOLEAN
  BY DEF ProposesCancel, MayPropose
<1>2. ASSUME NEW a \in BOOLEAN, NEW b \in BOOLEAN, NEW c \in BOOLEAN
      PROVE  [s EXCEPT !.lease = a, !.cancel_submitted = b, !.propose_submitted = c]
                \in AppState
  BY DEF AppState
<1>3. (s.lease \/ EnableFailover) \in BOOLEAN
  OBVIOUS
<1>4. (s.propose_submitted \/ ProposesCancel(s, r)) \in BOOLEAN
  OBVIOUS
<1> QED
  BY <1>1, <1>2, <1>3, <1>4 DEF TrySubmitCancel

\* Both ways to learn of a committed CANCEL, decision and gossip, keep the types.
LEMMA CancelType ==
    ASSUME NEW s \in AppState, NEW e \in Nat, NEW k \in Reason \cup {"NONE"}
    PROVE  /\ CancelCommitDecision(s, e, k) \in AppState
           /\ k \in Reason => CancelGossipAdoption(s, e, k) \in AppState
<1>1. ASSUME NEW t \in AppState, NEW j \in Reason
      PROVE  BeginPostCancelDiscovery(t, e, j) \in AppState
  <2>1. e \in Nat /\ e + 1 \in Nat /\ 0 \in Nat
    OBVIOUS
  <2>2. [t EXCEPT !.cancel_pending = TRUE, !.cancelled_epoch = e,
                  !.new_epoch = e + 1, !.reason = j, !.rotation = 0] \in AppState
    BY <2>1 DEF AppState
  <2>3. ASSUME NEW u \in AppState
        PROVE  [u EXCEPT !.candidate = "NONE", !.current_epoch = e + 1,
                         !.propose_submitted = FALSE, !.order_applied = FALSE,
                         !.discovery = "COLLECTING"] \in AppState
    BY <2>1 DEF AppState, DiscoveryState, CandidateKind
  <2> QED
    BY <2>2, <2>3 DEF BeginPostCancelDiscovery
<1>2. [s.cancels EXCEPT ![e] = k] \in [Epoch -> Reason \cup {"NONE"}]
  BY DEF AppState
<1>3. [s EXCEPT !.cancels[e] = k, !.consensus_pending = FALSE,
                !.cancel_submitted = FALSE, !.cancel_state = "COMMITTED",
                !.cancel_initiated = FALSE, !.lease = FALSE] \in AppState
  BY <1>2 DEF AppState, CancelPhase
<1>4. [s EXCEPT !.cancels[e] = k, !.consensus_pending = FALSE,
                !.cancel_submitted = FALSE, !.cancel_state = "COMMITTED"] \in AppState
  BY <1>2 DEF AppState, CancelPhase
<1>5. s.reason \in Reason
  BY DEF AppState
<1>6. CancelCommitDecision(s, e, k) \in AppState
  BY <1>1, <1>3, <1>5 DEF CancelCommitDecision
<1>7. k \in Reason => CancelGossipAdoption(s, e, k) \in AppState
  BY <1>1, <1>4 DEF CancelGossipAdoption
<1> QED
  BY <1>6, <1>7

\* evaluateOrderReadiness(), which freezes the candidate, keeps the types.
LEMMA ReadinessType ==
    ASSUME NEW s \in AppState, NEW primary \in BOOLEAN
    PROVE  /\ SubmitsOrder(s, primary) \in BOOLEAN
           /\ EvaluateOrderReadiness(s, primary) \in AppState
<1>1. SubmitsOrder(s, primary) \in BOOLEAN
  BY DEF SubmitsOrder
<1>2. Freeze(s) \in AppState
  BY DEF Freeze, AppState, CandidateKind
<1>3. \A b \in BOOLEAN : [Freeze(s) EXCEPT !.propose_submitted = @ \/ b] \in AppState
  BY <1>2 DEF AppState
<1> QED
  BY <1>1, <1>3 DEF EvaluateOrderReadiness

\* onIncidentCleared() keeps the types.
LEMMA ClearType ==
    ASSUME NEW s \in AppState, NEW e, NEW primary \in BOOLEAN
    PROVE  /\ ClearIncident(s, e) \in AppState
           /\ OnIncidentCleared(s, e, primary) \in AppState
<1>1. ClearIncident(s, e) \in AppState
  BY DEF ClearIncident, AppState, IncidentState
<1> QED
  BY <1>1, ReadinessType DEF OnIncidentCleared

\* The reset with which ORDER(e+1) ends the rollback keeps the types.
LEMMA EndRecoveryType ==
    ASSUME NEW s \in AppState, NEW e
    PROVE  EndRecovery(s, e) \in AppState
<1>1. [s EXCEPT !.cancel_pending = FALSE, !.cancel_state = "INACTIVE",
                !.leaders = {}, !.cancel_initiated = FALSE, !.candidate = "NONE"]
         \in AppState
  BY DEF AppState, CancelPhase, CandidateKind
<1> QED
  BY <1>1 DEF EndRecovery

\* The loop body of processOrders() for an ORDER keeps the types.
LEMMA ApplyType ==
    ASSUME NEW s \in AppState, NEW r \in Honest, NEW d \in Entry
    PROVE  ApplyOrder(s, r, d) \in AppState
<1>1. EndRecovery(s, d.epoch) \in AppState
  BY EndRecoveryType
<1>2. ASSUME NEW t \in AppState
      PROVE  CommitOrderLocally(t, r, d) \in AppState
  <2>1. d.epoch \in Nat /\ d.epoch \in Int
    BY DEF Entry
  <2>2. [t EXCEPT !.last_committed = d.epoch, !.discovery = "INACTIVE"] \in AppState
    BY <2>1 DEF AppState, DiscoveryState
  <2>3. ASSUME NEW u \in AppState, NEW g \in SUBSET {d}, NEW a \in BOOLEAN
        PROVE  /\ [u EXCEPT !.order_applied = TRUE, !.order_gossip = @ \cup g]
                      \in AppState
               /\ [u EXCEPT !.order_applied = @ \/ a] \in AppState
    BY ZenonT(60) DEF AppState
  <2>4. (d.epoch = t.current_epoch) \in BOOLEAN
    OBVIOUS
  <2> QED
    BY <2>2, <2>3, <2>4 DEF CommitOrderLocally
<1> QED
  BY <1>1, <1>2 DEF ApplyOrder

\* The single-field assignments of the handlers keep the types.
LEMMA FlagType ==
    ASSUME NEW s \in AppState
    PROVE  /\ [s EXCEPT !.cancel_initiated = TRUE] \in AppState
           /\ [s EXCEPT !.lease = FALSE, !.rotation = @ + 1, !.cancel_submitted = FALSE,
                        !.propose_submitted = FALSE] \in AppState
<1>1. [s EXCEPT !.cancel_initiated = TRUE] \in AppState
  BY DEF AppState
<1>2. ASSUME NEW n \in Nat
      PROVE  [s EXCEPT !.lease = FALSE, !.rotation = n, !.cancel_submitted = FALSE,
                       !.propose_submitted = FALSE] \in AppState
  BY DEF AppState
<1>3. s.rotation + 1 \in Nat
  BY DEF AppState
<1> QED
  BY <1>1, <1>2, <1>3

\* Replacing the fields of one app by typed fields keeps app typed.
LEMMA UpdateType ==
    ASSUME TypeOK, NEW r \in Honest, NEW s \in AppState, Update(r, s)
    PROVE  app' \in [Honest -> AppState]
BY DEF TypeOK, Update

\* The decisions the operators build are decisions of the ledger.
LEMMA EntryTypes ==
    /\ \A e \in Nat, c \in BOOLEAN : Order(e, c) \in Entry
    /\ \A e \in Nat, k \in Reason : Cancel(e, k) \in Entry
BY DEF Order, Cancel, Entry

\* A submission to PBFT keeps the sequence numbers and the proposals typed.
LEMMA SubmitType ==
    ASSUME TypeOK, NEW r \in Honest, NEW d \in Entry, NEW ok \in BOOLEAN,
           Submit(r, d, ok)
    PROVE  next_seq' \in [Honest -> Nat] /\ proposed' \subseteq Proposal
<1>1. SubmitSeq(r) \in Nat
  BY DEF SubmitSeq, Larger, TypeOK
<1>2. [entry |-> d, leader |-> r, seq |-> SubmitSeq(r)] \in Proposal
  BY <1>1 DEF Proposal, Honest
<1> QED
  BY <1>1, <1>2 DEF Submit, TypeOK

\* The decisions an instance claims are entries.
LEMMA DecisionsAreEntries == Decisions \subseteq Entry
<1>1. ASSUME NEW d \in Decisions PROVE d \in Entry
  <2>1. CASE \E e \in Epoch, clear \in BOOLEAN : d = Order(e, clear)
    BY <2>1, EpochIsNat, EntryTypes
  <2>2. CASE \E e \in Epoch, k \in Reasons : d = Cancel(e, k)
    BY <2>2, EpochIsNat, EntryTypes, ConfigAssumption DEF Reason
  <2> QED
    BY <1>1, <2>1, <2>2 DEF Decisions
<1> QED
  BY <1>1

\* A step that goes unchecked is counted.
LEMMA UncheckedCounts ==
    ASSUME TypeOK, Unchecked
    PROVE  unchecked' \in Nat /\ unchecked' # 0
BY DEF Unchecked, TypeOK

\* A PBFT commit keeps ledger, proposals and votes typed.
LEMMA CommitType ==
    ASSUME TypeOK, NEW p \in Proposal, Commit(p), unchecked' \in Nat
    PROVE  TypeOK'
<1>1. p.entry \in Entry
  BY DEF Proposal
<1>2. ledger' \in Seq(Entry)
  BY <1>1 DEF Commit, TypeOK
<1>3. votes' \in [Honest -> SUBSET Proposal]
  BY DEF Commit, TypeOK
<1>4. proposed' \subseteq Proposal
  BY DEF Commit, TypeOK
<1> QED
  BY <1>2, <1>3, <1>4 DEF Commit, TypeOK, bridgeVars

\* Recording an accepted certificate keeps the types.
LEMMA SeenType ==
    ASSUME NEW s \in AppState, NEW e \in Epoch, NEW k \in Reason
    PROVE  [RegisterBlocked(s, e, k) EXCEPT !.cert_seen = @ \cup {<<e, k>>}] \in AppState
<1>1. RegisterBlocked(s, e, k) \in AppState
  BY WitnessingType
<1>2. <<e, k>> \in Witness
  BY DEF Witness
<1> QED
  BY <1>1, <1>2 DEF AppState

\* Accepting a CANCEL certificate (echo or certificate handler) keeps the types.
LEMMA AcceptType ==
    ASSUME TypeOK, NEW r \in Honest, NEW e \in Epoch, NEW k \in Reason, NEW active,
           AcceptCancelCert(r, e, k, active)
    PROVE  app' \in [Honest -> AppState]
<1> DEFINE seen == [RegisterBlocked(app[r], e, k) EXCEPT !.cert_seen = @ \cup {<<e, k>>}]
<1>2. seen \in AppState
  BY SeenType DEF TypeOK
<1>3. HandleValidCancelJustification(seen, e, k, active) \in AppState
  BY <1>2, JustificationType
<1> QED
  BY <1>2, <1>3, UpdateType DEF AcceptCancelCert

\* trySubmitCancelProposal() from a typed state keeps the types.
LEMMA SubmitCancelType ==
    ASSUME TypeOK, NEW r \in Honest, NEW s \in AppState, SubmitCancelFrom(r, s)
    PROVE  TypeOK'
<1>1. app' \in [Honest -> AppState]
  BY ProposerType, UpdateType DEF SubmitCancelFrom
<1>2. Cancel(s.cancelled_epoch, s.reason) \in Entry
  BY EntryTypes DEF AppState
<1>3. (ProposesCancel(s, r) /\ CancelViewAccepted(s, r)) \in BOOLEAN
  OBVIOUS
<1>4. next_seq' \in [Honest -> Nat] /\ proposed' \subseteq Proposal
  BY <1>2, <1>3, SubmitType DEF SubmitCancelFrom
<1> QED
  BY <1>1, <1>4 DEF SubmitCancelFrom, TypeOK

\* proposeAll() builds an ORDER of a natural epoch.
LEMMA OrderOfType ==
    ASSUME NEW s \in AppState
    PROVE  OrderOf(s) \in Entry
<1>1. s.current_epoch \in Nat
  BY DEF AppState
<1> QED
  BY <1>1, EntryTypes DEF OrderOf

\* A readiness evaluation with its submission keeps the types.
LEMMA EvaluateType ==
    ASSUME TypeOK, NEW r \in Honest, NEW s \in AppState, NEW primary \in BOOLEAN,
           EvaluateFrom(r, s, primary)
    PROVE  TypeOK'
<1>1. app' \in [Honest -> AppState]
  BY ReadinessType, UpdateType DEF EvaluateFrom
<1>2. next_seq' \in [Honest -> Nat] /\ proposed' \subseteq Proposal
  BY ReadinessType, OrderOfType, SubmitType DEF EvaluateFrom
<1> QED
  BY <1>1, <1>2 DEF EvaluateFrom, TypeOK

\* processOrders() keeps the types when it takes an ORDER.
LEMMA ProcessOrderType ==
    ASSUME TypeOK, NEW r \in Honest, NEW adopt \in BOOLEAN, NEW primary \in MayLead(r),
           ProcessOrder(r, adopt, primary)
    PROVE  TypeOK'
<1> DEFINE d == Head(pending_orders[r])
           s == [app[r] EXCEPT !.view = d.epoch]
           adopted == IF adopt THEN OnIncidentCleared(s, d.epoch - 1, primary) ELSE s
           cleared == ClearIncident(s, d.epoch - 1)
           submits == /\ adopt /\ ClearTriggers(s, d.epoch - 1)
                      /\ SubmitsOrder(cleared, primary)
<1>1. primary \in BOOLEAN
  BY DEF MayLead
<1>2. /\ d \in Entry
      /\ Tail(pending_orders[r]) \in Seq(Entry)
  BY DEF ProcessOrder, Dequeue, TypeOK
<1>3. s \in AppState
  <2>1. d.epoch \in Int
    BY <1>2 DEF Entry
  <2>2. app[r] \in AppState
    BY DEF TypeOK
  <2> HIDE DEF d
  <2> QED
    BY <2>1, <2>2 DEF AppState
<1>4. adopted \in AppState /\ cleared \in AppState
  BY <1>1, <1>3, ClearType
<1>5. ApplyOrder(adopted, r, d) \in AppState
  BY <1>2, <1>4, ApplyType
<1>6. pending_orders' \in [Honest -> Seq(Entry)]
  BY <1>2 DEF ProcessOrder, Dequeue, TypeOK
<1>7. OrderOf(cleared) \in Entry /\ submits \in BOOLEAN
  BY <1>4, OrderOfType
<1>8. CASE SkipsOrder(app[r], d)
  BY <1>6, <1>8 DEF ProcessOrder, TypeOK
<1>9. CASE ~SkipsOrder(app[r], d)
  <2>1. app' \in [Honest -> AppState]
    <3>1. Update(r, ApplyOrder(adopted, r, d))
      BY <1>9 DEF ProcessOrder
    <3> QED
      BY <1>5, <3>1, UpdateType
  <2>2. next_seq' \in [Honest -> Nat] /\ proposed' \subseteq Proposal
    <3>1. Submit(r, OrderOf(cleared), submits)
      BY <1>9 DEF ProcessOrder
    <3> QED
      BY <1>7, <3>1, SubmitType
  <2> QED
    BY <1>6, <2>1, <2>2 DEF ProcessOrder, TypeOK
<1> QED
  BY <1>8, <1>9

\* The state ORDER(0) leaves is typed.
LEMMA InitType == Init => TypeOK
<1> SUFFICES ASSUME Init PROVE TypeOK
  OBVIOUS
<1>1. ASSUME NEW r \in Honest
      PROVE  InitialApp(r) \in AppState
  <2>1. Order(0, FALSE) \in Entry
    BY EntryTypes
  <2>2. [e \in Epoch |-> "NONE"] \in [Epoch -> Reason \cup {"NONE"}]
    OBVIOUS
  <2>3. [e \in Epoch |-> "NONE"] \in [Epoch -> IncidentState]
    BY DEF IncidentState
  <2> DEFINE applied == r \notin Stragglers
             last    == IF applied THEN 0 ELSE None
             found   == IF applied THEN "INACTIVE" ELSE "COLLECTING"
             sent    == IF applied /\ GossipEnabled THEN {Order(0, FALSE)} ELSE {}
  <2>4. /\ last \in Int
        /\ found \in DiscoveryState
        /\ sent \in SUBSET Entry
        /\ applied \in BOOLEAN
    <3>1. last \in Int
      BY DEF None
    <3>2. found \in DiscoveryState
      BY DEF DiscoveryState
    <3>3. sent \in SUBSET Entry
      BY <2>1
    <3>4. applied \in BOOLEAN
      OBVIOUS
    <3> QED
      BY <3>1, <3>2, <3>3, <3>4
  <2> HIDE DEF applied, last, found, sent
  <2>5. "INACTIVE" \in CancelPhase /\ "CRASH" \in Reason /\ "NONE" \in CandidateKind
    BY DEF CancelPhase, Reason, CandidateKind
  <2>6. [ cancel_state |-> "INACTIVE", consensus_pending |-> FALSE,
          cancel_pending |-> FALSE, cancel_initiated |-> FALSE,
          cancel_submitted |-> FALSE, propose_submitted |-> FALSE,
          cancelled_epoch |-> 0, new_epoch |-> 0, reason |-> "CRASH",
          leaders |-> {}, rotation |-> 0, lease |-> FALSE, current_epoch |-> 0,
          order_applied |-> applied, last_committed |-> last, view |-> last,
          cancels |-> [e \in Epoch |-> "NONE"], discovery |-> found,
          candidate |-> "NONE", incident |-> [e \in Epoch |-> "NONE"],
          echo_sent |-> {}, cert_seen |-> {}, clear_echo |-> {}, clear_seen |-> {},
          order_gossip |-> sent ] \in AppState
    BY <2>2, <2>3, <2>4, <2>5 DEF AppState
  <2> QED
    BY <2>6 DEF InitialApp, applied, last, found, sent
<1>2. app \in [Honest -> AppState]
  BY <1>1 DEF Init
<1>3. ledger \in Seq(Entry)
  <2>1. Order(0, FALSE) \in Entry
    BY EntryTypes
  <2>2. ASSUME NEW d \in Entry PROVE <<d>> \in Seq(Entry)
    OBVIOUS
  <2> QED
    BY <2>1, <2>2 DEF Init
<1>4. pending_orders \in [Honest -> Seq(Entry)]
  BY DEF Init
<1> QED
  BY <1>2, <1>3, <1>4 DEF Init, TypeOK

\* Every handler, worker-thread step and PBFT step keeps the types.
LEMMA NextType == TypeOK /\ [Next]_vars => TypeOK'
<1> SUFFICES ASSUME TypeOK, [Next]_vars PROVE TypeOK'
  OBVIOUS
<1>0. \A r \in Honest : app[r] \in AppState
  BY DEF TypeOK
<1>1. ASSUME NEW r \in Honest, PerceiveCrash(r) PROVE TypeOK'
  <2>1. app[r].last_committed \in Epoch /\ "CRASH" \in Reason
    BY <1>1, ConfigAssumption DEF PerceiveCrash, Epoch, Reason
  <2>2. SendCancelEcho(app[r], app[r].last_committed, "CRASH") \in AppState
    BY <1>0, <2>1, WitnessingType
  <2>3. app' \in [Honest -> AppState]
    BY <1>1, <2>2, UpdateType DEF PerceiveCrash
  <2> QED
    BY <1>1, <2>3 DEF TypeOK, PerceiveCrash, bridgeVars, pbftVars
<1>2. ASSUME NEW r \in Honest, PerceiveAmbulance(r) PROVE TypeOK'
  <2>1. app[r].last_committed \in Epoch /\ "EMERGENCY" \in Reason
    BY <1>2, ConfigAssumption DEF PerceiveAmbulance, Epoch, Reason
  <2>2. [app[r] EXCEPT !.cancel_initiated = TRUE] \in AppState
    BY <1>0, FlagType
  <2>3. SendCancelEcho([app[r] EXCEPT !.cancel_initiated = TRUE],
                       app[r].last_committed, "EMERGENCY") \in AppState
    BY <2>1, <2>2, WitnessingType
  <2>4. app' \in [Honest -> AppState]
    BY <1>2, <2>3, UpdateType DEF PerceiveAmbulance
  <2> QED
    BY <1>2, <2>4 DEF TypeOK, PerceiveAmbulance, bridgeVars, pbftVars
<1>3. ASSUME NEW r \in Honest, NEW e \in Epoch, NEW k \in Reason, NEW active,
             HandleCancelEcho(r, e, k, active) \/ HandleCancelCert(r, e, k, active)
      PROVE  TypeOK'
  <2>1. app' \in [Honest -> AppState]
    BY <1>3, AcceptType DEF HandleCancelEcho, HandleCancelCert
  <2> QED
    BY <1>3, <2>1 DEF TypeOK, HandleCancelEcho, HandleCancelCert, bridgeVars, pbftVars
<1>4. ASSUME NEW r \in Honest, FinishCancelDrain(r) PROVE TypeOK'
  <2>1. [app[r] EXCEPT !.cancel_state = "CONSENSUS"] \in AppState
    BY <1>0 DEF AppState, CancelPhase
  <2> QED
    BY <1>4, <2>1, SubmitCancelType DEF FinishCancelDrain
<1>5. ASSUME NEW r \in Honest, CancelLeaseExpires(r) PROVE TypeOK'
  <2>1. [app[r] EXCEPT !.lease = FALSE, !.rotation = @ + 1, !.cancel_submitted = FALSE,
                       !.propose_submitted = FALSE] \in AppState
    BY <1>0, FlagType
  <2> QED
    BY <1>5, <2>1, SubmitCancelType DEF CancelLeaseExpires
<1>6. ASSUME NEW p \in proposed, CommitCancel(p) \/ CommitOrder(p) PROVE TypeOK'
  BY <1>6, CommitType DEF CommitCancel, CommitOrder, TypeOK
<1>7. ASSUME NEW v \in Honest, NEW p \in proposed, VoteOrder(v, p) PROVE TypeOK'
  <2>1. votes' \in [Honest -> SUBSET Proposal]
    BY <1>7 DEF TypeOK, VoteOrder
  <2> QED
    BY <1>7, <2>1 DEF TypeOK, VoteOrder, bridgeVars
<1>8. ASSUME NEW r \in Honest, Execute(r) PROVE TypeOK'
  <2>1. ledger[executed[r] + 1] \in Entry
    BY <1>8 DEF TypeOK, Execute
  <2>2. pending_orders' \in [Honest -> Seq(Entry)]
    BY <1>8, <2>1 DEF TypeOK, Execute
  <2>3. ledger[executed[r] + 1].epoch + 1 \in Nat
    BY <2>1 DEF Entry
  <2>4. crash_epochs' \in [Honest -> SUBSET Nat]
    BY <1>8, <2>3 DEF TypeOK, Execute
  <2> QED
    BY <1>8, <2>2, <2>4 DEF TypeOK, Execute, pbftVars
<1>9. ASSUME NEW r \in Honest, ProcessCancel(r) PROVE TypeOK'
  <2>1. Head(pending_orders[r]) \in Entry /\ Tail(pending_orders[r]) \in Seq(Entry)
    BY <1>9 DEF TypeOK, ProcessCancel, Dequeue
  <2>2. /\ Head(pending_orders[r]).epoch \in Nat
        /\ Head(pending_orders[r]).reason \in Reason \cup {"NONE"}
    BY <2>1 DEF Entry
  <2>3. app' \in [Honest -> AppState]
    BY <1>9, <1>0, <2>2, CancelType, UpdateType DEF TypeOK, ProcessCancel
  <2>4. pending_orders' \in [Honest -> Seq(Entry)]
    BY <1>9, <2>1 DEF TypeOK, ProcessCancel, Dequeue
  <2> QED
    BY <1>9, <2>3, <2>4 DEF TypeOK, ProcessCancel, pbftVars
<1>10. ASSUME NEW r \in Honest, NEW adopt \in BOOLEAN, NEW primary \in MayLead(r),
              ProcessOrder(r, adopt, primary)
       PROVE  TypeOK'
  BY <1>10, ProcessOrderType
<1>11. ASSUME NEW r \in Honest, NEW e \in Epoch, NEW k \in Reason,
              HandleCancelCommitGossip(r, e, k)
       PROVE  TypeOK'
  <2>1. GossipTarget(r, e) \in Nat /\ GossipTarget(r, e) >= 1
    BY EpochIsNat DEF TypeOK, GossipTarget, Larger
  <2>2. GossipTarget(r, e) - 1 \in Nat
    BY <2>1
  <2>3. executed' \in [Honest -> Nat] /\ next_seq' \in [Honest -> Nat]
    BY <1>11, <2>1, <2>2 DEF TypeOK, HandleCancelCommitGossip, Larger
  <2>4. app' \in [Honest -> AppState]
    BY <1>11, <1>0, EpochIsNat, CancelType, UpdateType DEF TypeOK, HandleCancelCommitGossip
  <2>5. unchecked' \in Nat
    BY <1>11, UncheckedCounts DEF TypeOK, HandleCancelCommitGossip, Attested
  <2> QED
    BY <1>11, <2>3, <2>4, <2>5 DEF TypeOK, HandleCancelCommitGossip, pbftVars
<1>12. ASSUME NEW r \in Honest, NEW e \in Epoch, NEW clear \in BOOLEAN,
              HandleDecisionGossip(r, Order(e, clear))
       PROVE  TypeOK'
  <2> DEFINE d == Order(e, clear)
  <2>1. d \in Entry /\ d.epoch \in Int
    BY EpochIsNat, EntryTypes DEF Entry
  <2> HIDE DEF d
  <2>2. [app[r] EXCEPT !.last_committed = d.epoch] \in AppState
    BY <1>0, <2>1 DEF AppState
  <2>3. app' \in [Honest -> AppState]
    BY <1>12, <2>2, UpdateType DEF TypeOK, HandleDecisionGossip, d
  <2>4. pending_orders' \in [Honest -> Seq(Entry)]
    BY <1>12, <2>1 DEF TypeOK, HandleDecisionGossip, d
  <2>5. unchecked' \in Nat
    BY <1>12, UncheckedCounts DEF TypeOK, HandleDecisionGossip, Attested
  <2> QED
    BY <1>12, <2>3, <2>4, <2>5 DEF TypeOK, HandleDecisionGossip, pbftVars
<1>13. ASSUME NEW r \in Honest, NEW primary \in MayLead(r), DiscoveryCompletes(r, primary)
       PROVE  TypeOK'
  <2>1. [app[r] EXCEPT !.discovery = "COMPLETE"] \in AppState
    BY <1>0 DEF AppState, DiscoveryState
  <2> QED
    BY <1>13, <2>1, EvaluateType DEF DiscoveryCompletes, MayLead
<1>14. ASSUME NEW r \in Honest, PrimaryChange(r) PROVE TypeOK'
  BY <1>0, <1>14, EvaluateType DEF PrimaryChange
<1>15. ASSUME NEW r \in Honest, NEW e \in Epoch, SendClearEcho(r, e) PROVE TypeOK'
  <2>1. [app[r] EXCEPT !.clear_echo = @ \cup {e}] \in AppState
    BY <1>0 DEF AppState
  <2>2. app' \in [Honest -> AppState]
    BY <1>15, <2>1, UpdateType DEF TypeOK, SendClearEcho
  <2> QED
    BY <1>15, <2>2 DEF TypeOK, SendClearEcho, bridgeVars, pbftVars
<1>16. ASSUME NEW r \in Honest, NEW e \in Epoch, NEW primary \in MayLead(r),
              HandleClearCert(r, e, primary)
       PROVE  TypeOK'
  <2> DEFINE s == [app[r] EXCEPT !.clear_seen = @ \cup {e}]
             cleared == ClearIncident(s, e)
             submits == ClearTriggers(s, e) /\ SubmitsOrder(cleared, primary)
  <2>1. s \in AppState /\ primary \in BOOLEAN
    BY <1>0 DEF AppState, MayLead
  <2>2. cleared \in AppState /\ OnIncidentCleared(s, e, primary) \in AppState
    BY <2>1, ClearType
  <2>3. app' \in [Honest -> AppState]
    BY <1>16, <2>2, UpdateType DEF TypeOK, HandleClearCert
  <2>4. OrderOf(cleared) \in Entry /\ submits \in BOOLEAN
    BY <2>2, OrderOfType
  <2>5. next_seq' \in [Honest -> Nat] /\ proposed' \subseteq Proposal
    BY <1>16, <2>4, SubmitType DEF TypeOK, HandleClearCert
  <2> QED
    BY <1>16, <2>3, <2>5 DEF TypeOK, HandleClearCert
<1>17. CASE Tow
  BY <1>17 DEF TypeOK, Tow, bridgeVars, pbftVars
<1>18. CASE UNCHANGED vars
  BY <1>18 DEF TypeOK, vars, bridgeVars, pbftVars
<1>19. ASSUME NEW leader \in Faulty, NEW d \in Decisions,
              CommitUnchecked([entry |-> d, leader |-> leader, seq |-> Len(ledger) + 1])
       PROVE  TypeOK'
  <2> DEFINE p == [entry |-> d, leader |-> leader, seq |-> Len(ledger) + 1]
  <2>1. p \in Proposal
    BY DecisionsAreEntries, ReplicaAssumption DEF Proposal, TypeOK
  <2> QED
    BY <1>19, <2>1, CommitType, UncheckedCounts DEF CommitUnchecked
<1>20. Reasons \subseteq Reason
  BY ConfigAssumption DEF Reason
<1> QED
  BY <1>1, <1>2, <1>3, <1>4, <1>5, <1>6, <1>7, <1>8, <1>9, <1>10, <1>11, <1>12, <1>13,
     <1>14, <1>15, <1>16, <1>17, <1>18, <1>19, <1>20 DEF Next, Protocol, AppStep

\* Every reachable state is well typed: the model of the app, of the bridge and of
\* PBFT never leaves the domains of the program's fields.
THEOREM TypeCorrect == Spec => []TypeOK
BY InitType, NextType, PTL DEF Spec

-----------------------------------------------------------------------------
(* f+1 signers or voters include an honest one *)

\* More vehicles than f include one that runs the code as written.
LEMMA HonestAmong ==
    ASSUME NEW S \in SUBSET Replica, Cardinality(S) >= F + 1
    PROVE  \E p \in Honest : p \in S
<1>1. IsFiniteSet(Faulty) /\ Cardinality(Faulty) \in Nat
  BY ReplicaAssumption, FS_Subset, FS_CardinalityType
<1>2. IsFiniteSet(S) /\ Cardinality(S) \in Nat
  BY ReplicaAssumption, FS_Subset, FS_CardinalityType
<1>3. SUFFICES ASSUME S \subseteq Faulty PROVE FALSE
  BY DEF Honest
<1>4. Cardinality(S) <= Cardinality(Faulty)
  BY <1>1, <1>3, FS_Subset
<1> QED
  BY <1>1, <1>2, <1>4, ReplicaAssumption

\* A certificate that validates has an honest signer, whatever the view.
LEMMA HonestSigner ==
    ASSUME NEW S \in SUBSET Replica, NEW view, ValidCert(S, view)
    PROVE  \E p \in Honest : p \in S
<1>1. S \cap Members(view) \in SUBSET Replica
  OBVIOUS
<1> QED
  BY <1>1, HonestAmong DEF ValidCert

-----------------------------------------------------------------------------
(* Behaviours in which no name and no leader went unchecked *)

\* The incidents of an instance are incidents.
LEMMA ReasonsAreReasons == Reasons \subseteq Reason
BY ConfigAssumption DEF Reason

\* A gossip threshold that counts is reached by vehicles under their own names.
LEMMA CheckedVoters ==
    ASSUME TypeOK, Checked', NEW voters, Attested(voters)
    PROVE  Reached(voters)
BY UncheckedCounts DEF Attested, Checked

\* No faulty vehicle leads.
LEMMA NoneUnchecked ==
    ASSUME TypeOK, Checked'
    PROVE  \A p : ~CommitUnchecked(p)
BY UncheckedCounts DEF CommitUnchecked, Checked

\* An ORDER adopted by gossip was sent by an honest vehicle.
LEMMA GossipIsHonest ==
    ASSUME TypeOK, Checked', NEW r \in Honest, NEW d, HandleDecisionGossip(r, d)
    PROVE  \E p \in Honest : d \in app[p].order_gossip
<1> DEFINE voters == OrderVoters(d) \ {r}
<1>1. voters \in SUBSET Replica
  BY ReplicaAssumption DEF OrderVoters, Honest
<1>2. Reached(voters)
  BY CheckedVoters DEF HandleDecisionGossip
<1>3. PICK p \in Honest : p \in voters
  BY <1>1, <1>2, HonestAmong DEF Reached
<1> QED
  BY <1>3 DEF OrderVoters, Honest

\* What went unchecked stays counted.
LEMMA CheckedBefore == TypeOK /\ [Next]_vars /\ Checked' => Checked
<1> SUFFICES ASSUME TypeOK, [Next]_vars, Checked' PROVE UNCHANGED unchecked
  BY DEF Checked
<1>1. ASSUME NEW r \in Honest, AppStep(r) PROVE UNCHANGED unchecked
  <2>1. ASSUME NEW e, NEW k, HandleCancelCommitGossip(r, e, k) PROVE UNCHANGED unchecked
    BY <2>1, UncheckedCounts DEF HandleCancelCommitGossip, Attested, Checked
  <2>2. ASSUME NEW d, HandleDecisionGossip(r, d) PROVE UNCHANGED unchecked
    BY <2>2, UncheckedCounts DEF HandleDecisionGossip, Attested, Checked
  <2>3. ASSUME NEW e, NEW k, NEW active,
               HandleCancelEcho(r, e, k, active) \/ HandleCancelCert(r, e, k, active)
        PROVE  UNCHANGED unchecked
    BY <2>3 DEF HandleCancelEcho, HandleCancelCert
  <2>4. ASSUME FinishCancelDrain(r) \/ CancelLeaseExpires(r) PROVE UNCHANGED unchecked
    BY <2>4 DEF FinishCancelDrain, CancelLeaseExpires, SubmitCancelFrom
  <2>5. ASSUME NEW primary, NEW e,
               \/ DiscoveryCompletes(r, primary)
               \/ PrimaryChange(r)
               \/ HandleClearCert(r, e, primary)
        PROVE  UNCHANGED unchecked
    BY <2>5 DEF DiscoveryCompletes, PrimaryChange, EvaluateFrom, HandleClearCert
  <2>6. ASSUME NEW adopt, NEW primary, NEW e,
               \/ PerceiveCrash(r) \/ PerceiveAmbulance(r) \/ ProcessCancel(r)
               \/ ProcessOrder(r, adopt, primary) \/ SendClearEcho(r, e)
        PROVE  UNCHANGED unchecked
    BY <2>6 DEF PerceiveCrash, PerceiveAmbulance, ProcessCancel, ProcessOrder, SendClearEcho
  <2> QED
    BY <1>1, <2>1, <2>2, <2>3, <2>4, <2>5, <2>6 DEF AppStep
<1>2. ASSUME NEW p, CommitCancel(p) \/ CommitOrder(p) PROVE UNCHANGED unchecked
  BY <1>2 DEF CommitCancel, CommitOrder
<1>3. ASSUME NEW v, NEW p, VoteOrder(v, p) \/ Execute(v) \/ Tow \/ UNCHANGED vars
      PROVE  UNCHANGED unchecked
  BY <1>3 DEF VoteOrder, Execute, Tow, vars
<1> QED
  BY <1>1, <1>2, <1>3, NoneUnchecked DEF Next, Protocol

-----------------------------------------------------------------------------
(* Adoption: tombstones stand for ordered CANCELs *)

\* What the steps of an app do to its tombstones and to the ORDERs it gossips.
SameDecisions(s, t) == t.cancels = s.cancels /\ t.order_gossip = s.order_gossip

\* Echoes and certificates touch no tombstone and gossip no ORDER.
LEMMA CertKeepsDecisions ==
    ASSUME NEW s \in AppState, NEW e \in Epoch, NEW k \in Reason, NEW active
    PROVE  /\ SameDecisions(s, SendCancelEcho(s, e, k))
           /\ SameDecisions(s, [RegisterBlocked(s, e, k) EXCEPT !.cert_seen = @ \cup {<<e, k>>}])
           /\ SameDecisions(s, HandleValidCancelJustification(s, e, k, active))
<1>1. SameDecisions(s, SendCancelEcho(s, e, k))
  BY DEF SendCancelEcho, SameDecisions, AppState
<1>2. SameDecisions(s, [RegisterBlocked(s, e, k) EXCEPT !.cert_seen = @ \cup {<<e, k>>}])
  BY DEF RegisterBlocked, SameDecisions, AppState
<1>3. SameDecisions(s, HandleValidCancelJustification(s, e, k, active))
  BY DEF HandleValidCancelJustification, BeginCancelDrain, SameDecisions, AppState
<1> QED
  BY <1>1, <1>2, <1>3

\* Readiness and CLEAR handling touch no tombstone and gossip no ORDER.
LEMMA ReadinessKeepsDecisions ==
    ASSUME NEW s \in AppState, NEW r, NEW e, NEW primary
    PROVE  /\ SameDecisions(s, TrySubmitCancel(s, r))
           /\ SameDecisions(s, EvaluateOrderReadiness(s, primary))
           /\ SameDecisions(s, OnIncidentCleared(s, e, primary))
<1>1. SameDecisions(s, TrySubmitCancel(s, r))
  BY DEF TrySubmitCancel, SameDecisions, AppState
<1>2. ASSUME NEW t \in AppState
      PROVE  SameDecisions(t, EvaluateOrderReadiness(t, primary))
  BY DEF EvaluateOrderReadiness, Freeze, SameDecisions, AppState
<1>3. ClearIncident(s, e) \in AppState /\ SameDecisions(s, ClearIncident(s, e))
  BY DEF ClearIncident, SameDecisions, AppState, IncidentState
<1>4. SameDecisions(s, OnIncidentCleared(s, e, primary))
  BY <1>2, <1>3 DEF OnIncidentCleared, SameDecisions
<1> QED
  BY <1>1, <1>2, <1>4

\* Learning of CANCEL(e) tombstones e with its reason and nothing else.
LEMMA CancelTombstones ==
    ASSUME NEW s \in AppState, NEW e \in Nat, NEW k \in Reason \cup {"NONE"}
    PROVE  /\ CancelCommitDecision(s, e, k).cancels = [s.cancels EXCEPT ![e] = k]
           /\ CancelCommitDecision(s, e, k).order_gossip = s.order_gossip
           /\ CancelGossipAdoption(s, e, k).cancels = [s.cancels EXCEPT ![e] = k]
           /\ CancelGossipAdoption(s, e, k).order_gossip = s.order_gossip
<1>1. /\ CancelCommitDecision(s, e, k).cancels = [s.cancels EXCEPT ![e] = k]
      /\ CancelCommitDecision(s, e, k).order_gossip = s.order_gossip
  BY DEF CancelCommitDecision, BeginPostCancelDiscovery, AppState
<1>2. /\ CancelGossipAdoption(s, e, k).cancels = [s.cancels EXCEPT ![e] = k]
      /\ CancelGossipAdoption(s, e, k).order_gossip = s.order_gossip
  BY DEF CancelGossipAdoption, BeginPostCancelDiscovery, AppState
<1> QED
  BY <1>1, <1>2

\* Applying an ORDER gossips that ORDER at most, and tombstones nothing.
LEMMA ApplyGossipsOrder ==
    ASSUME NEW s \in AppState, NEW r, NEW d
    PROVE  /\ ApplyOrder(s, r, d).cancels = s.cancels
           /\ ApplyOrder(s, r, d).order_gossip \subseteq s.order_gossip \cup {d}
<1>1. /\ EndRecovery(s, d.epoch).cancels = s.cancels
      /\ EndRecovery(s, d.epoch).order_gossip = s.order_gossip
  BY DEF EndRecovery, AppState
<1>2. ASSUME NEW t \in AppState
      PROVE  /\ CommitOrderLocally(t, r, d).cancels = t.cancels
             /\ CommitOrderLocally(t, r, d).order_gossip \subseteq t.order_gossip \cup {d}
  BY DEF CommitOrderLocally, AppState
<1> QED
  BY <1>1, <1>2, EndRecoveryType DEF ApplyOrder

\* A CANCEL entry carries nothing but its epoch and its reason.
Plain(d) == d.kind = "CANCEL" => d = Cancel(d.epoch, d.reason)

AdoptionInv ==
    /\ TypeOK /\ Checked
    /\ \A p \in proposed : Plain(p.entry)
    /\ \A i \in 1 .. Len(ledger) : Plain(ledger[i])
    /\ \A r \in Honest : \A i \in 1 .. Len(pending_orders[r]) :
          pending_orders[r][i].kind = "CANCEL" =>
             Plain(pending_orders[r][i]) /\ Decided(pending_orders[r][i])
    /\ \A r \in Honest : \A d \in app[r].order_gossip : d.kind = "ORDER"
    /\ TombstonesDecided

\* A decision of the ledger stays one when PBFT appends.
LEMMA DecidedGrows ==
    ASSUME TypeOK, NEW p \in proposed, Commit(p), NEW d, Decided(d)
    PROVE  Decided(d)'
<1>1. p.entry \in Entry
  BY DEF TypeOK, Proposal
<1>2. /\ Len(ledger') = Len(ledger) + 1
      /\ \A i \in 1 .. Len(ledger) : ledger'[i] = ledger[i]
  BY <1>1 DEF Commit, TypeOK
<1> QED
  BY <1>2 DEF Decided, TypeOK

\* A step that leaves every app's decisions, the queues and the ledger alone.
LEMMA AdoptionFrame ==
    ASSUME AdoptionInv, TypeOK', Checked', NEW r \in Honest,
           NEW s \in AppState, SameDecisions(app[r], s), Update(r, s),
           UNCHANGED <<pending_orders, ledger>>,
           \A p \in proposed' : Plain(p.entry)
    PROVE  AdoptionInv'
<1>1. \A q \in Honest : /\ app'[q].cancels = app[q].cancels
                        /\ app'[q].order_gossip = app[q].order_gossip
  BY DEF AdoptionInv, TypeOK, Update, SameDecisions
<1>2. TombstonesDecided'
  BY <1>1 DEF AdoptionInv, TombstonesDecided, Decided
<1> QED
  BY <1>1, <1>2 DEF AdoptionInv, Decided, Plain

\* A submission adds only its own entry to the proposals.
LEMMA SubmitPlain ==
    ASSUME AdoptionInv, NEW r \in Honest, NEW d, Plain(d), NEW ok \in BOOLEAN,
           Submit(r, d, ok)
    PROVE  \A p \in proposed' : Plain(p.entry)
BY DEF Submit, AdoptionInv, Plain

\* Every CANCEL is the CANCEL of its epoch and reason: it carries no CLEAR evidence.
LEMMA EntriesPlain ==
    /\ \A e, c : Plain(Order(e, c))
    /\ \A e, k : Plain(Cancel(e, k))
BY DEF Plain, Order, Cancel

\* A PBFT commit preserves the adoption invariant.
LEMMA AdoptionCommit ==
    ASSUME AdoptionInv, TypeOK', Checked', NEW p \in proposed, Commit(p)
    PROVE  AdoptionInv'
<1>1. p.entry \in Entry /\ Plain(p.entry)
  BY DEF AdoptionInv, TypeOK, Proposal
<1>2. \A i \in 1 .. Len(ledger') : Plain(ledger'[i])
  BY <1>1 DEF Commit, AdoptionInv, TypeOK
<1>3. \A d : Decided(d) => Decided(d)'
  BY DecidedGrows DEF AdoptionInv
<1>4. TombstonesDecided'
  BY <1>3 DEF Commit, AdoptionInv, TombstonesDecided
<1>5. UNCHANGED <<app, pending_orders>> /\ proposed' \subseteq proposed
  BY DEF Commit, bridgeVars
<1> QED
  BY <1>2, <1>3, <1>4, <1>5 DEF AdoptionInv, Plain

\* ExecuteData() queues decisions of the ledger only.
LEMMA AdoptionExecute ==
    ASSUME AdoptionInv, TypeOK', Checked', NEW r \in Honest, Execute(r)
    PROVE  AdoptionInv'
<1> DEFINE d == ledger[executed[r] + 1]
<1>1. executed[r] + 1 \in 1 .. Len(ledger)
  BY DEF Execute, AdoptionInv, TypeOK
<1>2. d \in Entry /\ Plain(d) /\ Decided(d)
  BY <1>1 DEF AdoptionInv, TypeOK, Decided
<1>3. pending_orders[r] \in Seq(Entry)
      /\ pending_orders' = [pending_orders EXCEPT ![r] = Append(pending_orders[r], d)]
  BY DEF Execute, AdoptionInv, TypeOK
<1>4. ASSUME NEW q \in Honest, NEW i \in 1 .. Len(pending_orders'[q])
      PROVE  pending_orders'[q][i] = d \/ /\ i \in 1 .. Len(pending_orders[q])
                                          /\ pending_orders'[q][i] = pending_orders[q][i]
  BY SMTT(30), <1>2, <1>3 DEF AdoptionInv, TypeOK
<1>5. UNCHANGED <<app, proposed, ledger>>
  BY DEF Execute, pbftVars
<1> HIDE DEF d
<1>6. \A q \in Honest : \A i \in 1 .. Len(pending_orders'[q]) :
         pending_orders'[q][i].kind = "CANCEL" =>
            Plain(pending_orders'[q][i]) /\ Decided(pending_orders'[q][i])
  BY <1>2, <1>4 DEF AdoptionInv
<1> QED
  BY <1>5, <1>6 DEF AdoptionInv, Decided, TombstonesDecided, Plain

\* Taking the head of pending_orders_ keeps the queued CANCELs decided.
LEMMA AdoptionDequeue ==
    ASSUME AdoptionInv, NEW r \in Honest, Dequeue(r)
    PROVE  \A q \in Honest : \A i \in 1 .. Len(pending_orders'[q]) :
              pending_orders'[q][i].kind = "CANCEL" =>
                 Plain(pending_orders'[q][i]) /\ Decided(pending_orders'[q][i])
<1>1. ASSUME NEW q \in Honest, NEW i \in 1 .. Len(pending_orders'[q])
      PROVE  \E j \in 1 .. Len(pending_orders[q]) :
                pending_orders'[q][i] = pending_orders[q][j]
  <2>1. pending_orders[q] \in Seq(Entry) /\ pending_orders \in [Honest -> Seq(Entry)]
    BY DEF AdoptionInv, TypeOK
  <2>2. CASE q = r
    <3>1. pending_orders'[r] = Tail(pending_orders[r]) /\ pending_orders[r] # <<>>
      BY <2>1 DEF Dequeue
    <3>2. i + 1 \in 1 .. Len(pending_orders[r])
          /\ pending_orders'[r][i] = pending_orders[r][i + 1]
      BY <2>1, <2>2, <3>1
    <3> QED
      BY <2>2, <3>2
  <2>3. CASE q # r
    BY <2>1, <2>3 DEF Dequeue
  <2> QED
    BY <2>2, <2>3
<1> QED
  BY SMTT(30), <1>1 DEF AdoptionInv

\* Processing one queue entry preserves the adoption invariant.
LEMMA AdoptionProcess ==
    ASSUME AdoptionInv, TypeOK', Checked', NEW r \in Honest,
           \/ ProcessCancel(r)
           \/ \E adopt \in BOOLEAN, primary \in MayLead(r) : ProcessOrder(r, adopt, primary)
    PROVE  AdoptionInv'
<1> DEFINE d == Head(pending_orders[r])
<1>1. Dequeue(r) /\ UNCHANGED ledger
  BY DEF ProcessCancel, ProcessOrder, pbftVars
<1>2. d \in Entry /\ (d.kind = "CANCEL" => Plain(d) /\ Decided(d))
  BY <1>1 DEF Dequeue, AdoptionInv, TypeOK
<1>3. app[r] \in AppState /\ app \in [Honest -> AppState]
  BY DEF AdoptionInv, TypeOK
<1>4. CASE ProcessCancel(r)
  <2> DEFINE s == CancelCommitDecision(app[r], d.epoch, d.reason)
  <2>1. d.epoch \in Nat /\ d.reason \in Reason \cup {"NONE"} /\ d.kind = "CANCEL"
    BY <1>2, <1>4 DEF Entry, ProcessCancel
  <2>2. s.cancels = [app[r].cancels EXCEPT ![d.epoch] = d.reason]
        /\ s.order_gossip = app[r].order_gossip
    BY <1>3, <2>1, CancelTombstones
  <2>3. app' = [app EXCEPT ![r] = s]
    BY <1>4 DEF ProcessCancel, Update
  <2>4. Decided(Cancel(d.epoch, d.reason))
    BY <1>2, <2>1 DEF Plain
  <2> HIDE DEF s, d
  <2>5. TombstonesDecided'
    <3>1. ASSUME NEW q \in Honest, NEW e \in Epoch, app'[q].cancels[e] # "NONE"
          PROVE  Decided(Cancel(e, app'[q].cancels[e]))
      <4>1. app[r].cancels \in [Epoch -> Reason \cup {"NONE"}]
        BY <1>3 DEF AppState
      <4>2. CASE q = r /\ e = d.epoch
        BY <1>3, <2>2, <2>3, <2>4, <4>1, <4>2
      <4>3. CASE q # r \/ e # d.epoch
        <5>1. app'[q].cancels[e] = app[q].cancels[e]
          BY <1>3, <2>2, <2>3, <4>1, <4>3
        <5> QED
          BY <3>1, <5>1 DEF AdoptionInv, TombstonesDecided
      <4> QED
        BY <4>2, <4>3
    <3> QED
      BY <1>1, <3>1 DEF TombstonesDecided, Decided
  <2>6. \A q \in Honest : app'[q].order_gossip = app[q].order_gossip
    BY <1>3, <2>2, <2>3
  <2>7. UNCHANGED proposed
    BY <1>4 DEF ProcessCancel, pbftVars
  <2> QED
    BY <1>1, <2>5, <2>6, <2>7, AdoptionDequeue DEF AdoptionInv, Decided, Plain
<1>5. ASSUME NEW adopt \in BOOLEAN, NEW primary \in MayLead(r),
             ProcessOrder(r, adopt, primary)
      PROVE  AdoptionInv'
  <2> DEFINE s == [app[r] EXCEPT !.view = d.epoch]
             adopted == IF adopt THEN OnIncidentCleared(s, d.epoch - 1, primary) ELSE s
             cleared == ClearIncident(s, d.epoch - 1)
             submits == /\ adopt /\ ClearTriggers(s, d.epoch - 1)
                        /\ SubmitsOrder(cleared, primary)
  <2>1. d.kind = "ORDER" /\ primary \in BOOLEAN /\ d.epoch \in Int
    BY <1>2, <1>5 DEF ProcessOrder, MayLead, Entry
  <2>2. CASE SkipsOrder(app[r], d)
    <3>1. UNCHANGED <<app, proposed>>
      BY <1>5, <2>2 DEF ProcessOrder
    <3> QED
      BY <1>1, <3>1, AdoptionDequeue DEF AdoptionInv, TombstonesDecided, Decided, Plain
  <2>3. CASE ~SkipsOrder(app[r], d)
    <3>1. s \in AppState /\ SameDecisions(app[r], s)
      <4> HIDE DEF d
      <4> QED
        BY <1>3, <2>1 DEF AppState, SameDecisions
    <3>2. adopted \in AppState /\ SameDecisions(app[r], adopted)
      <4> HIDE DEF s, d
      <4>1. /\ OnIncidentCleared(s, d.epoch - 1, primary) \in AppState
            /\ SameDecisions(s, OnIncidentCleared(s, d.epoch - 1, primary))
        BY <2>1, <3>1, ClearType, ReadinessKeepsDecisions
      <4> QED
        BY <3>1, <4>1 DEF SameDecisions
    <3>3. /\ Update(r, ApplyOrder(adopted, r, d))
          /\ Submit(r, OrderOf(cleared), submits)
      BY <1>5, <2>3 DEF ProcessOrder
    <3> HIDE DEF adopted, cleared
    <3>4. \A p \in proposed' : Plain(p.entry)
      BY <3>3, EntriesPlain, SubmitPlain DEF OrderOf
    <3>5. /\ ApplyOrder(adopted, r, d).cancels = app[r].cancels
          /\ ApplyOrder(adopted, r, d).order_gossip \subseteq app[r].order_gossip \cup {d}
      BY <3>2, ApplyGossipsOrder DEF SameDecisions
    <3> HIDE DEF d
    <3>6. \A q \in Honest : /\ app'[q].cancels = app[q].cancels
                            /\ app'[q].order_gossip \subseteq app[q].order_gossip \cup {d}
      BY <1>3, <3>3, <3>5 DEF Update
    <3>7. \A q \in Honest : \A g \in app'[q].order_gossip : g.kind = "ORDER"
      BY <2>1, <3>6 DEF AdoptionInv
    <3>8. TombstonesDecided'
      BY <1>1, <3>6 DEF AdoptionInv, TombstonesDecided, Decided
    <3> QED
      BY <1>1, <3>4, <3>7, <3>8, AdoptionDequeue DEF AdoptionInv, Decided, Plain
  <2> QED
    BY <2>2, <2>3
<1> QED
  BY <1>4, <1>5

\* The state ORDER(0) leaves satisfies the adoption invariant.
LEMMA AdoptionInit == Init => AdoptionInv
<1> SUFFICES ASSUME Init PROVE AdoptionInv
  OBVIOUS
<1>1. Plain(Order(0, FALSE)) /\ Order(0, FALSE).kind = "ORDER"
  BY DEF Plain, Order
<1>2. \A i \in 1 .. Len(ledger) : Plain(ledger[i])
  <2>1. ASSUME NEW d
        PROVE  Len(<<d>>) = 1 /\ <<d>>[1] = d
    OBVIOUS
  <2>2. Len(ledger) = 1 /\ ledger[1] = Order(0, FALSE)
    BY <2>1 DEF Init
  <2>3. \A i \in 1 .. 1 : i = 1
    OBVIOUS
  <2> QED
    BY <1>1, <2>2, <2>3
<1>3. \A r \in Honest : \A d \in app[r].order_gossip : d.kind = "ORDER"
  BY <1>1 DEF Init, InitialApp
<1>4. TombstonesDecided
  BY DEF Init, InitialApp, TombstonesDecided
<1>5. \A r \in Honest : 1 .. Len(pending_orders[r]) = {}
  <2>1. \A r \in Honest : Len(pending_orders[r]) = 0
    BY DEF Init
  <2>2. 1 .. 0 = {}
    OBVIOUS
  <2> QED
    BY <2>1, <2>2
<1>6. TypeOK /\ Checked /\ proposed = {}
  BY InitType DEF Init, Checked
<1> QED
  BY <1>2, <1>3, <1>4, <1>5, <1>6 DEF AdoptionInv

\* f+1 equal attestations include an honest one, so the CANCEL was decided.
LEMMA AdoptionGossip ==
    ASSUME AdoptionInv, TypeOK', Checked', NEW r \in Honest, NEW e \in Epoch, NEW k \in Reason,
           HandleCancelCommitGossip(r, e, k)
    PROVE  AdoptionInv'
<1> DEFINE s == CancelGossipAdoption(app[r], e, k)
<1>1. app[r] \in AppState /\ app \in [Honest -> AppState]
  BY DEF AdoptionInv, TypeOK
<1>2. PICK p \in Honest : app[p].cancels[e] = k
  <2>1. CancelVoters(e, k) \in SUBSET Replica
    BY ReplicaAssumption DEF CancelVoters, Honest
  <2>2. Cardinality(CancelVoters(e, k)) >= F + 1
    BY CheckedVoters DEF HandleCancelCommitGossip, Reached, AdoptionInv
  <2> QED
    BY <2>1, <2>2, HonestAmong DEF CancelVoters, Honest
<1>3. Decided(Cancel(e, k))
  BY <1>2 DEF AdoptionInv, TombstonesDecided, Reason
<1>4. s.cancels = [app[r].cancels EXCEPT ![e] = k] /\ s.order_gossip = app[r].order_gossip
  BY <1>1, EpochIsNat, CancelTombstones
<1>5. /\ app' = [app EXCEPT ![r] = s]
      /\ UNCHANGED <<pending_orders, proposed, ledger>>
  BY DEF HandleCancelCommitGossip, Update, pbftVars
<1> HIDE DEF s
<1>6. TombstonesDecided'
  <2>1. ASSUME NEW q \in Honest, NEW f \in Epoch, app'[q].cancels[f] # "NONE"
        PROVE  Decided(Cancel(f, app'[q].cancels[f]))
    <3>1. app[r].cancels \in [Epoch -> Reason \cup {"NONE"}]
      BY <1>1 DEF AppState
    <3>2. CASE q = r /\ f = e
      BY <1>1, <1>3, <1>4, <1>5, <3>1, <3>2
    <3>3. CASE q # r \/ f # e
      <4>1. app'[q].cancels[f] = app[q].cancels[f]
        BY <1>1, <1>4, <1>5, <3>1, <3>3
      <4> QED
        BY <2>1, <4>1 DEF AdoptionInv, TombstonesDecided
    <3> QED
      BY <3>2, <3>3
  <2> QED
    BY <1>5, <2>1 DEF TombstonesDecided, Decided
<1>7. \A q \in Honest : app'[q].order_gossip = app[q].order_gossip
  BY <1>1, <1>4, <1>5
<1> QED
  BY <1>5, <1>6, <1>7 DEF AdoptionInv, Decided, Plain

\* Adopting an ORDER by TYPE9 queues an ORDER, never a CANCEL.
LEMMA AdoptionOrderGossip ==
    ASSUME AdoptionInv, TypeOK', Checked', NEW r \in Honest, NEW p \in Honest,
           NEW d \in app[p].order_gossip, HandleDecisionGossip(r, d)
    PROVE  AdoptionInv'
<1> DEFINE s == [app[r] EXCEPT !.last_committed = d.epoch]
<1>1. app[r] \in AppState /\ app \in [Honest -> AppState]
  BY DEF AdoptionInv, TypeOK
<1>2. d.kind = "ORDER"
  BY DEF AdoptionInv
<1>3. SameDecisions(app[r], s)
  BY <1>1 DEF SameDecisions, AppState
<1>4. /\ app' = [app EXCEPT ![r] = s]
      /\ pending_orders' = [pending_orders EXCEPT ![r] = Append(pending_orders[r], d)]
      /\ UNCHANGED <<proposed, ledger>>
  BY DEF HandleDecisionGossip, Update, pbftVars
<1>5. d \in Entry
  BY <1>1 DEF AdoptionInv, TypeOK, AppState
<1>6. ASSUME NEW q \in Honest, NEW i \in 1 .. Len(pending_orders'[q])
      PROVE  pending_orders'[q][i] = d \/ /\ i \in 1 .. Len(pending_orders[q])
                                          /\ pending_orders'[q][i] = pending_orders[q][i]
  <2> HIDE DEF s
  <2>1. pending_orders \in [Honest -> Seq(Entry)]
    BY DEF AdoptionInv, TypeOK
  <2>2. CASE q = r
    BY <1>4, <1>5, <2>1, <2>2
  <2>3. CASE q # r
    BY <1>4, <2>1, <2>3
  <2> QED
    BY <2>2, <2>3
<1>7. \A q \in Honest : /\ app'[q].cancels = app[q].cancels
                        /\ app'[q].order_gossip = app[q].order_gossip
  BY <1>1, <1>3, <1>4 DEF SameDecisions
<1>8. TombstonesDecided'
  BY <1>4, <1>7 DEF AdoptionInv, TombstonesDecided, Decided
<1> QED
  BY <1>2, <1>4, <1>6, <1>7, <1>8 DEF AdoptionInv, Decided, Plain

\* Every step preserves the adoption invariant.
LEMMA AdoptionNext == AdoptionInv /\ TypeOK' /\ Checked' /\ [Next]_vars => AdoptionInv'
<1> SUFFICES ASSUME AdoptionInv, TypeOK', Checked', [Next]_vars PROVE AdoptionInv'
  OBVIOUS
<1>0. \A r \in Honest : app[r] \in AppState
  BY DEF AdoptionInv, TypeOK
<1>a. ASSUME UNCHANGED proposed PROVE \A p \in proposed' : Plain(p.entry)
  BY <1>a DEF AdoptionInv, Plain
<1>1. ASSUME NEW r \in Honest, PerceiveCrash(r) PROVE AdoptionInv'
  <2> DEFINE s == SendCancelEcho(app[r], app[r].last_committed, "CRASH")
  <2>1. app[r].last_committed \in Epoch /\ "CRASH" \in Reason
    BY <1>1, ConfigAssumption DEF PerceiveCrash, Epoch, Reason
  <2>2. s \in AppState /\ SameDecisions(app[r], s)
    BY <1>0, <2>1, WitnessingType, CertKeepsDecisions
  <2>3. Update(r, s) /\ UNCHANGED <<pending_orders, ledger, proposed>>
    BY <1>1 DEF PerceiveCrash, bridgeVars, pbftVars
  <2> HIDE DEF s
  <2> QED
    BY <1>a, <2>2, <2>3, AdoptionFrame
<1>2. ASSUME NEW r \in Honest, PerceiveAmbulance(r) PROVE AdoptionInv'
  <2> DEFINE t == [app[r] EXCEPT !.cancel_initiated = TRUE]
             s == SendCancelEcho(t, app[r].last_committed, "EMERGENCY")
  <2>1. app[r].last_committed \in Epoch /\ "EMERGENCY" \in Reason
    BY <1>2, ConfigAssumption DEF PerceiveAmbulance, Epoch, Reason
  <2>2. t \in AppState /\ SameDecisions(app[r], t)
    BY <1>0, FlagType DEF SameDecisions, AppState
  <2> HIDE DEF t
  <2>3. s \in AppState /\ SameDecisions(app[r], s)
    BY <2>1, <2>2, WitnessingType, CertKeepsDecisions DEF SameDecisions
  <2>4. Update(r, s) /\ UNCHANGED <<pending_orders, ledger, proposed>>
    BY <1>2 DEF PerceiveAmbulance, bridgeVars, pbftVars, t
  <2> HIDE DEF s
  <2> QED
    BY <1>a, <2>3, <2>4, AdoptionFrame
<1>3. ASSUME NEW r \in Honest, NEW e \in Epoch, NEW k \in Reason, NEW active,
             HandleCancelEcho(r, e, k, active) \/ HandleCancelCert(r, e, k, active)
      PROVE  AdoptionInv'
  <2> DEFINE seen == [RegisterBlocked(app[r], e, k) EXCEPT !.cert_seen = @ \cup {<<e, k>>}]
             s == HandleValidCancelJustification(seen, e, k, active)
  <2>1. seen \in AppState
    BY <1>0, SeenType
  <2>2. SameDecisions(app[r], seen)
    BY <1>0, CertKeepsDecisions
  <2>3. UNCHANGED <<pending_orders, ledger, proposed>> /\ AcceptCancelCert(r, e, k, active)
    BY <1>3 DEF HandleCancelEcho, HandleCancelCert, bridgeVars, pbftVars
  <2>4. Update(r, seen) \/ Update(r, s)
    BY <2>3 DEF AcceptCancelCert
  <2> HIDE DEF seen
  <2>5. s \in AppState /\ SameDecisions(app[r], s)
    BY <2>1, <2>2, JustificationType, CertKeepsDecisions DEF SameDecisions
  <2> HIDE DEF s
  <2> QED
    BY <1>a, <2>1, <2>2, <2>3, <2>4, <2>5, AdoptionFrame
<1>4. ASSUME NEW r \in Honest, NEW t \in AppState, SameDecisions(app[r], t),
             SubmitCancelFrom(r, t)
      PROVE  AdoptionInv'
  <2> DEFINE s == TrySubmitCancel(t, r)
  <2>1. s \in AppState /\ SameDecisions(app[r], s)
    BY <1>4, ProposerType, ReadinessKeepsDecisions DEF SameDecisions
  <2>2. Update(r, s) /\ UNCHANGED <<pending_orders, ledger>>
    BY <1>4 DEF SubmitCancelFrom
  <2>3. \A p \in proposed' : Plain(p.entry)
    BY <1>4, EntriesPlain, SubmitPlain DEF SubmitCancelFrom
  <2> HIDE DEF s
  <2> QED
    BY <2>1, <2>2, <2>3, AdoptionFrame
<1>5. ASSUME NEW r \in Honest, FinishCancelDrain(r) \/ CancelLeaseExpires(r)
      PROVE  AdoptionInv'
  <2>1. CASE FinishCancelDrain(r)
    <3> DEFINE t == [app[r] EXCEPT !.cancel_state = "CONSENSUS"]
    <3>1. t \in AppState /\ SameDecisions(app[r], t)
      BY <1>0 DEF AppState, CancelPhase, SameDecisions
    <3> QED
      BY <1>4, <2>1, <3>1 DEF FinishCancelDrain
  <2>2. CASE CancelLeaseExpires(r)
    <3> DEFINE t == [app[r] EXCEPT !.lease = FALSE, !.rotation = @ + 1,
                                   !.cancel_submitted = FALSE, !.propose_submitted = FALSE]
    <3>1. t \in AppState
      BY <1>0, FlagType
    <3>2. SameDecisions(app[r], t)
      BY <1>0 DEF AppState, SameDecisions
    <3> QED
      BY <1>4, <2>2, <3>1, <3>2 DEF CancelLeaseExpires
  <2> QED
    BY <1>5, <2>1, <2>2
<1>6. ASSUME NEW p \in proposed, CommitCancel(p) \/ CommitOrder(p) PROVE AdoptionInv'
  BY <1>6, AdoptionCommit DEF CommitCancel, CommitOrder
<1>7. ASSUME NEW v \in Honest, NEW p \in proposed, VoteOrder(v, p) PROVE AdoptionInv'
  <2>1. UNCHANGED <<app, pending_orders, proposed, ledger>>
    BY <1>7 DEF VoteOrder, bridgeVars
  <2> QED
    BY <2>1 DEF AdoptionInv, TombstonesDecided, Decided, Plain
<1>8. ASSUME NEW r \in Honest, Execute(r) PROVE AdoptionInv'
  BY <1>8, AdoptionExecute
<1>9. ASSUME NEW r \in Honest,
             \/ ProcessCancel(r)
             \/ \E adopt \in BOOLEAN, primary \in MayLead(r) : ProcessOrder(r, adopt, primary)
      PROVE  AdoptionInv'
  BY <1>9, AdoptionProcess
<1>10. ASSUME NEW r \in Honest, NEW e \in Epoch, NEW k \in Reason,
              HandleCancelCommitGossip(r, e, k)
       PROVE  AdoptionInv'
  BY <1>10, AdoptionGossip
<1>11. ASSUME NEW r \in Honest, NEW p \in Honest, NEW d \in app[p].order_gossip,
              HandleDecisionGossip(r, d)
       PROVE  AdoptionInv'
  BY <1>11, AdoptionOrderGossip
<1>12. ASSUME NEW r \in Honest, NEW t \in AppState, SameDecisions(app[r], t),
              NEW primary \in BOOLEAN, EvaluateFrom(r, t, primary)
       PROVE  AdoptionInv'
  <2> DEFINE s == EvaluateOrderReadiness(t, primary)
  <2>1. s \in AppState /\ SameDecisions(app[r], s)
    BY <1>12, ReadinessType, ReadinessKeepsDecisions DEF SameDecisions
  <2>2. Update(r, s) /\ UNCHANGED <<pending_orders, ledger>>
    BY <1>12 DEF EvaluateFrom
  <2>3. \A p \in proposed' : Plain(p.entry)
    BY <1>12, EntriesPlain, ReadinessType, SubmitPlain DEF EvaluateFrom, OrderOf
  <2> HIDE DEF s
  <2> QED
    BY <2>1, <2>2, <2>3, AdoptionFrame
<1>13. ASSUME NEW r \in Honest,
              \/ \E primary \in MayLead(r) : DiscoveryCompletes(r, primary)
              \/ PrimaryChange(r)
       PROVE  AdoptionInv'
  <2> DEFINE t == [app[r] EXCEPT !.discovery = "COMPLETE"]
  <2>1. t \in AppState /\ SameDecisions(app[r], t) /\ SameDecisions(app[r], app[r])
    BY <1>0 DEF AppState, DiscoveryState, SameDecisions
  <2>2. \E primary \in BOOLEAN : EvaluateFrom(r, t, primary) \/ EvaluateFrom(r, app[r], primary)
    BY <1>13 DEF DiscoveryCompletes, PrimaryChange, MayLead
  <2> HIDE DEF t
  <2> QED
    BY <1>0, <1>12, <2>1, <2>2
<1>14. ASSUME NEW r \in Honest, NEW e \in Epoch, SendClearEcho(r, e) PROVE AdoptionInv'
  <2> DEFINE s == [app[r] EXCEPT !.clear_echo = @ \cup {e}]
  <2>1. s \in AppState /\ SameDecisions(app[r], s)
    BY <1>0 DEF AppState, SameDecisions
  <2>2. Update(r, s) /\ UNCHANGED <<pending_orders, ledger, proposed>>
    BY <1>14 DEF SendClearEcho, bridgeVars, pbftVars
  <2> HIDE DEF s
  <2> QED
    BY <1>a, <2>1, <2>2, AdoptionFrame
<1>15. ASSUME NEW r \in Honest, NEW e \in Epoch, NEW primary \in MayLead(r),
              HandleClearCert(r, e, primary)
       PROVE  AdoptionInv'
  <2> DEFINE t == [app[r] EXCEPT !.clear_seen = @ \cup {e}]
             s == OnIncidentCleared(t, e, primary)
             cleared == ClearIncident(t, e)
             submits == ClearTriggers(t, e) /\ SubmitsOrder(cleared, primary)
  <2>1. t \in AppState /\ SameDecisions(app[r], t)
    BY <1>0 DEF AppState, SameDecisions
  <2>2. primary \in BOOLEAN
    BY DEF MayLead
  <2>3. /\ Update(r, s) /\ Submit(r, OrderOf(cleared), submits)
        /\ UNCHANGED <<pending_orders, ledger>>
    BY <1>15 DEF HandleClearCert
  <2> HIDE DEF t, cleared
  <2>4. s \in AppState /\ SameDecisions(app[r], s)
    BY <2>1, <2>2, ClearType, ReadinessKeepsDecisions DEF SameDecisions
  <2>5. \A p \in proposed' : Plain(p.entry)
    BY <2>3, EntriesPlain, SubmitPlain DEF OrderOf
  <2> HIDE DEF s
  <2> QED
    BY <2>3, <2>4, <2>5, AdoptionFrame
<1>16. CASE Tow
  <2>1. UNCHANGED <<app, pending_orders, proposed, ledger>>
    BY <1>16 DEF Tow, bridgeVars, pbftVars
  <2> QED
    BY <2>1 DEF AdoptionInv, TombstonesDecided, Decided, Plain
<1>17. CASE UNCHANGED vars
  <2>1. UNCHANGED <<app, pending_orders, proposed, ledger>>
    BY <1>17 DEF vars, bridgeVars, pbftVars
  <2> QED
    BY <2>1 DEF AdoptionInv, TombstonesDecided, Decided, Plain
<1>18. \A p : ~CommitUnchecked(p)
  BY NoneUnchecked DEF AdoptionInv
<1>19. ASSUME NEW r \in Honest, NEW e \in Epoch, NEW clear \in BOOLEAN,
              HandleDecisionGossip(r, Order(e, clear))
       PROVE  AdoptionInv'
  BY <1>11, <1>19, GossipIsHonest DEF AdoptionInv
<1> QED
  BY <1>1, <1>2, <1>3, <1>5, <1>6, <1>7, <1>8, <1>9, <1>10, <1>13, <1>14, <1>15,
     <1>16, <1>17, <1>18, <1>19, ReasonsAreReasons DEF Next, Protocol, AppStep

\* The adoption invariant holds for as long as no name and no leader went unchecked.
LEMMA AdoptionInvariant == Spec => [](Checked => AdoptionInv)
BY AdoptionInit, AdoptionNext, CheckedBefore, TypeCorrect, PTL DEF Spec

\* Whatever the radio loses, a vehicle tombstones an epoch only for a CANCEL that PBFT
\* ordered, under the hypothesis Checked: every sender of a gossiped decision used its
\* own name, which the code does not compare with the key that signed, and no faulty
\* vehicle led.  Then f+1 equal attestations include an honest one, and an honest
\* vehicle attests only what it adopted or what its executor delivered.
THEOREM AdoptionIsSound == Spec => []AdoptionSound
<1>1. (Checked => AdoptionInv) => AdoptionSound
  BY DEF AdoptionInv, AdoptionSound
<1> QED
  BY <1>1, AdoptionInvariant, PTL

-----------------------------------------------------------------------------
(* Witnessing: a CANCEL that PBFT orders has an honest witness *)

\* An honest vehicle signed the echo.
Witnessed(e, k) == \E r \in Honest : <<e, k>> \in app[r].echo_sent

\* t holds the echoes of s, and waits for a CANCEL only if s waits for the same.
KeepsWitness(s, t) ==
    /\ s.echo_sent \subseteq t.echo_sent
    /\ t.consensus_pending => /\ s.consensus_pending
                              /\ t.cancelled_epoch = s.cancelled_epoch
                              /\ t.reason = s.reason

\* Whoever waits for a CANCEL and every CANCEL an honest vehicle proposed has a witness;
\* while no faulty vehicle has led, so has every CANCEL of the ledger.
WitnessInv ==
    /\ TypeOK
    /\ \A r \in Honest : app[r].consensus_pending =>
          Witnessed(app[r].cancelled_epoch, app[r].reason)
    /\ \A p \in proposed : p.entry.kind = "CANCEL" =>
          Witnessed(p.entry.epoch, p.entry.reason)
    /\ Checked => DecidedWitnessed

\* Keeping the witness composes.
LEMMA WitnessComposes ==
    ASSUME NEW s, NEW t, NEW u, KeepsWitness(s, t), KeepsWitness(t, u)
    PROVE  KeepsWitness(s, u)
BY DEF KeepsWitness

\* Signing an echo and seeing a certificate keep the witness.
LEMMA SeenKeepsWitness ==
    ASSUME NEW s \in AppState, NEW e \in Epoch, NEW k \in Reason
    PROVE  /\ KeepsWitness(s, SendCancelEcho(s, e, k))
           /\ KeepsWitness(s, [RegisterBlocked(s, e, k) EXCEPT !.cert_seen = @ \cup {<<e, k>>}])
<1>1. KeepsWitness(s, SendCancelEcho(s, e, k))
  BY DEF KeepsWitness, SendCancelEcho, AppState
<1>2. KeepsWitness(s, [RegisterBlocked(s, e, k) EXCEPT !.cert_seen = @ \cup {<<e, k>>}])
  BY DEF KeepsWitness, RegisterBlocked, AppState
<1> QED
  BY <1>1, <1>2

\* Readiness, CLEAR and the submission of a CANCEL keep the witness.
LEMMA ReadinessKeepsWitness ==
    ASSUME NEW s \in AppState, NEW r, NEW primary, NEW i
    PROVE  /\ KeepsWitness(s, s)
           /\ KeepsWitness(s, TrySubmitCancel(s, r))
           /\ KeepsWitness(s, EvaluateOrderReadiness(s, primary))
           /\ KeepsWitness(s, OnIncidentCleared(s, i, primary))
<1>1. KeepsWitness(s, s)
  BY DEF KeepsWitness
<1>2. KeepsWitness(s, TrySubmitCancel(s, r))
  BY DEF KeepsWitness, TrySubmitCancel, AppState
<1>3. ASSUME NEW t \in AppState
      PROVE  KeepsWitness(t, EvaluateOrderReadiness(t, primary))
  BY DEF KeepsWitness, EvaluateOrderReadiness, Freeze, AppState
<1>4. ClearIncident(s, i) \in AppState /\ KeepsWitness(s, ClearIncident(s, i))
  BY DEF KeepsWitness, ClearIncident, AppState, IncidentState
<1>5. KeepsWitness(s, OnIncidentCleared(s, i, primary))
  BY <1>3, <1>4, WitnessComposes DEF OnIncidentCleared
<1> QED
  BY <1>1, <1>2, <1>3, <1>5

\* Learning of a CANCEL ends the wait for it.
LEMMA CancelKeepsWitness ==
    ASSUME NEW s \in AppState, NEW e, NEW k
    PROVE  /\ KeepsWitness(s, CancelCommitDecision(s, e, k))
           /\ KeepsWitness(s, CancelGossipAdoption(s, e, k))
<1>1. /\ CancelCommitDecision(s, e, k).echo_sent = s.echo_sent
      /\ CancelCommitDecision(s, e, k).consensus_pending = FALSE
  BY DEF CancelCommitDecision, BeginPostCancelDiscovery, AppState
<1>2. /\ CancelGossipAdoption(s, e, k).echo_sent = s.echo_sent
      /\ CancelGossipAdoption(s, e, k).consensus_pending = FALSE
  BY DEF CancelGossipAdoption, BeginPostCancelDiscovery, AppState
<1> QED
  BY <1>1, <1>2 DEF KeepsWitness

\* Applying an ORDER keeps the witness.
LEMMA ApplyKeepsWitness ==
    ASSUME NEW s \in AppState, NEW r, NEW d
    PROVE  KeepsWitness(s, ApplyOrder(s, r, d))
<1>1. KeepsWitness(s, EndRecovery(s, d.epoch))
  BY DEF KeepsWitness, EndRecovery, AppState
<1>2. ASSUME NEW t \in AppState
      PROVE  KeepsWitness(t, CommitOrderLocally(t, r, d))
  BY DEF KeepsWitness, CommitOrderLocally, AppState
<1> QED
  BY <1>1, <1>2, EndRecoveryType, WitnessComposes DEF ApplyOrder

\* A step of one app that keeps what was witnessed, or waits for a witnessed CANCEL.
LEMMA WitnessFrame ==
    ASSUME WitnessInv, TypeOK', NEW r \in Honest, NEW s \in AppState, Update(r, s),
           \/ KeepsWitness(app[r], s)
           \/ /\ app[r].echo_sent \subseteq s.echo_sent
              /\ Witnessed(s.cancelled_epoch, s.reason),
           UNCHANGED ledger, Checked' => Checked,
           \A p \in proposed' : p.entry.kind = "CANCEL" =>
              Witnessed(p.entry.epoch, p.entry.reason)
    PROVE  WitnessInv'
<1>1. \A q \in Honest : /\ app'[q] = IF q = r THEN s ELSE app[q]
                        /\ app[q].echo_sent \subseteq app'[q].echo_sent
  BY DEF WitnessInv, TypeOK, Update, KeepsWitness
<1>2. \A e, k : Witnessed(e, k) => Witnessed(e, k)'
  BY <1>1 DEF Witnessed
<1>3. ASSUME NEW q \in Honest, app'[q].consensus_pending
      PROVE  \E p \in Honest : <<app'[q].cancelled_epoch, app'[q].reason>> \in app[p].echo_sent
                               \/ <<app'[q].cancelled_epoch, app'[q].reason>> \in app'[p].echo_sent
  <2>1. CASE q # r
    BY <1>1, <1>3, <2>1 DEF WitnessInv, Witnessed
  <2>2. CASE q = r /\ KeepsWitness(app[r], s)
    BY <1>1, <1>3, <2>2 DEF WitnessInv, Witnessed, KeepsWitness
  <2>3. CASE q = r /\ Witnessed(s.cancelled_epoch, s.reason)
    BY <1>1, <2>3 DEF Witnessed
  <2> QED
    BY <2>1, <2>2, <2>3
<1>4. ASSUME NEW q \in Honest, app'[q].consensus_pending
      PROVE  \E p \in Honest : <<app'[q].cancelled_epoch, app'[q].reason>> \in app'[p].echo_sent
  BY <1>1, <1>3, <1>4
<1>5. Checked' => DecidedWitnessed'
  BY <1>1 DEF WitnessInv, DecidedWitnessed
<1>6. ASSUME NEW p \in proposed', p.entry.kind = "CANCEL"
      PROVE  \E q \in Honest : <<p.entry.epoch, p.entry.reason>> \in app'[q].echo_sent
  BY <1>1, <1>6 DEF Witnessed
<1> QED
  BY <1>4, <1>5, <1>6 DEF WitnessInv, Witnessed

\* A submission of an ORDER, or of a witnessed CANCEL, keeps the proposals witnessed.
LEMMA SubmitWitnessed ==
    ASSUME WitnessInv, NEW r \in Honest, NEW d, NEW ok \in BOOLEAN, Submit(r, d, ok),
           ok /\ d.kind = "CANCEL" => Witnessed(d.epoch, d.reason)
    PROVE  \A p \in proposed' : p.entry.kind = "CANCEL" =>
              Witnessed(p.entry.epoch, p.entry.reason)
BY DEF Submit, WitnessInv

\* A certificate that passes has an honest signer, who witnessed the incident.
LEMMA CertWitnessed ==
    ASSUME NEW e, NEW k, NEW view, ValidCert(EchoSigners(e, k), view)
    PROVE  Witnessed(e, k)
<1>1. EchoSigners(e, k) \in SUBSET Replica
  BY ReplicaAssumption DEF EchoSigners, Honest
<1>2. PICK p \in Honest : p \in EchoSigners(e, k)
  BY <1>1, HonestSigner
<1> QED
  BY <1>2 DEF EchoSigners, Witnessed, Honest

\* Init: nobody waits and nothing is proposed.
LEMMA WitnessInit == Init => WitnessInv
<1> SUFFICES ASSUME Init PROVE WitnessInv
  OBVIOUS
<1>1. \A r \in Honest : app[r].consensus_pending = FALSE
  BY DEF Init, InitialApp
<1>2. Len(ledger) = 1 /\ ledger[1].kind = "ORDER"
  BY DEF Init, Order
<1>3. DecidedWitnessed
  BY <1>2 DEF DecidedWitnessed
<1>4. TypeOK /\ proposed = {}
  BY InitType DEF Init
<1> QED
  BY <1>1, <1>3, <1>4 DEF WitnessInv

\* A step that orders nothing new and leaves the vehicles alone.
LEMMA WitnessSame ==
    ASSUME WitnessInv, TypeOK', Checked' => Checked, UNCHANGED <<app, proposed, ledger>>
    PROVE  WitnessInv'
BY DEF WitnessInv, Witnessed, DecidedWitnessed

\* What PBFT orders was proposed, so an honest vehicle witnessed it, or a faulty
\* vehicle led.
LEMMA WitnessCommit ==
    ASSUME WitnessInv, TypeOK', NEW p \in Proposal, Commit(p), Checked' => Checked,
           p \in proposed \/ ~Checked'
    PROVE  WitnessInv'
<1>1. p.entry \in Entry /\ ledger \in Seq(Entry)
  BY DEF WitnessInv, TypeOK, Proposal
<1>2. UNCHANGED app /\ proposed' \subseteq proposed /\ ledger' = Append(ledger, p.entry)
  BY DEF Commit
<1>3. /\ Len(ledger) \in Nat /\ Len(ledger') = Len(ledger) + 1
      /\ \A i \in 1 .. Len(ledger) : ledger'[i] = ledger[i]
      /\ ledger'[Len(ledger) + 1] = p.entry
  BY <1>1, <1>2
<1>4. ASSUME Checked' PROVE DecidedWitnessed'
  <2>1. ASSUME NEW i \in 1 .. Len(ledger'), ledger'[i].kind = "CANCEL"
        PROVE  \E r \in Honest : <<ledger'[i].epoch, ledger'[i].reason>> \in app[r].echo_sent
    <3>1. CASE i \in 1 .. Len(ledger)
      BY <1>3, <1>4, <2>1, <3>1 DEF WitnessInv, DecidedWitnessed
    <3>2. CASE i = Len(ledger) + 1
      BY <1>3, <1>4, <2>1, <3>2 DEF WitnessInv, Witnessed
    <3> QED
      BY <1>3, <3>1, <3>2
  <2> QED
    BY <1>2, <2>1 DEF DecidedWitnessed
<1> QED
  BY <1>2, <1>4 DEF WitnessInv, Witnessed

\* Draining the queue: a CANCEL ends the wait, an ORDER leaves it as it is.
LEMMA WitnessProcess ==
    ASSUME WitnessInv, TypeOK', Checked' => Checked, NEW r \in Honest,
           \/ ProcessCancel(r)
           \/ \E adopt \in BOOLEAN, primary \in MayLead(r) : ProcessOrder(r, adopt, primary)
    PROVE  WitnessInv'
<1> DEFINE d == Head(pending_orders[r])
<1>1. d \in Entry
  BY DEF ProcessCancel, ProcessOrder, Dequeue, WitnessInv, TypeOK
<1>2. app[r] \in AppState
  BY DEF WitnessInv, TypeOK
<1>3. CASE ProcessCancel(r)
  <2> DEFINE s == CancelCommitDecision(app[r], d.epoch, d.reason)
  <2>1. KeepsWitness(app[r], s)
    BY <1>2, CancelKeepsWitness
  <2>2. Update(r, s) /\ UNCHANGED <<proposed, ledger>>
    BY <1>3 DEF ProcessCancel, pbftVars
  <2>3. s \in AppState
    <3>1. s = app'[r]
      BY <2>2 DEF Update, WitnessInv, TypeOK
    <3> QED
      BY <3>1 DEF TypeOK
  <2>4. \A p \in proposed' : p.entry.kind = "CANCEL" => Witnessed(p.entry.epoch, p.entry.reason)
    BY <2>2 DEF WitnessInv
  <2> HIDE DEF s
  <2> QED
    BY <2>1, <2>2, <2>3, <2>4, WitnessFrame
<1>4. ASSUME NEW adopt \in BOOLEAN, NEW primary \in MayLead(r), ProcessOrder(r, adopt, primary)
      PROVE  WitnessInv'
  <2> DEFINE s == [app[r] EXCEPT !.view = d.epoch]
             e == d.epoch - 1
             cleared == ClearIncident(s, e)
             submits == adopt /\ ClearTriggers(s, e) /\ SubmitsOrder(cleared, primary)
             t == IF adopt THEN OnIncidentCleared(s, e, primary) ELSE s
             u == ApplyOrder(t, r, d)
  <2>1. primary \in BOOLEAN
    BY DEF MayLead
  <2>2. s \in AppState /\ KeepsWitness(app[r], s)
    BY <1>1, <1>2 DEF Entry, AppState, KeepsWitness
  <2>3. CASE SkipsOrder(app[r], d)
    BY <1>4, <2>3, WitnessSame DEF ProcessOrder
  <2>4. CASE ~SkipsOrder(app[r], d)
    <3>1. Update(r, u) /\ Submit(r, OrderOf(cleared), submits) /\ UNCHANGED ledger
      BY <1>4, <2>4 DEF ProcessOrder
    <3> HIDE DEF s, cleared, submits
    <3>2. t \in AppState
      BY <2>1, <2>2, ClearType
    <3>3. KeepsWitness(app[r], t)
      BY <2>2, ReadinessKeepsWitness, WitnessComposes
    <3> HIDE DEF t
    <3>4. u \in AppState
      BY <1>1, <3>2, ApplyType
    <3>5. KeepsWitness(app[r], u)
      BY <3>2, <3>3, ApplyKeepsWitness, WitnessComposes
    <3>6. \A p \in proposed' : p.entry.kind = "CANCEL" => Witnessed(p.entry.epoch, p.entry.reason)
      BY <3>1 DEF Submit, OrderOf, Order, WitnessInv
    <3> HIDE DEF u
    <3> QED
      BY <3>1, <3>4, <3>5, <3>6, WitnessFrame
  <2> QED
    BY <2>3, <2>4
<1> QED
  BY <1>3, <1>4

\* Every step keeps the CANCELs witnessed.
LEMMA WitnessNext == WitnessInv /\ TypeOK' /\ [Next]_vars => WitnessInv'
<1> SUFFICES ASSUME WitnessInv, TypeOK', [Next]_vars, Checked' => Checked
             PROVE  WitnessInv'
  BY CheckedBefore DEF WitnessInv
<1>0. /\ \A r \in Honest : app[r] \in AppState
      /\ \A p \in proposed : p.entry.kind = "CANCEL" => Witnessed(p.entry.epoch, p.entry.reason)
  BY DEF WitnessInv, TypeOK
<1>1. ASSUME NEW r \in Honest, PerceiveCrash(r) PROVE WitnessInv'
  <2> DEFINE s == SendCancelEcho(app[r], app[r].last_committed, "CRASH")
  <2>1. app[r].last_committed \in Epoch /\ "CRASH" \in Reason
    BY <1>1, ConfigAssumption DEF PerceiveCrash, Epoch, Reason
  <2>2. s \in AppState /\ KeepsWitness(app[r], s)
    BY <1>0, <2>1, WitnessingType, SeenKeepsWitness
  <2>3. Update(r, s) /\ UNCHANGED <<ledger, proposed>>
    BY <1>1 DEF PerceiveCrash, pbftVars
  <2> HIDE DEF s
  <2> QED
    BY <1>0, <2>2, <2>3, WitnessFrame
<1>2. ASSUME NEW r \in Honest, PerceiveAmbulance(r) PROVE WitnessInv'
  <2> DEFINE t == [app[r] EXCEPT !.cancel_initiated = TRUE]
             s == SendCancelEcho(t, app[r].last_committed, "EMERGENCY")
  <2>1. app[r].last_committed \in Epoch /\ "EMERGENCY" \in Reason
    BY <1>2, ConfigAssumption DEF PerceiveAmbulance, Epoch, Reason
  <2>2. t \in AppState /\ KeepsWitness(app[r], t)
    BY ZenonT(60), <1>0, FlagType DEF KeepsWitness, AppState
  <2>3. Update(r, s) /\ UNCHANGED <<ledger, proposed>>
    BY <1>2 DEF PerceiveAmbulance, pbftVars
  <2> HIDE DEF t
  <2>4. s \in AppState /\ KeepsWitness(app[r], s)
    BY <2>1, <2>2, WitnessingType, SeenKeepsWitness, WitnessComposes
  <2> HIDE DEF s
  <2> QED
    BY <1>0, <2>3, <2>4, WitnessFrame
<1>3. ASSUME NEW r \in Honest, NEW e \in Epoch, NEW k \in Reason, NEW active,
             HandleCancelEcho(r, e, k, active) \/ HandleCancelCert(r, e, k, active)
      PROVE  WitnessInv'
  <2> DEFINE seen == [RegisterBlocked(app[r], e, k) EXCEPT !.cert_seen = @ \cup {<<e, k>>}]
             s == HandleValidCancelJustification(seen, e, k, active)
  <2>1. seen \in AppState /\ KeepsWitness(app[r], seen)
    BY <1>0, SeenType, SeenKeepsWitness
  <2>2. Witnessed(e, k)
    BY <1>3, CertWitnessed DEF HandleCancelEcho, HandleCancelCert
  <2>3. UNCHANGED <<ledger, proposed>> /\ AcceptCancelCert(r, e, k, active)
    BY <1>3 DEF HandleCancelEcho, HandleCancelCert, pbftVars
  <2>4. Update(r, seen) \/ Update(r, s)
    BY <2>3 DEF AcceptCancelCert
  <2> HIDE DEF seen
  <2>5. s \in AppState
    BY <2>1, JustificationType
  <2>6. \/ s = seen
        \/ s.echo_sent = seen.echo_sent /\ s.cancelled_epoch = e /\ s.reason = k
    BY <2>1 DEF HandleValidCancelJustification, BeginCancelDrain, AppState
  <2> HIDE DEF s
  <2>7. \/ KeepsWitness(app[r], s)
        \/ /\ app[r].echo_sent \subseteq s.echo_sent
           /\ Witnessed(s.cancelled_epoch, s.reason)
    BY <2>1, <2>2, <2>6 DEF KeepsWitness
  <2>8. CASE Update(r, seen)
    BY <1>0, <2>1, <2>3, <2>8, WitnessFrame
  <2>9. CASE Update(r, s)
    BY <1>0, <2>3, <2>5, <2>7, <2>9, WitnessFrame
  <2> QED
    BY <2>4, <2>8, <2>9
<1>4. ASSUME NEW r \in Honest, NEW t \in AppState, KeepsWitness(app[r], t),
             SubmitCancelFrom(r, t)
      PROVE  WitnessInv'
  <2> DEFINE s == TrySubmitCancel(t, r)
             d == Cancel(t.cancelled_epoch, t.reason)
             ok == ProposesCancel(t, r) /\ CancelViewAccepted(t, r)
  <2>1. s \in AppState /\ KeepsWitness(app[r], s)
    BY <1>4, ProposerType, ReadinessKeepsWitness, WitnessComposes
  <2>2. Update(r, s) /\ Submit(r, d, ok) /\ UNCHANGED ledger
    BY <1>4 DEF SubmitCancelFrom
  <2>3. ok \in BOOLEAN
    BY DEF ProposesCancel, MayPropose, CancelViewAccepted
  <2>4. ok => Witnessed(t.cancelled_epoch, t.reason)
    BY <1>4 DEF ProposesCancel, MayPropose, KeepsWitness, WitnessInv
  <2>5. d.epoch = t.cancelled_epoch /\ d.reason = t.reason
    BY DEF Cancel
  <2> HIDE DEF s, d, ok
  <2>6. \A p \in proposed' : p.entry.kind = "CANCEL" => Witnessed(p.entry.epoch, p.entry.reason)
    BY <2>2, <2>3, <2>4, <2>5, SubmitWitnessed
  <2> QED
    BY <2>1, <2>2, <2>6, WitnessFrame
<1>5. ASSUME NEW r \in Honest, FinishCancelDrain(r) \/ CancelLeaseExpires(r)
      PROVE  WitnessInv'
  <2>1. CASE FinishCancelDrain(r)
    <3> DEFINE t == [app[r] EXCEPT !.cancel_state = "CONSENSUS"]
    <3>1. t \in AppState /\ KeepsWitness(app[r], t)
      BY <1>0 DEF AppState, CancelPhase, KeepsWitness
    <3> QED
      BY <1>4, <2>1, <3>1 DEF FinishCancelDrain
  <2>2. CASE CancelLeaseExpires(r)
    <3> DEFINE t == [app[r] EXCEPT !.lease = FALSE, !.rotation = @ + 1,
                                   !.cancel_submitted = FALSE, !.propose_submitted = FALSE]
    <3>1. t \in AppState
      BY <1>0, FlagType
    <3>2. KeepsWitness(app[r], t)
      BY <1>0 DEF AppState, KeepsWitness
    <3> QED
      BY <1>4, <2>2, <3>1, <3>2 DEF CancelLeaseExpires
  <2> QED
    BY <1>5, <2>1, <2>2
<1>6. ASSUME NEW p \in proposed, CommitCancel(p) \/ CommitOrder(p) PROVE WitnessInv'
  BY <1>6, WitnessCommit DEF CommitCancel, CommitOrder, WitnessInv, TypeOK
<1>7. ASSUME NEW v \in Honest, NEW p \in proposed, VoteOrder(v, p) PROVE WitnessInv'
  BY <1>7, WitnessSame DEF VoteOrder
<1>8. ASSUME NEW r \in Honest, Execute(r) PROVE WitnessInv'
  BY <1>8, WitnessSame DEF Execute, pbftVars
<1>9. ASSUME NEW r \in Honest,
             \/ ProcessCancel(r)
             \/ \E adopt \in BOOLEAN, primary \in MayLead(r) : ProcessOrder(r, adopt, primary)
      PROVE  WitnessInv'
  BY <1>9, WitnessProcess
<1>10. ASSUME NEW r \in Honest, NEW e \in Epoch, NEW k \in Reason,
              HandleCancelCommitGossip(r, e, k)
       PROVE  WitnessInv'
  <2> DEFINE s == CancelGossipAdoption(app[r], e, k)
  <2>1. Update(r, s) /\ UNCHANGED <<ledger, proposed>>
    BY <1>10 DEF HandleCancelCommitGossip, pbftVars
  <2>2. KeepsWitness(app[r], s)
    BY <1>0, CancelKeepsWitness
  <2>3. s \in AppState
    <3>1. s = app'[r]
      BY <2>1 DEF Update, WitnessInv, TypeOK
    <3> QED
      BY <3>1 DEF TypeOK
  <2> HIDE DEF s
  <2> QED
    BY <1>0, <2>1, <2>2, <2>3, WitnessFrame
<1>11. ASSUME NEW r \in Honest, NEW d, HandleDecisionGossip(r, d)
       PROVE  WitnessInv'
  <2> DEFINE s == [app[r] EXCEPT !.last_committed = d.epoch]
  <2>1. Update(r, s) /\ UNCHANGED <<ledger, proposed>>
    BY <1>11 DEF HandleDecisionGossip, pbftVars
  <2>2. KeepsWitness(app[r], s)
    BY <1>0 DEF KeepsWitness, AppState
  <2> HIDE DEF s
  <2>3. s \in AppState
    <3>1. s = app'[r]
      BY <2>1 DEF Update, WitnessInv, TypeOK
    <3> QED
      BY <3>1 DEF TypeOK
  <2> QED
    BY <1>0, <2>1, <2>2, <2>3, WitnessFrame
<1>12. ASSUME NEW r \in Honest, NEW t \in AppState, KeepsWitness(app[r], t),
              NEW primary \in BOOLEAN, EvaluateFrom(r, t, primary)
       PROVE  WitnessInv'
  <2> DEFINE s == EvaluateOrderReadiness(t, primary)
  <2>1. s \in AppState /\ KeepsWitness(app[r], s)
    BY <1>12, ReadinessType, ReadinessKeepsWitness, WitnessComposes
  <2>2. Update(r, s) /\ Submit(r, OrderOf(t), SubmitsOrder(t, primary)) /\ UNCHANGED ledger
    BY <1>12 DEF EvaluateFrom
  <2>3. \A p \in proposed' : p.entry.kind = "CANCEL" => Witnessed(p.entry.epoch, p.entry.reason)
    BY <1>0, <2>2 DEF Submit, OrderOf, Order
  <2> HIDE DEF s
  <2> QED
    BY <2>1, <2>2, <2>3, WitnessFrame
<1>13. ASSUME NEW r \in Honest,
              \/ \E primary \in MayLead(r) : DiscoveryCompletes(r, primary)
              \/ PrimaryChange(r)
       PROVE  WitnessInv'
  <2> DEFINE t == [app[r] EXCEPT !.discovery = "COMPLETE"]
  <2>1. t \in AppState /\ KeepsWitness(app[r], t) /\ KeepsWitness(app[r], app[r])
    BY <1>0 DEF AppState, DiscoveryState, KeepsWitness
  <2>2. \E primary \in BOOLEAN : EvaluateFrom(r, t, primary) \/ EvaluateFrom(r, app[r], primary)
    BY <1>13 DEF DiscoveryCompletes, PrimaryChange, MayLead
  <2> HIDE DEF t
  <2> QED
    BY <1>0, <1>12, <2>1, <2>2
<1>14. ASSUME NEW r \in Honest, NEW e \in Epoch, SendClearEcho(r, e) PROVE WitnessInv'
  <2> DEFINE s == [app[r] EXCEPT !.clear_echo = @ \cup {e}]
  <2>1. s \in AppState /\ KeepsWitness(app[r], s)
    BY <1>0 DEF AppState, KeepsWitness
  <2>2. Update(r, s) /\ UNCHANGED <<ledger, proposed>>
    BY <1>14 DEF SendClearEcho, pbftVars
  <2> HIDE DEF s
  <2> QED
    BY <1>0, <2>1, <2>2, WitnessFrame
<1>15. ASSUME NEW r \in Honest, NEW e \in Epoch, NEW primary \in MayLead(r),
              HandleClearCert(r, e, primary)
       PROVE  WitnessInv'
  <2> DEFINE t == [app[r] EXCEPT !.clear_seen = @ \cup {e}]
             s == OnIncidentCleared(t, e, primary)
             cleared == ClearIncident(t, e)
             submits == ClearTriggers(t, e) /\ SubmitsOrder(cleared, primary)
  <2>1. t \in AppState /\ KeepsWitness(app[r], t)
    BY <1>0 DEF AppState, KeepsWitness
  <2>2. primary \in BOOLEAN
    BY DEF MayLead
  <2>3. Update(r, s) /\ Submit(r, OrderOf(cleared), submits) /\ UNCHANGED ledger
    BY <1>15 DEF HandleClearCert
  <2> HIDE DEF t, cleared, submits
  <2>4. s \in AppState /\ KeepsWitness(app[r], s)
    BY <2>1, <2>2, ClearType, ReadinessKeepsWitness, WitnessComposes
  <2>5. \A p \in proposed' : p.entry.kind = "CANCEL" => Witnessed(p.entry.epoch, p.entry.reason)
    BY <1>0, <2>3 DEF Submit, OrderOf, Order
  <2> HIDE DEF s
  <2> QED
    BY <2>3, <2>4, <2>5, WitnessFrame
<1>16. CASE Tow
  BY <1>16, WitnessSame DEF Tow, pbftVars
<1>17. CASE UNCHANGED vars
  BY <1>17, WitnessSame DEF vars, pbftVars
<1>18. ASSUME NEW leader \in Faulty, NEW d \in Decisions,
              CommitUnchecked([entry |-> d, leader |-> leader, seq |-> Len(ledger) + 1])
       PROVE  WitnessInv'
  <2> DEFINE p == [entry |-> d, leader |-> leader, seq |-> Len(ledger) + 1]
  <2>1. p \in Proposal
    BY DecisionsAreEntries, ReplicaAssumption DEF Proposal, WitnessInv, TypeOK
  <2>2. ~Checked'
    BY <1>18, NoneUnchecked DEF WitnessInv
  <2> QED
    BY <1>18, <2>1, <2>2, WitnessCommit DEF CommitUnchecked
<1> QED
  BY <1>1, <1>2, <1>3, <1>5, <1>6, <1>7, <1>8, <1>9, <1>10, <1>11, <1>13, <1>14, <1>15,
     <1>16, <1>17, <1>18, ReasonsAreReasons DEF Next, Protocol, AppStep

\* No honest vehicle proposes a CANCEL that no honest vehicle signed an echo for, whatever
\* f faulty vehicles sign, gossip, propose or vote: it proposes only while it waits for a
\* CANCEL, and waits only after f+1 registry-bound echoes.  Under the hypothesis Checked,
\* that no faulty vehicle led, the same holds of the CANCELs PBFT orders; PreVerify does
\* not check a proposed CANCEL for its echoes.
THEOREM CancelsAreWitnessed == Spec => []CancelWitnessed
<1>1. WitnessInv => CancelWitnessed
  BY DEF WitnessInv, CancelWitnessed, HonestProposalWitnessed, Witnessed
<1> QED
  BY <1>1, WitnessInit, WitnessNext, TypeCorrect, PTL DEF Spec

-----------------------------------------------------------------------------
(* CLEAR: while the wreck stands in the box nobody signs, carries or believes it *)

\* The vehicle signed no CLEAR echo, believes no incident cleared, and has frozen or
\* gossiped no ORDER with a CLEAR trailer.
NoClear(s) ==
    /\ s.clear_echo = {}
    /\ \A e \in Epoch : s.incident[e] # "CLEARED"
    /\ s.candidate # "CLEAR"
    /\ \A d \in s.order_gossip : ~d.clear

\* ... and no ORDER with a CLEAR trailer is queued, proposed or ordered.
NothingCleared ==
    /\ \A r \in Honest : NoClear(app[r])
    /\ \A r \in Honest : \A i \in 1 .. Len(pending_orders[r]) : ~pending_orders[r][i].clear
    /\ \A p \in proposed : ~p.entry.clear
    /\ \A i \in 1 .. Len(ledger) : ~ledger[i].clear

ClearInv == TypeOK /\ (wreck = "IN_BOX" => NothingCleared)

\* The steps of an app that read no CLEAR evidence make none.
LEMMA CertKeepsNoClear ==
    ASSUME NEW s \in AppState, NoClear(s), NEW e \in Epoch, NEW k \in Reason, NEW active
    PROVE  /\ NoClear(SendCancelEcho(s, e, k))
           /\ NoClear([RegisterBlocked(s, e, k) EXCEPT !.cert_seen = @ \cup {<<e, k>>}])
           /\ NoClear(HandleValidCancelJustification(s, e, k, active))
<1>1. NoClear(SendCancelEcho(s, e, k))
  BY DEF SendCancelEcho, NoClear, AppState
<1>2. NoClear([RegisterBlocked(s, e, k) EXCEPT !.cert_seen = @ \cup {<<e, k>>}])
  BY DEF RegisterBlocked, NoClear, AppState
<1>3. NoClear(HandleValidCancelJustification(s, e, k, active))
  BY DEF HandleValidCancelJustification, BeginCancelDrain, NoClear, AppState
<1> QED
  BY <1>1, <1>2, <1>3

\* The submission of a CANCEL makes no evidence either.
LEMMA ProposerKeepsNoClear ==
    ASSUME NEW s \in AppState, NoClear(s), NEW r
    PROVE  NoClear(TrySubmitCancel(s, r))
BY DEF TrySubmitCancel, NoClear, AppState

\* Readiness freezes a plain candidate, and its ORDER carries no trailer.
LEMMA ReadinessKeepsNoClear ==
    ASSUME NEW s \in AppState, NoClear(s), NEW primary
    PROVE  /\ NoClear(EvaluateOrderReadiness(s, primary))
           /\ ~OrderOf(s).clear
<1>1. NoClear(Freeze(s))
  BY DEF Freeze, NoClear, AppState
<1>2. Freeze(s) \in AppState
  BY DEF Freeze, AppState, CandidateKind
<1>3. NoClear(EvaluateOrderReadiness(s, primary))
  <2> DEFINE t == Freeze(s)
  <2>1. NoClear(t) /\ t \in AppState
    BY <1>1, <1>2
  <2> HIDE DEF t
  <2>2. NoClear([t EXCEPT !.propose_submitted = @ \/ SubmitsOrder(s, primary)])
    BY <2>1 DEF NoClear, AppState
  <2> QED
    BY <2>2 DEF EvaluateOrderReadiness, t
<1>4. ~OrderOf(s).clear
  BY <1>1 DEF OrderOf, Order, NoClear
<1> QED
  BY <1>3, <1>4

\* Learning of a CANCEL, or applying an ORDER without a trailer, makes no evidence.
LEMMA DecisionKeepsNoClear ==
    ASSUME NEW s \in AppState, NoClear(s), NEW e, NEW k, NEW r, NEW d, ~d.clear
    PROVE  /\ NoClear(CancelCommitDecision(s, e, k))
           /\ NoClear(CancelGossipAdoption(s, e, k))
           /\ NoClear(ApplyOrder(s, r, d))
<1>1. NoClear(CancelCommitDecision(s, e, k))
  BY DEF CancelCommitDecision, BeginPostCancelDiscovery, NoClear, AppState
<1>2. NoClear(CancelGossipAdoption(s, e, k))
  BY DEF CancelGossipAdoption, BeginPostCancelDiscovery, NoClear, AppState
<1>3. NoClear(EndRecovery(s, d.epoch))
  BY DEF EndRecovery, NoClear, AppState
<1>4. ASSUME NEW t \in AppState, NoClear(t)
      PROVE  NoClear(CommitOrderLocally(t, r, d))
  BY <1>4 DEF CommitOrderLocally, NoClear, AppState
<1> QED
  BY <1>1, <1>2, <1>3, <1>4, EndRecoveryType DEF ApplyOrder

\* A step of one app that makes no CLEAR evidence and proposes none.
LEMMA ClearFrame ==
    ASSUME TypeOK, NothingCleared, NEW r \in Honest, NEW s, NoClear(s), Update(r, s),
           UNCHANGED <<pending_orders, ledger>>,
           \A p \in proposed' : ~p.entry.clear
    PROVE  NothingCleared'
<1>1. \A q \in Honest : app'[q] = IF q = r THEN s ELSE app[q]
  BY DEF TypeOK, Update
<1>2. \A q \in Honest : NoClear(app'[q])
  BY <1>1 DEF NothingCleared
<1> QED
  BY <1>2 DEF NothingCleared, NoClear

\* A step that makes nothing at all.
LEMMA ClearSame ==
    ASSUME NothingCleared, UNCHANGED <<app, pending_orders, proposed, ledger>>
    PROVE  NothingCleared'
BY DEF NothingCleared, NoClear

\* A submission without a trailer leaves no trailer among the proposals.
LEMMA SubmitUnclear ==
    ASSUME NothingCleared, NEW r, NEW d, NEW ok, Submit(r, d, ok), ok => ~d.clear
    PROVE  \A p \in proposed' : ~p.entry.clear
BY DEF Submit, NothingCleared

\* A CLEAR certificate has an honest signer: none exists while nobody signed.
LEMMA NoClearCert ==
    ASSUME NothingCleared, NEW e, NEW view, ValidCert(ClearSigners(e), view)
    PROVE  FALSE
<1>1. ClearSigners(e) \in SUBSET Replica
  BY ReplicaAssumption DEF ClearSigners, Honest
<1>2. PICK p \in Honest : p \in ClearSigners(e)
  BY <1>1, HonestSigner
<1> QED
  BY <1>2 DEF ClearSigners, NothingCleared, NoClear, Honest

\* Nor does an ORDER with a certificate.
LEMMA NoClearCarried ==
    ASSUME NothingCleared, NEW d, Carried(d)
    PROVE  ~d.clear
<1> SUFFICES ASSUME d.clear PROVE FALSE
  OBVIOUS
<1>1. ClearSigners(d.epoch - 1) \in SUBSET Replica
  BY ReplicaAssumption DEF ClearSigners, Honest
<1>2. PICK p \in Honest : p \in ClearSigners(d.epoch - 1)
  BY <1>1, HonestAmong DEF Carried
<1> QED
  BY <1>2 DEF ClearSigners, NothingCleared, NoClear, Honest

\* PBFT orders what was proposed or carries a certificate.
LEMMA ClearCommit ==
    ASSUME TypeOK, NothingCleared, NEW p \in Proposal, Commit(p), ~p.entry.clear
    PROVE  NothingCleared'
<1>1. p.entry \in Entry /\ ledger \in Seq(Entry) /\ ~p.entry.clear
  BY DEF NothingCleared, TypeOK, Proposal
<1>2. /\ UNCHANGED <<app, pending_orders>> /\ proposed' \subseteq proposed
      /\ ledger' = Append(ledger, p.entry)
  BY DEF Commit, bridgeVars
<1>3. \A i \in 1 .. Len(ledger') : ~ledger'[i].clear
  BY <1>1, <1>2 DEF NothingCleared
<1> QED
  BY <1>2, <1>3 DEF NothingCleared, NoClear

\* Appending to a queue a decision without a trailer.
LEMMA ClearAppend ==
    ASSUME TypeOK, NothingCleared, NEW r \in Honest, NEW d \in Entry, ~d.clear,
           pending_orders' = [pending_orders EXCEPT ![r] = Append(@, d)]
    PROVE  \A q \in Honest : \A i \in 1 .. Len(pending_orders'[q]) :
              ~pending_orders'[q][i].clear
<1>1. ASSUME NEW q \in Honest, NEW i \in 1 .. Len(pending_orders'[q])
      PROVE  pending_orders'[q][i] = d \/ /\ i \in 1 .. Len(pending_orders[q])
                                          /\ pending_orders'[q][i] = pending_orders[q][i]
  <2>1. pending_orders \in [Honest -> Seq(Entry)]
    BY DEF TypeOK
  <2>2. CASE q = r
    BY <2>1, <2>2
  <2>3. CASE q # r
    BY <2>1, <2>3
  <2> QED
    BY <2>2, <2>3
<1> QED
  BY <1>1 DEF NothingCleared

\* Taking the head of a queue leaves no trailer in it.
LEMMA ClearDequeue ==
    ASSUME TypeOK, NothingCleared, NEW r \in Honest, Dequeue(r)
    PROVE  /\ Head(pending_orders[r]) \in Entry /\ ~Head(pending_orders[r]).clear
           /\ \A q \in Honest : \A i \in 1 .. Len(pending_orders'[q]) :
                 ~pending_orders'[q][i].clear
<1>1. pending_orders \in [Honest -> Seq(Entry)] /\ pending_orders[r] # <<>>
  BY DEF Dequeue, TypeOK
<1>2. Head(pending_orders[r]) \in Entry /\ ~Head(pending_orders[r]).clear
  <2>1. 1 \in 1 .. Len(pending_orders[r])
        /\ Head(pending_orders[r]) = pending_orders[r][1]
    BY <1>1
  <2> QED
    BY <1>1, <2>1 DEF NothingCleared
<1>3. ASSUME NEW q \in Honest, NEW i \in 1 .. Len(pending_orders'[q])
      PROVE  \E j \in 1 .. Len(pending_orders[q]) :
                pending_orders'[q][i] = pending_orders[q][j]
  <2>1. CASE q = r
    <3>1. pending_orders'[r] = Tail(pending_orders[r])
      BY <1>1 DEF Dequeue
    <3>2. i + 1 \in 1 .. Len(pending_orders[r])
          /\ pending_orders'[r][i] = pending_orders[r][i + 1]
      BY <1>1, <2>1, <3>1
    <3> QED
      BY <2>1, <3>2
  <2>2. CASE q # r
    BY <1>1, <2>2 DEF Dequeue
  <2> QED
    BY <2>1, <2>2
<1>4. ASSUME NEW q \in Honest, NEW i \in 1 .. Len(pending_orders'[q])
      PROVE  ~pending_orders'[q][i].clear
  <2>1. PICK j \in 1 .. Len(pending_orders[q]) :
           pending_orders'[q][i] = pending_orders[q][j]
    BY <1>3
  <2>2. ~pending_orders[q][j].clear
    BY DEF NothingCleared
  <2> QED
    BY <2>1, <2>2
<1> QED
  BY <1>2, <1>4

\* Nothing is signed before the run: Init holds no evidence.
LEMMA ClearInit == Init => ClearInv
<1> SUFFICES ASSUME Init PROVE ClearInv
  OBVIOUS
<1>1. ~Order(0, FALSE).clear
  BY DEF Order
<1>2. \A r \in Honest : NoClear(app[r])
  BY <1>1 DEF Init, InitialApp, NoClear
<1>3. \A r \in Honest : 1 .. Len(pending_orders[r]) = {}
  <2>1. \A r \in Honest : Len(pending_orders[r]) = 0
    BY DEF Init
  <2>2. 1 .. 0 = {}
    OBVIOUS
  <2> QED
    BY <2>1, <2>2
<1>4. \A i \in 1 .. Len(ledger) : ~ledger[i].clear
  <2>1. ASSUME NEW d
        PROVE  Len(<<d>>) = 1 /\ <<d>>[1] = d
    OBVIOUS
  <2>2. Len(ledger) = 1 /\ ledger[1] = Order(0, FALSE)
    BY <2>1 DEF Init
  <2>3. \A i \in 1 .. 1 : i = 1
    OBVIOUS
  <2> QED
    BY <1>1, <2>2, <2>3
<1>5. TypeOK /\ proposed = {}
  BY InitType DEF Init
<1> QED
  BY <1>2, <1>3, <1>4, <1>5 DEF ClearInv, NothingCleared

\* Draining the queue: without a trailer in it no incident is cleared.
LEMMA ClearProcess ==
    ASSUME TypeOK, NothingCleared, NEW r \in Honest,
           \/ ProcessCancel(r)
           \/ \E adopt \in BOOLEAN, primary \in MayLead(r) : ProcessOrder(r, adopt, primary)
    PROVE  NothingCleared'
<1> DEFINE d == Head(pending_orders[r])
<1>1. Dequeue(r) /\ UNCHANGED ledger
  BY DEF ProcessCancel, ProcessOrder, pbftVars
<1>2. /\ d \in Entry /\ ~d.clear
      /\ \A q \in Honest : \A i \in 1 .. Len(pending_orders'[q]) :
            ~pending_orders'[q][i].clear
  BY <1>1, ClearDequeue
<1>3. app[r] \in AppState /\ NoClear(app[r]) /\ app \in [Honest -> AppState]
  BY DEF TypeOK, NothingCleared
<1>4. ASSUME NEW s, NoClear(s), Update(r, s), \A p \in proposed' : ~p.entry.clear
      PROVE  NothingCleared'
  <2>1. \A q \in Honest : NoClear(app'[q])
    BY <1>3, <1>4 DEF Update, NothingCleared
  <2> HIDE DEF d
  <2> QED
    BY <1>1, <1>2, <1>4, <2>1 DEF NothingCleared, NoClear
<1>5. CASE ProcessCancel(r)
  <2>1. NoClear(CancelCommitDecision(app[r], d.epoch, d.reason))
    BY <1>2, <1>3, DecisionKeepsNoClear
  <2>2. /\ Update(r, CancelCommitDecision(app[r], d.epoch, d.reason))
        /\ UNCHANGED proposed
    BY <1>5 DEF ProcessCancel, pbftVars
  <2>3. \A p \in proposed' : ~p.entry.clear
    BY <2>2 DEF NothingCleared
  <2> QED
    BY <1>4, <2>1, <2>2, <2>3
<1>6. ASSUME NEW adopt \in BOOLEAN, NEW primary \in MayLead(r), ProcessOrder(r, adopt, primary)
      PROVE  NothingCleared'
  <2> DEFINE s == [app[r] EXCEPT !.view = d.epoch]
  <2>1. CASE SkipsOrder(app[r], d)
    <3>1. UNCHANGED <<app, proposed>>
      BY <1>6, <2>1 DEF ProcessOrder
    <3> HIDE DEF d
    <3> QED
      BY <1>1, <1>2, <3>1 DEF NothingCleared, NoClear
  <2>2. CASE ~SkipsOrder(app[r], d)
    <3>1. ~adopt
      BY <1>2, <1>6, <2>2 DEF ProcessOrder, TrailerAdopted
    <3>2. Update(r, ApplyOrder(s, r, d))
      BY <1>6, <2>2, <3>1 DEF ProcessOrder
    <3>3. UNCHANGED proposed
      BY <1>6, <2>2, <3>1 DEF ProcessOrder, Submit
    <3>4. \A p \in proposed' : ~p.entry.clear
      BY <3>3 DEF NothingCleared
    <3> HIDE DEF d
    <3>5. s \in AppState /\ NoClear(s)
      <4>1. s \in AppState
        <5>1. d.epoch \in Int
          BY <1>2 DEF Entry
        <5> QED
          BY <1>3, <5>1 DEF AppState
      <4>2. NoClear(s)
        BY <1>3 DEF AppState, NoClear
      <4> QED
        BY <4>1, <4>2
    <3>6. NoClear(ApplyOrder(s, r, d))
      BY <1>2, <3>5, DecisionKeepsNoClear
    <3> QED
      BY <1>4, <3>2, <3>4, <3>6
  <2> QED
    BY <2>1, <2>2
<1> QED
  BY <1>5, <1>6

\* A wreck in the box was there before the step: nobody crashes a second time.
LEMMA WreckStays ==
    ASSUME [Next]_vars, wreck' = "IN_BOX"
    PROVE  wreck = "IN_BOX"
<1>1. ASSUME NEW r \in Honest, AppStep(r) PROVE UNCHANGED wreck
  <2>1. ASSUME PerceiveCrash(r) \/ PerceiveAmbulance(r) PROVE UNCHANGED wreck
    BY <2>1 DEF PerceiveCrash, PerceiveAmbulance
  <2>2. ASSUME NEW e \in Epoch, NEW k \in Reason, NEW active \in ActiveBatches,
               HandleCancelEcho(r, e, k, active) \/ HandleCancelCert(r, e, k, active)
        PROVE  UNCHANGED wreck
    BY <2>2 DEF HandleCancelEcho, HandleCancelCert
  <2>3. ASSUME FinishCancelDrain(r) \/ CancelLeaseExpires(r) PROVE UNCHANGED wreck
    BY <2>3 DEF FinishCancelDrain, CancelLeaseExpires, SubmitCancelFrom
  <2>4. ASSUME ProcessCancel(r) PROVE UNCHANGED wreck
    BY <2>4 DEF ProcessCancel
  <2>5. ASSUME NEW adopt, NEW primary, ProcessOrder(r, adopt, primary) PROVE UNCHANGED wreck
    BY <2>5 DEF ProcessOrder
  <2>6. ASSUME NEW e, NEW k, HandleCancelCommitGossip(r, e, k) PROVE UNCHANGED wreck
    BY <2>6 DEF HandleCancelCommitGossip
  <2>7. ASSUME NEW d, HandleDecisionGossip(r, d) PROVE UNCHANGED wreck
    BY <2>7 DEF HandleDecisionGossip
  <2>8. ASSUME NEW primary, DiscoveryCompletes(r, primary) \/ PrimaryChange(r)
        PROVE  UNCHANGED wreck
    BY <2>8 DEF DiscoveryCompletes, PrimaryChange, EvaluateFrom
  <2>9. ASSUME NEW e, NEW primary, SendClearEcho(r, e) \/ HandleClearCert(r, e, primary)
        PROVE  UNCHANGED wreck
    BY <2>9 DEF SendClearEcho, HandleClearCert
  <2> QED
    BY <1>1, <2>1, <2>2, <2>3, <2>4, <2>5, <2>6, <2>7, <2>8, <2>9 DEF AppStep
<1>2. ASSUME NEW r, Execute(r) PROVE UNCHANGED wreck
  BY <1>2 DEF Execute
<1>3. ASSUME NEW p, CommitCancel(p) \/ CommitOrder(p) PROVE UNCHANGED wreck
  BY <1>3 DEF CommitCancel, CommitOrder, Commit
<1>4. ASSUME NEW v, NEW p, VoteOrder(v, p) \/ CommitUnchecked(p) PROVE UNCHANGED wreck
  BY <1>4 DEF VoteOrder, CommitUnchecked, Commit
<1>5. ASSUME UNCHANGED vars PROVE UNCHANGED wreck
  BY <1>5 DEF vars
<1>6. Protocol => UNCHANGED wreck
  BY <1>1, <1>2, <1>3, <1>4 DEF Protocol
<1>7. ~Tow
  BY DEF Tow
<1> QED
  BY <1>5, <1>6, <1>7 DEF Next

\* Every step keeps the evidence away while the wreck stands in the box.
LEMMA ClearNext == ClearInv /\ TypeOK' /\ [Next]_vars => ClearInv'
<1> SUFFICES ASSUME ClearInv, TypeOK', [Next]_vars, wreck' = "IN_BOX"
             PROVE  NothingCleared'
  BY DEF ClearInv
<1>a. wreck = "IN_BOX"
  BY WreckStays
<1>0. /\ TypeOK /\ NothingCleared
      /\ \A r \in Honest : app[r] \in AppState /\ NoClear(app[r])
  BY <1>a DEF ClearInv, TypeOK, NothingCleared
<1>c. \A r \in Honest : app[r] \in AppState
  BY <1>0
<1>b. ASSUME UNCHANGED proposed PROVE \A p \in proposed' : ~p.entry.clear
  BY <1>0, <1>b DEF NothingCleared
<1>1. ASSUME NEW r \in Honest, PerceiveCrash(r) PROVE NothingCleared'
  <2> DEFINE s == SendCancelEcho(app[r], app[r].last_committed, "CRASH")
  <2>1. app[r].last_committed \in Epoch /\ "CRASH" \in Reason
    BY <1>1, ConfigAssumption DEF PerceiveCrash, Epoch, Reason
  <2>2. NoClear(s)
    BY <1>0, <2>1, CertKeepsNoClear
  <2>3. Update(r, s) /\ UNCHANGED <<pending_orders, ledger, proposed>>
    BY <1>1 DEF PerceiveCrash, bridgeVars, pbftVars
  <2> HIDE DEF s
  <2> QED
    BY <1>0, <1>b, <2>2, <2>3, ClearFrame
<1>2. ASSUME NEW r \in Honest, PerceiveAmbulance(r) PROVE NothingCleared'
  <2> DEFINE t == [app[r] EXCEPT !.cancel_initiated = TRUE]
             s == SendCancelEcho(t, app[r].last_committed, "EMERGENCY")
  <2>1. app[r].last_committed \in Epoch /\ "EMERGENCY" \in Reason
    BY <1>2, ConfigAssumption DEF PerceiveAmbulance, Epoch, Reason
  <2>2. t \in AppState /\ NoClear(t)
    <3>1. t \in AppState
      <4>1. app[r] \in AppState
        BY <1>c
      <4> QED
        BY <4>1 DEF AppState
    <3>2. NoClear(t)
      BY <1>0 DEF NoClear, AppState
    <3> QED
      BY <3>1, <3>2
  <2>3. Update(r, s) /\ UNCHANGED <<pending_orders, ledger, proposed>>
    BY <1>2 DEF PerceiveAmbulance, bridgeVars, pbftVars
  <2> HIDE DEF t
  <2>4. NoClear(s)
    BY <2>1, <2>2, CertKeepsNoClear
  <2> HIDE DEF s
  <2> QED
    BY <1>0, <1>b, <2>3, <2>4, ClearFrame
<1>3. ASSUME NEW r \in Honest, NEW e \in Epoch, NEW k \in Reason, NEW active,
             HandleCancelEcho(r, e, k, active) \/ HandleCancelCert(r, e, k, active)
      PROVE  NothingCleared'
  <2> DEFINE seen == [RegisterBlocked(app[r], e, k) EXCEPT !.cert_seen = @ \cup {<<e, k>>}]
             s == HandleValidCancelJustification(seen, e, k, active)
  <2>1. seen \in AppState /\ NoClear(seen)
    BY <1>0, SeenType, CertKeepsNoClear
  <2>2. /\ UNCHANGED <<pending_orders, ledger, proposed>>
        /\ AcceptCancelCert(r, e, k, active)
    BY <1>3 DEF HandleCancelEcho, HandleCancelCert, bridgeVars, pbftVars
  <2>3. Update(r, seen) \/ Update(r, s)
    BY <2>2 DEF AcceptCancelCert
  <2> HIDE DEF seen
  <2>4. NoClear(s)
    BY <2>1, CertKeepsNoClear
  <2> HIDE DEF s
  <2> QED
    BY <1>0, <1>b, <2>1, <2>2, <2>3, <2>4, ClearFrame
<1>4. ASSUME NEW r \in Honest, NEW t \in AppState, NoClear(t), SubmitCancelFrom(r, t)
      PROVE  NothingCleared'
  <2> DEFINE d == Cancel(t.cancelled_epoch, t.reason)
             ok == ProposesCancel(t, r) /\ CancelViewAccepted(t, r)
  <2>1. NoClear(TrySubmitCancel(t, r))
    BY <1>4, ProposerKeepsNoClear
  <2>2. /\ Update(r, TrySubmitCancel(t, r)) /\ Submit(r, d, ok)
        /\ UNCHANGED <<pending_orders, ledger>>
    BY <1>4 DEF SubmitCancelFrom
  <2>3. ~d.clear
    BY DEF Cancel
  <2> HIDE DEF d, ok
  <2>4. \A p \in proposed' : ~p.entry.clear
    BY <1>0, <2>2, <2>3, SubmitUnclear
  <2> QED
    BY <1>0, <2>1, <2>2, <2>4, ClearFrame
<1>5. ASSUME NEW r \in Honest, FinishCancelDrain(r) \/ CancelLeaseExpires(r)
      PROVE  NothingCleared'
  <2>1. CASE FinishCancelDrain(r)
    <3> DEFINE t == [app[r] EXCEPT !.cancel_state = "CONSENSUS"]
    <3>1. t \in AppState
      BY <1>0 DEF AppState, CancelPhase
    <3>2. NoClear(t)
      BY <1>0 DEF AppState, NoClear
    <3> QED
      BY <1>4, <2>1, <3>1, <3>2 DEF FinishCancelDrain
  <2>2. CASE CancelLeaseExpires(r)
    <3> DEFINE t == [app[r] EXCEPT !.lease = FALSE, !.rotation = @ + 1,
                                   !.cancel_submitted = FALSE, !.propose_submitted = FALSE]
    <3>1. t \in AppState
      <4>1. app[r] \in AppState
        BY <1>c
      <4>2. app[r].rotation + 1 \in Nat
        BY <4>1 DEF AppState
      <4> QED
        BY <4>1, <4>2 DEF AppState
    <3>2. NoClear(t)
      BY <1>0 DEF AppState, NoClear
    <3> QED
      BY <1>4, <2>2, <3>1, <3>2 DEF CancelLeaseExpires
  <2> QED
    BY <1>5, <2>1, <2>2
<1>6. ASSUME NEW p \in proposed, CommitCancel(p) \/ CommitOrder(p) PROVE NothingCleared'
  BY <1>0, <1>6, ClearCommit DEF CommitCancel, CommitOrder, NothingCleared, TypeOK
<1>7. ASSUME NEW v \in Honest, NEW p \in proposed, VoteOrder(v, p) PROVE NothingCleared'
  BY <1>0, <1>7, ClearSame DEF VoteOrder, bridgeVars
<1>8. ASSUME NEW r \in Honest, Execute(r) PROVE NothingCleared'
  <2> DEFINE d == ledger[executed[r] + 1]
  <2>1. executed[r] + 1 \in 1 .. Len(ledger)
    BY <1>0, <1>8 DEF Execute, TypeOK
  <2>2. d \in Entry /\ ~d.clear
    BY <1>0, <2>1 DEF TypeOK, NothingCleared
  <2>3. /\ pending_orders' = [pending_orders EXCEPT ![r] = Append(@, d)]
        /\ UNCHANGED <<app, proposed, ledger>>
    BY <1>8 DEF Execute, pbftVars
  <2> HIDE DEF d
  <2>4. \A q \in Honest : \A i \in 1 .. Len(pending_orders'[q]) :
           ~pending_orders'[q][i].clear
    BY <1>0, <2>2, <2>3, ClearAppend
  <2> QED
    BY <1>0, <2>3, <2>4 DEF NothingCleared, NoClear
<1>9. ASSUME NEW r \in Honest,
             \/ ProcessCancel(r)
             \/ \E adopt \in BOOLEAN, primary \in MayLead(r) : ProcessOrder(r, adopt, primary)
      PROVE  NothingCleared'
  BY <1>0, <1>9, ClearProcess
<1>10. ASSUME NEW r \in Honest, NEW e \in Epoch, NEW k \in Reason,
              HandleCancelCommitGossip(r, e, k)
       PROVE  NothingCleared'
  <2> DEFINE s == CancelGossipAdoption(app[r], e, k)
  <2>1. Update(r, s) /\ UNCHANGED <<pending_orders, ledger, proposed>>
    BY <1>10 DEF HandleCancelCommitGossip, pbftVars
  <2>2. ~Order(0, FALSE).clear
    BY DEF Order
  <2>3. NoClear(s)
    BY <1>0, <2>2, DecisionKeepsNoClear
  <2> HIDE DEF s
  <2> QED
    BY <1>0, <1>b, <2>1, <2>3, ClearFrame
<1>11. ASSUME NEW r \in Honest, NEW e \in Epoch, NEW clear \in BOOLEAN,
              HandleDecisionGossip(r, Order(e, clear))
       PROVE  NothingCleared'
  <2> DEFINE d == Order(e, clear)
             s == [app[r] EXCEPT !.last_committed = d.epoch]
  <2>1. d \in Entry /\ ~d.clear
    BY <1>0, <1>11, EpochIsNat, EntryTypes, NoClearCarried DEF HandleDecisionGossip
  <2>2. /\ Update(r, s) /\ UNCHANGED <<ledger, proposed>>
        /\ pending_orders' = [pending_orders EXCEPT ![r] = Append(@, d)]
    BY <1>11 DEF HandleDecisionGossip, pbftVars
  <2>3. NoClear(s)
    BY <1>0 DEF NoClear, AppState
  <2> HIDE DEF s
  <2>4. \A q \in Honest : \A i \in 1 .. Len(pending_orders'[q]) :
           ~pending_orders'[q][i].clear
    BY <1>0, <2>1, <2>2, ClearAppend
  <2>5. \A q \in Honest : NoClear(app'[q])
    BY <1>0, <2>2, <2>3 DEF Update, TypeOK
  <2> QED
    BY <1>0, <2>2, <2>4, <2>5 DEF NothingCleared, NoClear
<1>12. ASSUME NEW r \in Honest, NEW t \in AppState, NoClear(t), NEW primary,
              EvaluateFrom(r, t, primary)
       PROVE  NothingCleared'
  <2>1. NoClear(EvaluateOrderReadiness(t, primary)) /\ ~OrderOf(t).clear
    BY <1>12, ReadinessKeepsNoClear
  <2>2. /\ Update(r, EvaluateOrderReadiness(t, primary))
        /\ Submit(r, OrderOf(t), SubmitsOrder(t, primary))
        /\ UNCHANGED <<pending_orders, ledger>>
    BY <1>12 DEF EvaluateFrom
  <2>3. \A p \in proposed' : ~p.entry.clear
    BY <1>0, <2>1, <2>2, SubmitUnclear
  <2> QED
    BY <1>0, <2>1, <2>2, <2>3, ClearFrame
<1>13. ASSUME NEW r \in Honest,
              \/ \E primary \in MayLead(r) : DiscoveryCompletes(r, primary)
              \/ PrimaryChange(r)
       PROVE  NothingCleared'
  <2> DEFINE t == [app[r] EXCEPT !.discovery = "COMPLETE"]
  <2>1. t \in AppState
    BY <1>0 DEF AppState, DiscoveryState
  <2>2. NoClear(t)
    BY <1>0 DEF AppState, NoClear
  <2>3. \E primary : EvaluateFrom(r, t, primary) \/ EvaluateFrom(r, app[r], primary)
    BY <1>13 DEF DiscoveryCompletes, PrimaryChange
  <2> HIDE DEF t
  <2> QED
    BY <1>0, <1>12, <2>1, <2>2, <2>3
<1>14. ASSUME NEW r \in Honest, NEW e \in Epoch, SendClearEcho(r, e) PROVE NothingCleared'
  BY <1>a, <1>14 DEF SendClearEcho
<1>15. ASSUME NEW r \in Honest, NEW e \in Epoch, NEW primary, HandleClearCert(r, e, primary)
       PROVE  NothingCleared'
  BY <1>0, <1>15, NoClearCert DEF HandleClearCert
<1>16. CASE Tow
  BY <1>a, <1>16 DEF Tow
<1>17. CASE UNCHANGED vars
  BY <1>0, <1>17, ClearSame DEF vars, bridgeVars, pbftVars
<1>18. ASSUME NEW leader \in Faulty, NEW d \in Decisions,
              CommitUnchecked([entry |-> d, leader |-> leader, seq |-> Len(ledger) + 1])
       PROVE  NothingCleared'
  <2> DEFINE p == [entry |-> d, leader |-> leader, seq |-> Len(ledger) + 1]
  <2>1. p \in Proposal
    BY <1>0, DecisionsAreEntries, ReplicaAssumption DEF Proposal, TypeOK
  <2>2. ~p.entry.clear
    BY <1>0, <1>18, NoClearCarried DEF CommitUnchecked
  <2> QED
    BY <1>0, <1>18, <2>1, <2>2, ClearCommit DEF CommitUnchecked
<1> QED
  BY <1>1, <1>2, <1>3, <1>5, <1>6, <1>7, <1>8, <1>9, <1>10, <1>11, <1>13, <1>14, <1>15,
     <1>16, <1>17, <1>18, ReasonsAreReasons DEF Next, Protocol, AppStep

\* A vehicle believes the incident cleared only once the box is empty: the first CLEAR
\* echo of an honest vehicle follows the dwell over an empty box, a certificate needs an
\* honest echo, a trailer needs a certificate, and whoever believes has seen one of them.
THEOREM ClearedIsEmpty == Spec => []ClearedMeansEmpty
<1>1. ClearInv => ClearedMeansEmpty
  BY DEF ClearInv, NothingCleared, NoClear, ClearedMeansEmpty
<1> QED
  BY <1>1, ClearInit, ClearNext, TypeCorrect, PTL DEF Spec

-----------------------------------------------------------------------------
(* Epochs: a vehicle works for epoch e+1 only once it has tombstoned epoch e *)

\* The epoch before the current one is tombstoned, and the cancelled one is an epoch.
Serving(s) ==
    /\ s.cancelled_epoch \in Epoch
    /\ s.current_epoch > 0 => Tombstoned(s, s.current_epoch - 1)

\* A CANCEL names an epoch and an incident.
Named(d) == d.kind = "CANCEL" => d.epoch \in Epoch /\ d.reason \in Reason

\* An ORDER of a recovery epoch has its CANCEL in the ledger.
Follows(d) ==
    d.kind = "ORDER" /\ d.epoch > 0 => \E k \in Reason : Decided(Cancel(d.epoch - 1, k))

RecoveryInv ==
    /\ AdoptionInv
    /\ \A r \in Honest : Serving(app[r])
    /\ \A r \in Honest : \A i \in 1 .. Len(pending_orders[r]) : Named(pending_orders[r][i])
    /\ \A p \in proposed : Named(p.entry) /\ Follows(p.entry)
    /\ \A i \in 1 .. Len(ledger) : Named(ledger[i])
    /\ RecoveriesFollow

\* Certificates move the cancelled epoch within the epochs, and nothing else.
LEMMA CertKeepsServing ==
    ASSUME NEW s \in AppState, Serving(s), NEW e \in Epoch, NEW k \in Reason, NEW active
    PROVE  /\ Serving(SendCancelEcho(s, e, k))
           /\ Serving([RegisterBlocked(s, e, k) EXCEPT !.cert_seen = @ \cup {<<e, k>>}])
           /\ Serving(HandleValidCancelJustification(s, e, k, active))
<1>1. Serving(SendCancelEcho(s, e, k))
  BY DEF SendCancelEcho, Serving, Tombstoned, AppState
<1>2. Serving([RegisterBlocked(s, e, k) EXCEPT !.cert_seen = @ \cup {<<e, k>>}])
  BY DEF RegisterBlocked, Serving, Tombstoned, AppState
<1>3. Serving(HandleValidCancelJustification(s, e, k, active))
  BY DEF HandleValidCancelJustification, BeginCancelDrain, Serving, Tombstoned, AppState
<1> QED
  BY <1>1, <1>2, <1>3

\* Proposing a CANCEL and evaluating readiness move no epoch.
LEMMA ReadinessKeepsServing ==
    ASSUME NEW s \in AppState, Serving(s), NEW r, NEW primary, NEW i
    PROVE  /\ Serving(TrySubmitCancel(s, r))
           /\ Serving(EvaluateOrderReadiness(s, primary))
           /\ Serving(ClearIncident(s, i))
           /\ Serving(OnIncidentCleared(s, i, primary))
<1>1. Serving(TrySubmitCancel(s, r))
  BY DEF TrySubmitCancel, Serving, Tombstoned, AppState
<1>2. ASSUME NEW t \in AppState, Serving(t)
      PROVE  Serving(EvaluateOrderReadiness(t, primary))
  BY <1>2 DEF EvaluateOrderReadiness, Freeze, Serving, Tombstoned, AppState
<1>3. ClearIncident(s, i) \in AppState
  BY DEF ClearIncident, AppState, IncidentState
<1>4. Serving(ClearIncident(s, i))
  BY DEF ClearIncident, Serving, Tombstoned, AppState
<1>5. Serving(OnIncidentCleared(s, i, primary))
  BY <1>2, <1>3, <1>4 DEF OnIncidentCleared
<1>6. Serving(EvaluateOrderReadiness(s, primary))
  BY <1>2
<1> QED
  BY <1>1, <1>4, <1>5, <1>6

\* Learning of CANCEL(e) tombstones e before it moves to e+1.
LEMMA CancelKeepsServing ==
    ASSUME NEW s \in AppState, Serving(s), NEW e \in Epoch, NEW k \in Reason
    PROVE  /\ Serving(CancelCommitDecision(s, e, k))
           /\ Serving(CancelGossipAdoption(s, e, k))
<1>1. e \in Nat /\ s.cancels \in [Epoch -> Reason \cup {"NONE"}] /\ k # "NONE"
  BY EpochIsNat DEF AppState, Reason
<1>2. ASSUME NEW t \in AppState, NEW j, t.cancels = [s.cancels EXCEPT ![e] = k],
             t.cancelled_epoch = s.cancelled_epoch, t.current_epoch = s.current_epoch
      PROVE  Serving(BeginPostCancelDiscovery(t, e, j))
  <2>1. \A f \in Epoch : f = e \/ s.cancels[f] # "NONE" => t.cancels[f] # "NONE"
    BY <1>1, <1>2
  <2>2. CASE t.cancel_pending /\ t.cancelled_epoch = e
    BY <1>2, <2>1, <2>2 DEF BeginPostCancelDiscovery, Serving, Tombstoned
  <2>3. CASE ~(t.cancel_pending /\ t.cancelled_epoch = e)
    <3> DEFINE u == BeginPostCancelDiscovery(t, e, j)
    <3>1. u.cancelled_epoch = e /\ u.current_epoch = e + 1 /\ u.cancels = t.cancels
      BY <2>3 DEF BeginPostCancelDiscovery, AppState
    <3> HIDE DEF u
    <3>2. u.current_epoch - 1 = e
      BY <1>1, <3>1
    <3>3. Serving(u)
      BY <2>1, <3>1, <3>2 DEF Serving, Tombstoned
    <3> QED
      BY <3>3 DEF u
  <2> QED
    BY <2>2, <2>3
<1>3. Serving(CancelCommitDecision(s, e, k))
  <2> DEFINE t == [s EXCEPT !.cancels[e] = k, !.consensus_pending = FALSE,
                            !.cancel_submitted = FALSE, !.cancel_state = "COMMITTED",
                            !.cancel_initiated = FALSE, !.lease = FALSE]
  <2>1. t \in AppState
    BY <1>1 DEF AppState, CancelPhase
  <2>2. /\ t.cancels = [s.cancels EXCEPT ![e] = k]
        /\ t.cancelled_epoch = s.cancelled_epoch /\ t.current_epoch = s.current_epoch
    BY DEF AppState
  <2>3. CancelCommitDecision(s, e, k) = BeginPostCancelDiscovery(t, e, s.reason)
    BY DEF CancelCommitDecision
  <2> HIDE DEF t
  <2> QED
    BY <1>2, <2>1, <2>2, <2>3
<1>4. Serving(CancelGossipAdoption(s, e, k))
  <2> DEFINE t == [s EXCEPT !.cancels[e] = k, !.consensus_pending = FALSE,
                            !.cancel_submitted = FALSE, !.cancel_state = "COMMITTED"]
  <2>1. t \in AppState
    BY <1>1 DEF AppState, CancelPhase
  <2>2. /\ t.cancels = [s.cancels EXCEPT ![e] = k]
        /\ t.cancelled_epoch = s.cancelled_epoch /\ t.current_epoch = s.current_epoch
    BY DEF AppState
  <2>3. CancelGossipAdoption(s, e, k) = BeginPostCancelDiscovery(t, e, k)
    BY DEF CancelGossipAdoption
  <2> HIDE DEF t
  <2> QED
    BY <1>2, <2>1, <2>2, <2>3
<1> QED
  BY <1>3, <1>4

\* Applying an ORDER moves no epoch the recovery works with.
LEMMA ApplyKeepsServing ==
    ASSUME NEW s \in AppState, Serving(s), NEW r, NEW d
    PROVE  Serving(ApplyOrder(s, r, d))
<1>1. Serving(EndRecovery(s, d.epoch))
  BY DEF EndRecovery, Serving, Tombstoned, AppState
<1>2. ASSUME NEW t \in AppState, Serving(t)
      PROVE  Serving(CommitOrderLocally(t, r, d))
  BY <1>2 DEF CommitOrderLocally, Serving, Tombstoned, AppState
<1> QED
  BY <1>1, <1>2, EndRecoveryType DEF ApplyOrder

\* The ORDER a vehicle would propose has its CANCEL in the ledger, because the
\* vehicle's tombstones stand for ordered CANCELs.
LEMMA OrderFollows ==
    ASSUME AdoptionInv, NEW r \in Honest, NEW t \in AppState, Serving(t),
           t.cancels = app[r].cancels
    PROVE  Named(OrderOf(t)) /\ Follows(OrderOf(t))
<1>1. OrderOf(t).kind = "ORDER" /\ OrderOf(t).epoch = t.current_epoch
  BY DEF OrderOf, Order
<1>2. ASSUME t.current_epoch > 0
      PROVE  \E k \in Reason : Decided(Cancel(t.current_epoch - 1, k))
  <2> DEFINE e == t.current_epoch - 1
  <2>1. e \in Epoch /\ app[r].cancels[e] # "NONE"
    BY <1>2 DEF Serving, Tombstoned
  <2>2. app[r].cancels[e] \in Reason
    <3>1. app[r].cancels \in [Epoch -> Reason \cup {"NONE"}]
      BY DEF AdoptionInv, TypeOK, AppState
    <3> QED
      BY <2>1, <3>1
  <2>3. Decided(Cancel(e, app[r].cancels[e]))
    BY <2>1 DEF AdoptionInv, TombstonesDecided
  <2> QED
    BY <2>2, <2>3
<1> QED
  BY <1>1, <1>2 DEF Named, Follows

\* A step of one app, with what it queues and proposes, that keeps the epochs served.
LEMMA RecoveryFrame ==
    ASSUME RecoveryInv, AdoptionInv', NEW r \in Honest, NEW s, Serving(s), Update(r, s),
           UNCHANGED ledger,
           \A q \in Honest : \A i \in 1 .. Len(pending_orders'[q]) :
              Named(pending_orders'[q][i]),
           \A p \in proposed' : Named(p.entry) /\ Follows(p.entry)
    PROVE  RecoveryInv'
<1>1. \A q \in Honest : app'[q] = IF q = r THEN s ELSE app[q]
  BY DEF RecoveryInv, AdoptionInv, TypeOK, Update
<1>2. \A q \in Honest : Serving(app'[q])
  BY <1>1 DEF RecoveryInv
<1>3. RecoveriesFollow'
  BY DEF RecoveryInv, RecoveriesFollow
<1> QED
  BY <1>2, <1>3 DEF RecoveryInv, Serving, Tombstoned, Named, Follows, Decided

\* A step that leaves apps and ledger alone.
LEMMA RecoverySame ==
    ASSUME RecoveryInv, AdoptionInv', UNCHANGED <<app, proposed, ledger>>,
           \A q \in Honest : \A i \in 1 .. Len(pending_orders'[q]) :
              Named(pending_orders'[q][i])
    PROVE  RecoveryInv'
<1>1. RecoveriesFollow'
  BY DEF RecoveryInv, RecoveriesFollow
<1> QED
  BY <1>1 DEF RecoveryInv, Serving, Tombstoned, Named, Follows, Decided

\* A submission adds only its own entry to the proposals.
LEMMA SubmitFollows ==
    ASSUME RecoveryInv, NEW r, NEW d, NEW ok, Submit(r, d, ok), Named(d) /\ Follows(d)
    PROVE  \A p \in proposed' : Named(p.entry) /\ Follows(p.entry)
BY DEF Submit, RecoveryInv

\* PBFT orders what was proposed: an ORDER comes after the CANCEL it followed then.
LEMMA RecoveryCommit ==
    ASSUME RecoveryInv, AdoptionInv', NEW p \in proposed, Commit(p)
    PROVE  RecoveryInv'
<1> DEFINE n == Len(ledger)
<1>1. /\ p.entry \in Entry /\ ledger \in Seq(Entry)
      /\ Named(p.entry) /\ Follows(p.entry)
  BY DEF RecoveryInv, AdoptionInv, TypeOK, Proposal
<1>2. /\ UNCHANGED <<app, pending_orders>> /\ proposed' \subseteq proposed
      /\ ledger' = Append(ledger, p.entry)
  BY DEF Commit, bridgeVars
<1>3. /\ n \in Nat /\ Len(ledger') = n + 1 /\ ledger'[n + 1] = p.entry
      /\ \A i \in 1 .. n : ledger'[i] = ledger[i]
  BY <1>1, <1>2
<1> HIDE DEF n
<1>4. \A i \in 1 .. n + 1 : i \in 1 .. n \/ i = n + 1
  BY <1>3
<1>5. \A i \in 1 .. Len(ledger') : Named(ledger'[i])
  BY <1>1, <1>3, <1>4 DEF RecoveryInv, n
<1>6. RecoveriesFollow'
  <2>1. ASSUME NEW i \in 1 .. n + 1, ledger'[i].kind = "ORDER", ledger'[i].epoch > 0
        PROVE  \E j \in 1 .. i - 1 : /\ ledger'[j].kind = "CANCEL"
                                     /\ ledger'[j].epoch = ledger'[i].epoch - 1
    <3>1. CASE i \in 1 .. n
      <4>1. ledger[i].kind = "ORDER" /\ ledger[i].epoch > 0
        BY <1>3, <2>1, <3>1
      <4>2. PICK j \in 1 .. i - 1 : /\ ledger[j].kind = "CANCEL"
                                    /\ ledger[j].epoch = ledger[i].epoch - 1
        BY <3>1, <4>1 DEF RecoveryInv, RecoveriesFollow, n
      <4>3. j \in 1 .. n
        BY <1>3, <3>1
      <4> QED
        BY <1>3, <3>1, <4>2, <4>3
    <3>2. CASE i = n + 1
      <4>1. PICK k \in Reason : Decided(Cancel(p.entry.epoch - 1, k))
        BY <1>1, <1>3, <2>1, <3>2 DEF Follows
      <4>2. PICK j \in 1 .. n : ledger[j] = Cancel(p.entry.epoch - 1, k)
        BY <4>1 DEF Decided, n
      <4>3. ledger'[j].kind = "CANCEL" /\ ledger'[j].epoch = p.entry.epoch - 1
        BY <1>3, <4>2 DEF Cancel
      <4>4. j \in 1 .. i - 1
        BY <1>3, <3>2
      <4> QED
        BY <1>3, <3>2, <4>3, <4>4
    <3> QED
      BY <1>4, <3>1, <3>2
  <2> QED
    BY <1>3, <2>1 DEF RecoveriesFollow
<1>7. \A q \in proposed' : Named(q.entry) /\ Follows(q.entry)'
  <2>1. \A d : Decided(d) => Decided(d)'
    BY DecidedGrows DEF RecoveryInv, AdoptionInv
  <2> QED
    BY <1>2, <2>1 DEF RecoveryInv, Follows
<1> QED
  BY <1>2, <1>5, <1>6, <1>7 DEF RecoveryInv, Serving, Tombstoned, Named

\* Appending to a queue an entry that is named.
LEMMA RecoveryAppend ==
    ASSUME RecoveryInv, NEW r \in Honest, NEW d \in Entry, Named(d),
           pending_orders' = [pending_orders EXCEPT ![r] = Append(@, d)]
    PROVE  \A q \in Honest : \A i \in 1 .. Len(pending_orders'[q]) :
              Named(pending_orders'[q][i])
<1>1. ASSUME NEW q \in Honest, NEW i \in 1 .. Len(pending_orders'[q])
      PROVE  pending_orders'[q][i] = d \/ /\ i \in 1 .. Len(pending_orders[q])
                                          /\ pending_orders'[q][i] = pending_orders[q][i]
  <2>1. pending_orders \in [Honest -> Seq(Entry)]
    BY DEF RecoveryInv, AdoptionInv, TypeOK
  <2>2. CASE q = r
    BY <2>1, <2>2
  <2>3. CASE q # r
    BY <2>1, <2>3
  <2> QED
    BY <2>2, <2>3
<1> QED
  BY <1>1 DEF RecoveryInv

\* Taking the head of a queue leaves the others named.
LEMMA RecoveryDequeue ==
    ASSUME RecoveryInv, NEW r \in Honest, Dequeue(r)
    PROVE  /\ Head(pending_orders[r]) \in Entry /\ Named(Head(pending_orders[r]))
           /\ \A q \in Honest : \A i \in 1 .. Len(pending_orders'[q]) :
                 Named(pending_orders'[q][i])
<1>1. pending_orders \in [Honest -> Seq(Entry)] /\ pending_orders[r] # <<>>
  BY DEF Dequeue, RecoveryInv, AdoptionInv, TypeOK
<1>2. Head(pending_orders[r]) \in Entry /\ Named(Head(pending_orders[r]))
  <2>1. 1 \in 1 .. Len(pending_orders[r])
        /\ Head(pending_orders[r]) = pending_orders[r][1]
    BY <1>1
  <2> QED
    BY <1>1, <2>1 DEF RecoveryInv
<1>3. ASSUME NEW q \in Honest, NEW i \in 1 .. Len(pending_orders'[q])
      PROVE  \E j \in 1 .. Len(pending_orders[q]) :
                pending_orders'[q][i] = pending_orders[q][j]
  <2>1. CASE q = r
    <3>1. pending_orders'[r] = Tail(pending_orders[r])
      BY <1>1 DEF Dequeue
    <3>2. i + 1 \in 1 .. Len(pending_orders[r])
          /\ pending_orders'[r][i] = pending_orders[r][i + 1]
      BY <1>1, <2>1, <3>1
    <3> QED
      BY <2>1, <3>2
  <2>2. CASE q # r
    BY <1>1, <2>2 DEF Dequeue
  <2> QED
    BY <2>1, <2>2
<1>4. ASSUME NEW q \in Honest, NEW i \in 1 .. Len(pending_orders'[q])
      PROVE  Named(pending_orders'[q][i])
  <2>1. PICK j \in 1 .. Len(pending_orders[q]) :
           pending_orders'[q][i] = pending_orders[q][j]
    BY <1>3
  <2>2. Named(pending_orders[q][j])
    BY DEF RecoveryInv
  <2> QED
    BY <2>1, <2>2
<1> QED
  BY <1>2, <1>4

\* Init: every vehicle serves epoch 0, and the ledger holds ORDER(0) only.
LEMMA RecoveryInit == Init => RecoveryInv
<1> SUFFICES ASSUME Init PROVE RecoveryInv
  OBVIOUS
<1>1. \A r \in Honest : Serving(app[r])
  <2>1. 0 \in Epoch
    BY ConfigAssumption DEF Epoch
  <2>2. \A r \in Honest : app[r].cancelled_epoch = 0 /\ app[r].current_epoch = 0
    BY DEF Init, InitialApp
  <2> QED
    BY <2>1, <2>2 DEF Serving
<1>2. \A r \in Honest : 1 .. Len(pending_orders[r]) = {}
  <2>1. \A r \in Honest : Len(pending_orders[r]) = 0
    BY DEF Init
  <2>2. 1 .. 0 = {}
    OBVIOUS
  <2> QED
    BY <2>1, <2>2
<1>3. \A i \in 1 .. Len(ledger) : ledger[i].kind = "ORDER" /\ ledger[i].epoch = 0
  <2>1. Order(0, FALSE).kind = "ORDER" /\ Order(0, FALSE).epoch = 0
    BY DEF Order
  <2>2. ASSUME NEW d
        PROVE  Len(<<d>>) = 1 /\ <<d>>[1] = d
    OBVIOUS
  <2>3. Len(ledger) = 1 /\ ledger[1] = Order(0, FALSE)
    BY <2>2 DEF Init
  <2>4. \A i \in 1 .. 1 : i = 1
    OBVIOUS
  <2> QED
    BY <2>1, <2>3, <2>4
<1>4. RecoveriesFollow
  BY <1>3 DEF RecoveriesFollow
<1>5. proposed = {}
  BY DEF Init
<1> QED
  BY <1>1, <1>2, <1>3, <1>4, <1>5, AdoptionInit DEF RecoveryInv, Named

\* Draining the queue: a CANCEL tombstones before it moves the epoch, an ORDER ends a
\* recovery and may, with its trailer, start a proposal for the current epoch.
LEMMA RecoveryProcess ==
    ASSUME RecoveryInv, AdoptionInv', NEW r \in Honest,
           \/ ProcessCancel(r)
           \/ \E adopt \in BOOLEAN, primary \in MayLead(r) : ProcessOrder(r, adopt, primary)
    PROVE  RecoveryInv'
<1> DEFINE d == Head(pending_orders[r])
<1>1. Dequeue(r) /\ UNCHANGED ledger
  BY DEF ProcessCancel, ProcessOrder, pbftVars
<1>2. /\ d \in Entry /\ Named(d)
      /\ \A q \in Honest : \A i \in 1 .. Len(pending_orders'[q]) :
            Named(pending_orders'[q][i])
  BY <1>1, RecoveryDequeue
<1>3. app[r] \in AppState /\ Serving(app[r])
  BY DEF RecoveryInv, AdoptionInv, TypeOK
<1>4. CASE ProcessCancel(r)
  <2> DEFINE s == CancelCommitDecision(app[r], d.epoch, d.reason)
  <2>1. d.epoch \in Epoch /\ d.reason \in Reason
    BY <1>2, <1>4 DEF ProcessCancel, Named
  <2>2. Serving(s)
    BY <1>3, <2>1, CancelKeepsServing
  <2>3. Update(r, s) /\ UNCHANGED proposed
    BY <1>4 DEF ProcessCancel, pbftVars
  <2> HIDE DEF s, d
  <2>4. \A p \in proposed' : Named(p.entry) /\ Follows(p.entry)
    BY <2>3 DEF RecoveryInv
  <2> QED
    BY <1>1, <1>2, <2>2, <2>3, <2>4, RecoveryFrame
<1>5. ASSUME NEW adopt \in BOOLEAN, NEW primary \in MayLead(r), ProcessOrder(r, adopt, primary)
      PROVE  RecoveryInv'
  <2> DEFINE s == [app[r] EXCEPT !.view = d.epoch]
             e == d.epoch - 1
             cleared == ClearIncident(s, e)
             submits == adopt /\ ClearTriggers(s, e) /\ SubmitsOrder(cleared, primary)
             t == IF adopt THEN OnIncidentCleared(s, e, primary) ELSE s
             u == ApplyOrder(t, r, d)
  <2>1. primary \in BOOLEAN
    BY DEF MayLead
  <2>2. CASE SkipsOrder(app[r], d)
    <3>1. UNCHANGED <<app, proposed>>
      BY <1>5, <2>2 DEF ProcessOrder
    <3> HIDE DEF d
    <3> QED
      BY <1>1, <1>2, <3>1, RecoverySame
  <2>3. CASE ~SkipsOrder(app[r], d)
    <3>1. Update(r, u) /\ Submit(r, OrderOf(cleared), submits)
      BY <1>5, <2>3 DEF ProcessOrder
    <3>2. s \in AppState /\ Serving(s) /\ s.cancels = app[r].cancels
      <4>1. d.epoch \in Int
        BY <1>2 DEF Entry
      <4> HIDE DEF d
      <4>2. s \in AppState
        BY <1>3, <4>1 DEF AppState
      <4>3. Serving(s) /\ s.cancels = app[r].cancels
        BY <1>3 DEF Serving, Tombstoned, AppState
      <4> QED
        BY <4>2, <4>3
    <3> HIDE DEF s
    <3>3. cleared \in AppState /\ Serving(cleared) /\ cleared.cancels = app[r].cancels
      <4>1. cleared \in AppState
        BY <3>2, <2>1, ClearType
      <4>2. Serving(cleared)
        BY <3>2, ReadinessKeepsServing
      <4>3. cleared.cancels = s.cancels
        BY <3>2 DEF ClearIncident, AppState
      <4> QED
        BY <3>2, <4>1, <4>2, <4>3
    <3>4. t \in AppState /\ Serving(t)
      BY <2>1, <3>2, ClearType, ReadinessKeepsServing
    <3> HIDE DEF t, cleared, submits
    <3>5. Serving(u)
      BY <3>4, ApplyKeepsServing
    <3>6. Named(OrderOf(cleared)) /\ Follows(OrderOf(cleared))
      BY <3>3, OrderFollows DEF RecoveryInv
    <3>7. \A p \in proposed' : Named(p.entry) /\ Follows(p.entry)
      BY <3>1, <3>6, SubmitFollows
    <3> HIDE DEF u, d
    <3> QED
      BY <1>1, <1>2, <3>1, <3>5, <3>7, RecoveryFrame
  <2> QED
    BY <2>2, <2>3
<1> QED
  BY <1>4, <1>5

\* Every step keeps recovery ORDERs behind their CANCELs.
LEMMA RecoveryNext == RecoveryInv /\ AdoptionInv' /\ [Next]_vars => RecoveryInv'
<1> SUFFICES ASSUME RecoveryInv, AdoptionInv', [Next]_vars PROVE RecoveryInv'
  OBVIOUS
<1>0. \A r \in Honest : app[r] \in AppState
  BY DEF RecoveryInv, AdoptionInv, TypeOK
<1>a. \A r \in Honest : Serving(app[r])
  BY DEF RecoveryInv
<1>b. ASSUME UNCHANGED proposed
      PROVE  \A p \in proposed' : Named(p.entry) /\ Follows(p.entry)
  BY <1>b DEF RecoveryInv
<1>c. ASSUME UNCHANGED pending_orders
      PROVE  \A q \in Honest : \A i \in 1 .. Len(pending_orders'[q]) :
                Named(pending_orders'[q][i])
  BY <1>c DEF RecoveryInv
<1>1. ASSUME NEW r \in Honest, PerceiveCrash(r) PROVE RecoveryInv'
  <2> DEFINE s == SendCancelEcho(app[r], app[r].last_committed, "CRASH")
  <2>1. app[r].last_committed \in Epoch /\ "CRASH" \in Reason
    BY <1>1, ConfigAssumption DEF PerceiveCrash, Epoch, Reason
  <2>2. Serving(s)
    BY <1>0, <1>a, <2>1, CertKeepsServing
  <2>3. Update(r, s) /\ UNCHANGED <<pending_orders, ledger, proposed>>
    BY <1>1 DEF PerceiveCrash, bridgeVars, pbftVars
  <2> HIDE DEF s
  <2> QED
    BY <1>b, <1>c, <2>2, <2>3, RecoveryFrame
<1>2. ASSUME NEW r \in Honest, PerceiveAmbulance(r) PROVE RecoveryInv'
  <2> DEFINE t == [app[r] EXCEPT !.cancel_initiated = TRUE]
             s == SendCancelEcho(t, app[r].last_committed, "EMERGENCY")
  <2>1. app[r].last_committed \in Epoch /\ "EMERGENCY" \in Reason
    BY <1>2, ConfigAssumption DEF PerceiveAmbulance, Epoch, Reason
  <2>2. t \in AppState
    <3>1. app[r] \in AppState
      BY <1>0
    <3> QED
      BY <3>1 DEF AppState
  <2>3. Serving(t)
    BY <1>0, <1>a DEF Serving, Tombstoned, AppState
  <2>4. Update(r, s) /\ UNCHANGED <<pending_orders, ledger, proposed>>
    BY <1>2 DEF PerceiveAmbulance, bridgeVars, pbftVars
  <2> HIDE DEF t
  <2>5. Serving(s)
    BY <2>1, <2>2, <2>3, CertKeepsServing
  <2> HIDE DEF s
  <2> QED
    BY <1>b, <1>c, <2>4, <2>5, RecoveryFrame
<1>3. ASSUME NEW r \in Honest, NEW e \in Epoch, NEW k \in Reason, NEW active,
             HandleCancelEcho(r, e, k, active) \/ HandleCancelCert(r, e, k, active)
      PROVE  RecoveryInv'
  <2> DEFINE seen == [RegisterBlocked(app[r], e, k) EXCEPT !.cert_seen = @ \cup {<<e, k>>}]
             s == HandleValidCancelJustification(seen, e, k, active)
  <2>1. seen \in AppState /\ Serving(seen)
    BY <1>0, <1>a, SeenType, CertKeepsServing
  <2>2. /\ UNCHANGED <<pending_orders, ledger, proposed>>
        /\ AcceptCancelCert(r, e, k, active)
    BY <1>3 DEF HandleCancelEcho, HandleCancelCert, bridgeVars, pbftVars
  <2>3. Update(r, seen) \/ Update(r, s)
    BY <2>2 DEF AcceptCancelCert
  <2> HIDE DEF seen
  <2>4. Serving(s)
    BY <2>1, CertKeepsServing
  <2> HIDE DEF s
  <2> QED
    BY <1>b, <1>c, <2>1, <2>2, <2>3, <2>4, RecoveryFrame
<1>4. ASSUME NEW r \in Honest, NEW t \in AppState, Serving(t), SubmitCancelFrom(r, t)
      PROVE  RecoveryInv'
  <2> DEFINE d == Cancel(t.cancelled_epoch, t.reason)
             ok == ProposesCancel(t, r) /\ CancelViewAccepted(t, r)
  <2>1. Serving(TrySubmitCancel(t, r))
    BY <1>4, ReadinessKeepsServing
  <2>2. /\ Update(r, TrySubmitCancel(t, r)) /\ Submit(r, d, ok)
        /\ UNCHANGED <<pending_orders, ledger>>
    BY <1>4 DEF SubmitCancelFrom
  <2>3. Named(d) /\ Follows(d)
    BY <1>4 DEF Cancel, Named, Follows, Serving, AppState
  <2> HIDE DEF d, ok
  <2>4. \A p \in proposed' : Named(p.entry) /\ Follows(p.entry)
    BY <2>2, <2>3, SubmitFollows
  <2> QED
    BY <1>c, <2>1, <2>2, <2>4, RecoveryFrame
<1>5. ASSUME NEW r \in Honest, FinishCancelDrain(r) \/ CancelLeaseExpires(r)
      PROVE  RecoveryInv'
  <2>1. CASE FinishCancelDrain(r)
    <3> DEFINE t == [app[r] EXCEPT !.cancel_state = "CONSENSUS"]
    <3>1. t \in AppState
      BY <1>0 DEF AppState, CancelPhase
    <3>2. Serving(t)
      BY <1>0, <1>a DEF Serving, Tombstoned, AppState
    <3> QED
      BY <1>4, <2>1, <3>1, <3>2 DEF FinishCancelDrain
  <2>2. CASE CancelLeaseExpires(r)
    <3> DEFINE t == [app[r] EXCEPT !.lease = FALSE, !.rotation = @ + 1,
                                   !.cancel_submitted = FALSE, !.propose_submitted = FALSE]
    <3>1. t \in AppState
      <4>1. app[r] \in AppState
        BY <1>0
      <4>2. app[r].rotation + 1 \in Nat
        BY <4>1 DEF AppState
      <4> QED
        BY <4>1, <4>2 DEF AppState
    <3>2. Serving(t)
      BY <1>0, <1>a DEF Serving, Tombstoned, AppState
    <3> QED
      BY <1>4, <2>2, <3>1, <3>2 DEF CancelLeaseExpires
  <2> QED
    BY <1>5, <2>1, <2>2
<1>6. ASSUME NEW p \in proposed, CommitCancel(p) \/ CommitOrder(p) PROVE RecoveryInv'
  BY <1>6, RecoveryCommit DEF CommitCancel, CommitOrder
<1>7. ASSUME NEW v \in Honest, NEW p \in proposed, VoteOrder(v, p) PROVE RecoveryInv'
  BY <1>7, <1>c, RecoverySame DEF VoteOrder, bridgeVars
<1>8. ASSUME NEW r \in Honest, Execute(r) PROVE RecoveryInv'
  <2> DEFINE d == ledger[executed[r] + 1]
  <2>1. executed[r] + 1 \in 1 .. Len(ledger)
    BY <1>8 DEF Execute, RecoveryInv, AdoptionInv, TypeOK
  <2>2. d \in Entry /\ Named(d)
    BY <2>1 DEF RecoveryInv, AdoptionInv, TypeOK
  <2>3. /\ pending_orders' = [pending_orders EXCEPT ![r] = Append(@, d)]
        /\ UNCHANGED <<app, proposed, ledger>>
    BY <1>8 DEF Execute, pbftVars
  <2> HIDE DEF d
  <2> QED
    BY <2>2, <2>3, RecoveryAppend, RecoverySame
<1>9. ASSUME NEW r \in Honest,
             \/ ProcessCancel(r)
             \/ \E adopt \in BOOLEAN, primary \in MayLead(r) : ProcessOrder(r, adopt, primary)
      PROVE  RecoveryInv'
  BY <1>9, RecoveryProcess
<1>10. ASSUME NEW r \in Honest, NEW e \in Epoch, NEW k \in Reason,
              HandleCancelCommitGossip(r, e, k)
       PROVE  RecoveryInv'
  <2> DEFINE s == CancelGossipAdoption(app[r], e, k)
  <2>1. Update(r, s) /\ UNCHANGED <<pending_orders, ledger, proposed>>
    BY <1>10 DEF HandleCancelCommitGossip, pbftVars
  <2>2. Serving(s)
    BY <1>0, <1>a, CancelKeepsServing
  <2> HIDE DEF s
  <2> QED
    BY <1>b, <1>c, <2>1, <2>2, RecoveryFrame
<1>11. ASSUME NEW r \in Honest, NEW p \in Honest, NEW d \in app[p].order_gossip,
              HandleDecisionGossip(r, d)
       PROVE  RecoveryInv'
  <2> DEFINE s == [app[r] EXCEPT !.last_committed = d.epoch]
  <2>1. d \in Entry /\ d.kind = "ORDER"
    BY <1>0 DEF AppState, RecoveryInv, AdoptionInv
  <2>2. /\ Update(r, s) /\ UNCHANGED <<ledger, proposed>>
        /\ pending_orders' = [pending_orders EXCEPT ![r] = Append(@, d)]
    BY <1>11 DEF HandleDecisionGossip, pbftVars
  <2>3. Serving(s)
    BY <1>0, <1>a DEF Serving, Tombstoned, AppState
  <2>4. Named(d)
    BY <2>1 DEF Named
  <2> HIDE DEF s
  <2>5. \A q \in Honest : \A i \in 1 .. Len(pending_orders'[q]) :
           Named(pending_orders'[q][i])
    BY <2>1, <2>2, <2>4, RecoveryAppend
  <2> QED
    BY <1>b, <2>2, <2>3, <2>5, RecoveryFrame
<1>12. ASSUME NEW r \in Honest, NEW t \in AppState, Serving(t), t.cancels = app[r].cancels,
              NEW primary, EvaluateFrom(r, t, primary)
       PROVE  RecoveryInv'
  <2>1. Serving(EvaluateOrderReadiness(t, primary))
    BY <1>12, ReadinessKeepsServing
  <2>2. Named(OrderOf(t)) /\ Follows(OrderOf(t))
    BY <1>12, OrderFollows DEF RecoveryInv
  <2>3. /\ Update(r, EvaluateOrderReadiness(t, primary))
        /\ Submit(r, OrderOf(t), SubmitsOrder(t, primary))
        /\ UNCHANGED <<pending_orders, ledger>>
    BY <1>12 DEF EvaluateFrom
  <2>4. \A p \in proposed' : Named(p.entry) /\ Follows(p.entry)
    BY <2>2, <2>3, SubmitFollows
  <2> QED
    BY <1>c, <2>1, <2>3, <2>4, RecoveryFrame
<1>13. ASSUME NEW r \in Honest,
              \/ \E primary \in MayLead(r) : DiscoveryCompletes(r, primary)
              \/ PrimaryChange(r)
       PROVE  RecoveryInv'
  <2> DEFINE t == [app[r] EXCEPT !.discovery = "COMPLETE"]
  <2>1. t \in AppState
    BY <1>0 DEF AppState, DiscoveryState
  <2>2. Serving(t) /\ t.cancels = app[r].cancels
    BY <1>0, <1>a DEF Serving, Tombstoned, AppState
  <2>3. \E primary : EvaluateFrom(r, t, primary) \/ EvaluateFrom(r, app[r], primary)
    BY <1>13 DEF DiscoveryCompletes, PrimaryChange
  <2> HIDE DEF t
  <2> QED
    BY <1>0, <1>a, <1>12, <2>1, <2>2, <2>3
<1>14. ASSUME NEW r \in Honest, NEW e \in Epoch, SendClearEcho(r, e) PROVE RecoveryInv'
  <2> DEFINE s == [app[r] EXCEPT !.clear_echo = @ \cup {e}]
  <2>1. Serving(s)
    BY <1>0, <1>a DEF Serving, Tombstoned, AppState
  <2>2. Update(r, s) /\ UNCHANGED <<pending_orders, ledger, proposed>>
    BY <1>14 DEF SendClearEcho, bridgeVars, pbftVars
  <2> HIDE DEF s
  <2> QED
    BY <1>b, <1>c, <2>1, <2>2, RecoveryFrame
<1>15. ASSUME NEW r \in Honest, NEW e \in Epoch, NEW primary \in MayLead(r),
              HandleClearCert(r, e, primary)
       PROVE  RecoveryInv'
  <2> DEFINE t == [app[r] EXCEPT !.clear_seen = @ \cup {e}]
             s == OnIncidentCleared(t, e, primary)
             cleared == ClearIncident(t, e)
             submits == ClearTriggers(t, e) /\ SubmitsOrder(cleared, primary)
  <2>1. t \in AppState
    BY <1>0 DEF AppState
  <2>2. Serving(t) /\ t.cancels = app[r].cancels
    BY <1>0, <1>a DEF Serving, Tombstoned, AppState
  <2>3. /\ Update(r, s) /\ Submit(r, OrderOf(cleared), submits)
        /\ UNCHANGED <<pending_orders, ledger>>
    BY <1>15 DEF HandleClearCert
  <2> HIDE DEF t
  <2>4. cleared \in AppState /\ Serving(cleared) /\ cleared.cancels = app[r].cancels
    <3>1. cleared \in AppState
      BY <2>1 DEF ClearIncident, AppState, IncidentState
    <3>2. Serving(cleared) /\ Serving(s)
      BY <2>1, <2>2, ReadinessKeepsServing
    <3>3. cleared.cancels = t.cancels
      BY <2>1 DEF ClearIncident, AppState
    <3> QED
      BY <2>2, <3>1, <3>2, <3>3
  <2>5. Serving(s)
    BY <2>1, <2>2, ReadinessKeepsServing
  <2> HIDE DEF s, cleared, submits
  <2>6. Named(OrderOf(cleared)) /\ Follows(OrderOf(cleared))
    BY <2>4, OrderFollows DEF RecoveryInv
  <2>7. \A p \in proposed' : Named(p.entry) /\ Follows(p.entry)
    BY <2>3, <2>6, SubmitFollows
  <2> QED
    BY <1>c, <2>3, <2>5, <2>7, RecoveryFrame
<1>16. CASE Tow
  BY <1>16, <1>c, RecoverySame DEF Tow, bridgeVars, pbftVars
<1>17. CASE UNCHANGED vars
  BY <1>17, <1>c, RecoverySame DEF vars, bridgeVars, pbftVars
<1>18. TypeOK /\ Checked'
  BY DEF RecoveryInv, AdoptionInv
<1>19. ASSUME NEW r \in Honest, NEW e \in Epoch, NEW clear \in BOOLEAN,
              HandleDecisionGossip(r, Order(e, clear))
       PROVE  RecoveryInv'
  BY <1>11, <1>18, <1>19, GossipIsHonest
<1> QED
  BY <1>1, <1>2, <1>3, <1>5, <1>6, <1>7, <1>8, <1>9, <1>10, <1>13, <1>14, <1>15, <1>16,
     <1>17, <1>18, <1>19, NoneUnchecked, ReasonsAreReasons DEF Next, Protocol, AppStep

\* The epochs of a vehicle are those of its tombstones while the hypothesis Checked holds.
LEMMA RecoveryInvariant == Spec => [](Checked => RecoveryInv)
BY AdoptionInvariant, RecoveryInit, RecoveryNext, CheckedBefore, TypeCorrect, PTL DEF Spec

\* PBFT orders ORDER(e+1) only behind a CANCEL(e): whoever proposes for epoch e+1 has
\* tombstoned e, and tombstones, adopted by gossip or delivered, stand for CANCELs that
\* PBFT ordered before.  The hypothesis Checked is needed twice: for the senders of the
\* gossip, and because a faulty leader's ORDER(e+1) needs no CANCEL(e) to be voted for.
THEOREM RecoveriesFollowCancels == Spec => []RecoveryAfterCancel
<1>1. (Checked => RecoveryInv) => RecoveryAfterCancel
  BY DEF RecoveryInv, RecoveryAfterCancel
<1> QED
  BY <1>1, RecoveryInvariant, PTL
=============================================================================
