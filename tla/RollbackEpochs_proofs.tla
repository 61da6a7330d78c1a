------------------------ MODULE RollbackEpochs_proofs ------------------------
(***************************************************************************)
(* The order of the epochs: how the decisions of the ledger, the queues of *)
(* the executors and the fields of the apps follow each other.  The first  *)
(* part sums up every step of Rollback by what it does to these, so that   *)
(* the invariants of the second part look at eight kinds of step only.     *)
(***************************************************************************)
EXTENDS Rollback_proofs

-----------------------------------------------------------------------------
(* What the handlers do to the fields of one app: s before, t after        *)

\* No decision is learnt or applied.
Steady(s, t) ==
    /\ t.cancels = s.cancels /\ t.order_gossip = s.order_gossip
    /\ t.cancel_pending = s.cancel_pending /\ t.new_epoch = s.new_epoch
    /\ t.current_epoch = s.current_epoch /\ t.order_applied = s.order_applied
    /\ t.last_committed = s.last_committed /\ t.view = s.view

\* The wait for a CANCEL goes on as before; a drain may come to its end.
Waits(s, t) ==
    /\ t.consensus_pending = s.consensus_pending
    /\ t.cancelled_epoch = s.cancelled_epoch /\ t.reason = s.reason
    /\ \/ t.cancel_state = s.cancel_state
       \/ s.cancel_state = "INACTIVE" /\ t.cancel_state = "WITNESSING"
       \/ s.cancel_state = "DRAINING" /\ t.cancel_state = "CONSENSUS"

\* Nothing about a CANCEL changes.
Still(s, t) ==
    /\ t.consensus_pending = s.consensus_pending
    /\ t.cancelled_epoch = s.cancelled_epoch /\ t.reason = s.reason
    /\ t.cancel_state = s.cancel_state

\* A certificate for e starts the wait for CANCEL(e).
StartsWait(s, t, e, k) ==
    /\ ~Tombstoned(s, e)
    /\ ~((s.consensus_pending \/ s.cancel_pending) /\ s.cancelled_epoch = e)
    /\ t.consensus_pending /\ t.cancelled_epoch = e /\ t.reason = k
    /\ t.cancel_state = IF s.cancel_state \in {"COMMITTED", "DRAINING", "CONSENSUS"}
                        THEN s.cancel_state ELSE "DRAINING"

\* A vehicle signs an echo for the epoch of the last ORDER it committed.
Signs(s, t) ==
    /\ s.echo_sent \subseteq t.echo_sent
    /\ \A w \in t.echo_sent \ s.echo_sent :
          /\ w[1] = s.last_committed /\ w[1] \in 0 .. MaxEpoch - 1
          /\ w[2] \in Reasons

\* No handler of these has an effect on the order of the epochs.
Quiet(s, t) == Steady(s, t) /\ Still(s, t) /\ t.echo_sent = s.echo_sent

\* CANCEL(e) is learnt, from the executor or from f+1 vehicles.
Cancelled(s, t, e, k) ==
    /\ t.cancels = [s.cancels EXCEPT ![e] = k]
    /\ t.order_gossip = s.order_gossip /\ t.echo_sent = s.echo_sent
    /\ t.view = s.view /\ t.last_committed = s.last_committed
    /\ ~t.consensus_pending /\ t.cancel_state = "COMMITTED" /\ t.cancel_pending
    /\ t.cancelled_epoch = e
    /\ IF s.cancel_pending /\ s.cancelled_epoch = e
       THEN /\ t.new_epoch = s.new_epoch /\ t.current_epoch = s.current_epoch
            /\ t.order_applied = s.order_applied
       ELSE t.new_epoch = e + 1 /\ t.current_epoch = e + 1 /\ ~t.order_applied

\* ORDER d is applied.
Applied(s, t, d) ==
    /\ t.cancels = s.cancels /\ t.order_gossip \subseteq s.order_gossip \cup {d}
    /\ t.echo_sent = s.echo_sent /\ t.view = d.epoch
    /\ t.current_epoch = s.current_epoch /\ t.new_epoch = s.new_epoch
    /\ t.cancelled_epoch = s.cancelled_epoch /\ t.consensus_pending = s.consensus_pending
    /\ t.last_committed \in {s.last_committed, d.epoch}
    /\ s.order_applied => t.order_applied
    /\ IF s.cancel_pending /\ d.epoch = s.new_epoch
       THEN ~t.cancel_pending /\ t.cancel_state = "INACTIVE"
       ELSE t.cancel_pending = s.cancel_pending /\ t.cancel_state = s.cancel_state

\* Echoes and certificates.
LEMMA CertSteps ==
    ASSUME NEW s \in AppState, NEW e \in Epoch, NEW k \in Reason, NEW active
    PROVE  /\ Steady(s, SendCancelEcho(s, e, k)) /\ Waits(s, SendCancelEcho(s, e, k))
           /\ SendCancelEcho(s, e, k).echo_sent = s.echo_sent \cup {<<e, k>>}
           /\ LET t == HandleValidCancelJustification(s, e, k, active)
              IN  /\ Steady(s, t) /\ t.echo_sent = s.echo_sent
                  /\ Still(s, t) \/ StartsWait(s, t, e, k)
<1>1. Steady(s, SendCancelEcho(s, e, k)) /\ Waits(s, SendCancelEcho(s, e, k))
  BY DEF SendCancelEcho, Steady, Waits, AppState
<1>2. SendCancelEcho(s, e, k).echo_sent = s.echo_sent \cup {<<e, k>>}
  BY DEF SendCancelEcho, AppState
<1> DEFINE t == HandleValidCancelJustification(s, e, k, active)
<1>3. Steady(s, t) /\ t.echo_sent = s.echo_sent
  BY DEF HandleValidCancelJustification, BeginCancelDrain, Steady, AppState
<1>4. Still(s, t) \/ StartsWait(s, t, e, k)
  <2>1. CASE \/ (s.consensus_pending \/ s.cancel_pending) /\ s.cancelled_epoch = e
             \/ Tombstoned(s, e)
    BY <2>1 DEF HandleValidCancelJustification, Still
  <2>2. CASE ~(\/ (s.consensus_pending \/ s.cancel_pending) /\ s.cancelled_epoch = e
               \/ Tombstoned(s, e))
    BY <2>2 DEF HandleValidCancelJustification, BeginCancelDrain, StartsWait, AppState
  <2> QED
    BY <2>1, <2>2
<1> QED
  BY <1>1, <1>2, <1>3, <1>4

\* Two quiet steps of a vehicle make one.
LEMMA QuietComposes ==
    ASSUME NEW s, NEW t, NEW u, Quiet(s, t), Quiet(t, u)
    PROVE  Quiet(s, u)
BY DEF Quiet, Steady, Still

\* Recording a certificate, submitting, readiness and CLEAR.
LEMMA QuietSteps ==
    ASSUME NEW s \in AppState, NEW e, NEW k, NEW r, NEW primary
    PROVE  /\ Quiet(s, s)
           /\ Quiet(s, [RegisterBlocked(s, e, k) EXCEPT !.cert_seen = @ \cup {<<e, k>>}])
           /\ Quiet(s, TrySubmitCancel(s, r))
           /\ Quiet(s, EvaluateOrderReadiness(s, primary))
           /\ Quiet(s, ClearIncident(s, e))
           /\ Quiet(s, OnIncidentCleared(s, e, primary))
<1>1. Quiet(s, s)
  BY DEF Quiet, Steady, Still
<1>2. Quiet(s, [RegisterBlocked(s, e, k) EXCEPT !.cert_seen = @ \cup {<<e, k>>}])
  BY DEF RegisterBlocked, Quiet, Steady, Still, AppState
<1>3. Quiet(s, TrySubmitCancel(s, r))
  BY DEF TrySubmitCancel, Quiet, Steady, Still, AppState
<1>4. ASSUME NEW u \in AppState
      PROVE  Quiet(u, EvaluateOrderReadiness(u, primary))
  BY DEF EvaluateOrderReadiness, Freeze, Quiet, Steady, Still, AppState
<1>5. ClearIncident(s, e) \in AppState
  BY DEF ClearIncident, AppState, IncidentState
<1>6. Quiet(s, ClearIncident(s, e))
  BY DEF ClearIncident, Quiet, Steady, Still, AppState
<1>7. Quiet(s, OnIncidentCleared(s, e, primary))
  BY <1>4, <1>5, <1>6, QuietComposes DEF OnIncidentCleared
<1> QED
  BY <1>1, <1>2, <1>3, <1>4, <1>6, <1>7

\* Learning of a CANCEL.
LEMMA CancelSteps ==
    ASSUME NEW s \in AppState, NEW e, NEW k
    PROVE  /\ Cancelled(s, CancelCommitDecision(s, e, k), e, k)
           /\ Cancelled(s, CancelGossipAdoption(s, e, k), e, k)
<1>1. Cancelled(s, CancelCommitDecision(s, e, k), e, k)
  BY DEF CancelCommitDecision, BeginPostCancelDiscovery, Cancelled, AppState
<1>2. Cancelled(s, CancelGossipAdoption(s, e, k), e, k)
  BY DEF CancelGossipAdoption, BeginPostCancelDiscovery, Cancelled, AppState
<1> QED
  BY <1>1, <1>2

\* Applying an ORDER, from the state after its trailer was looked at.
LEMMA ApplySteps ==
    ASSUME NEW s \in AppState, NEW t \in AppState, NEW r, NEW d,
           d.epoch \in Nat, Quiet([s EXCEPT !.view = d.epoch], t)
    PROVE  /\ Applied(s, ApplyOrder(t, r, d), d)
           /\ ~s.cancel_pending /\ r \in Members(d.epoch) => ApplyOrder(t, r, d).order_applied
<1> DEFINE ended == EndRecovery(t, d.epoch)
           u == ApplyOrder(t, r, d)
<1>1. ended \in AppState
  BY EndRecoveryType
<1>2. /\ ended.cancels = s.cancels /\ ended.order_gossip = s.order_gossip
      /\ ended.echo_sent = s.echo_sent /\ ended.view = d.epoch
      /\ ended.current_epoch = s.current_epoch /\ ended.new_epoch = s.new_epoch
      /\ ended.cancelled_epoch = s.cancelled_epoch
      /\ ended.consensus_pending = s.consensus_pending
      /\ ended.last_committed = s.last_committed /\ ended.order_applied = s.order_applied
      /\ IF s.cancel_pending /\ d.epoch = s.new_epoch
         THEN ~ended.cancel_pending /\ ended.cancel_state = "INACTIVE"
         ELSE ended.cancel_pending = s.cancel_pending /\ ended.cancel_state = s.cancel_state
  BY DEF EndRecovery, Quiet, Steady, Still, AppState
<1> HIDE DEF ended
<1>3. LET c == CommitOrderLocally(ended, r, d)
      IN  /\ c.cancels = ended.cancels /\ c.order_gossip \subseteq ended.order_gossip \cup {d}
          /\ c.echo_sent = ended.echo_sent /\ c.view = ended.view
          /\ c.current_epoch = ended.current_epoch /\ c.new_epoch = ended.new_epoch
          /\ c.cancelled_epoch = ended.cancelled_epoch
          /\ c.consensus_pending = ended.consensus_pending
          /\ c.last_committed = d.epoch
          /\ ended.order_applied => c.order_applied
          /\ c.cancel_pending = ended.cancel_pending /\ c.cancel_state = ended.cancel_state
  BY <1>1 DEF CommitOrderLocally, AppState
<1>4. /\ u = ended \/ u = CommitOrderLocally(ended, r, d)
      /\ ~ended.cancel_pending => u = CommitOrderLocally(ended, r, d)
  BY DEF ApplyOrder, ended
<1>5. r \in Members(d.epoch) => CommitOrderLocally(ended, r, d).order_applied
  BY <1>1 DEF CommitOrderLocally, AppState
<1> HIDE DEF u
<1>6. ~s.cancel_pending /\ r \in Members(d.epoch) => u.order_applied
  BY <1>2, <1>4, <1>5
<1>7. Applied(s, u, d)
  BY <1>2, <1>3, <1>4 DEF Applied
<1> QED
  BY <1>6, <1>7 DEF u

-----------------------------------------------------------------------------
(* The kinds of steps *)

\* Only the app of r moves.
Others(r) == \A q \in Honest \ {r} : app'[q] = app[q]

\* What r newly proposes is the CANCEL it waits for or the ORDER of its epoch.
Proposes(r) ==
    \A p \in proposed' \ proposed :
        /\ p.leader = r
        /\ \/ /\ p.entry.kind = "CANCEL" /\ app[r].consensus_pending
              /\ p.entry.epoch = app[r].cancelled_epoch /\ p.entry.reason = app[r].reason
           \/ p.entry.kind = "ORDER" /\ p.entry.epoch = app[r].current_epoch

\* r learns and applies no decision: echoes, certificates, timers, discovery, CLEAR.
Local(r) ==
    /\ Others(r) /\ Proposes(r)
    /\ Steady(app[r], app'[r]) /\ Signs(app[r], app'[r])
    /\ \/ Waits(app[r], app'[r])
       \/ \E e \in Epoch, k \in Reason : /\ ValidCert(EchoSigners(e, k), app[r].view)
                                         /\ StartsWait(app[r], app'[r], e, k)
    /\ UNCHANGED <<pending_orders, executed, crash_epochs, votes, ledger, wreck>>

\* r processes the CANCEL at the head of its queue.
TakesCancel(r) ==
    LET d == Head(pending_orders[r]) IN
    /\ Others(r) /\ Dequeue(r) /\ d.kind = "CANCEL"
    /\ Cancelled(app[r], app'[r], d.epoch, d.reason)
    /\ UNCHANGED <<executed, crash_epochs, proposed, votes, ledger, wreck>>

\* r processes the ORDER at the head of its queue: it skips or applies it.
TakesOrder(r) ==
    LET d == Head(pending_orders[r]) IN
    /\ Others(r) /\ Dequeue(r) /\ Proposes(r) /\ d.kind = "ORDER"
    /\ \/ SkipsOrder(app[r], d) /\ app'[r] = app[r]
       \/ /\ ~SkipsOrder(app[r], d) /\ Applied(app[r], app'[r], d)
          /\ ~app[r].cancel_pending /\ r \in Members(d.epoch) => app'[r].order_applied
    /\ UNCHANGED <<executed, crash_epochs, votes, ledger, wreck>>

\* r adopts CANCEL(e) from f+1 vehicles, an honest one among them.
AdoptsCancel(r, e, k) ==
    /\ GossipEnabled /\ Others(r)
    /\ \E p \in Honest : app[p].cancels[e] = k
    /\ Cancelled(app[r], app'[r], e, k)
    /\ executed' = [executed EXCEPT ![r] = GossipTarget(r, e) - 1]
    /\ UNCHANGED <<pending_orders, crash_epochs, proposed, votes, ledger, wreck>>

\* r adopts ORDER d from f+1 vehicles: it waits in the queue from now on.
AdoptsOrder(r, d) ==
    /\ GossipEnabled /\ Others(r)
    /\ \E p \in Honest : d \in app[p].order_gossip
    /\ app'[r] = [app[r] EXCEPT !.last_committed = d.epoch]
    /\ pending_orders' = [pending_orders EXCEPT ![r] = Append(@, d)]
    /\ UNCHANGED <<executed, crash_epochs, proposed, votes, ledger, wreck>>

\* Nothing but the wreck moves.
Idle ==
    /\ UNCHANGED <<app, pending_orders, executed, crash_epochs, proposed, votes, ledger>>
    /\ wreck' \in {wreck, "TOWED"}

\* The kinds are all there is.
Kinds ==
    \/ \E r \in Honest :
          \/ Local(r) \/ TakesCancel(r) \/ TakesOrder(r) \/ Execute(r)
          \/ \E e \in Epoch, k \in Reason : AdoptsCancel(r, e, k)
          \/ \E d \in Entry : AdoptsOrder(r, d)
    \/ \E p \in proposed : CommitCancel(p) \/ CommitOrder(p)
    \/ \E v \in Honest, p \in proposed : VoteOrder(v, p)
    \/ Idle

\* Updating the app of r.
LEMMA UpdateOne ==
    ASSUME TypeOK, NEW r \in Honest, NEW s, Update(r, s)
    PROVE  app'[r] = s /\ Others(r)
BY DEF TypeOK, Update, Others

\* A vehicle that proposes submits its own entry.
LEMMA SubmitProposes ==
    ASSUME NEW r, NEW d, NEW ok, Submit(r, d, ok),
           ok => \/ /\ d.kind = "CANCEL" /\ app[r].consensus_pending
                    /\ d.epoch = app[r].cancelled_epoch /\ d.reason = app[r].reason
                 \/ d.kind = "ORDER" /\ d.epoch = app[r].current_epoch
    PROVE  Proposes(r)
BY DEF Submit, Proposes

\* A step of r whose effect on the app is quiet.
LEMMA QuietIsLocal ==
    ASSUME TypeOK, NEW r \in Honest, NEW s, Quiet(app[r], s), Update(r, s), Proposes(r),
           UNCHANGED <<pending_orders, executed, crash_epochs, votes, ledger, wreck>>
    PROVE  Local(r)
<1>1. app'[r] = s /\ Others(r)
  BY UpdateOne
<1>2. Steady(app[r], s) /\ Signs(app[r], s) /\ Waits(app[r], s)
  BY DEF Quiet, Still, Waits, Signs
<1> QED
  BY <1>1, <1>2 DEF Local
\* Echoes and certificates.
LEMMA CertKinds ==
    ASSUME TypeOK, NEW r \in Honest,
           \/ PerceiveCrash(r) \/ PerceiveAmbulance(r)
           \/ \E e \in Epoch, k \in Reason, active \in ActiveBatches :
                 HandleCancelEcho(r, e, k, active) \/ HandleCancelCert(r, e, k, active)
    PROVE  Local(r)
<1>1. \A q \in Honest : app[q] \in AppState
  BY DEF TypeOK
<1>2. UNCHANGED <<pending_orders, executed, crash_epochs, votes, ledger, wreck, proposed>>
  BY DEF PerceiveCrash, PerceiveAmbulance, HandleCancelEcho, HandleCancelCert,
         bridgeVars, pbftVars
<1>3. Proposes(r)
  BY <1>2 DEF Proposes
<1>4. ASSUME NEW e \in Epoch, NEW k \in Reasons, NEW t \in AppState, Quiet(app[r], t),
             e = app[r].last_committed, e \in 0 .. MaxEpoch - 1,
             Update(r, SendCancelEcho(t, e, k))
      PROVE  Local(r)
  <2> DEFINE u == SendCancelEcho(t, e, k)
  <2>1. k \in Reason
    BY ConfigAssumption DEF Reason
  <2>2. Steady(t, u) /\ Waits(t, u) /\ u.echo_sent = t.echo_sent \cup {<<e, k>>}
    BY <1>4, <2>1, CertSteps
  <2>3. Steady(app[r], u) /\ Waits(app[r], u)
        /\ u.echo_sent = app[r].echo_sent \cup {<<e, k>>}
    BY <1>4, <2>2 DEF Quiet, Steady, Still, Waits
  <2>4. app'[r] = u /\ Others(r)
    BY <1>4, UpdateOne
  <2> HIDE DEF u
  <2>5. Signs(app[r], u)
    BY <1>4, <2>3 DEF Signs
  <2> QED
    BY <1>2, <1>3, <2>3, <2>4, <2>5 DEF Local
<1>5. CASE PerceiveCrash(r)
  <2>1. app[r].last_committed \in Epoch /\ app[r].last_committed \in 0 .. MaxEpoch - 1
    BY <1>5, ConfigAssumption DEF PerceiveCrash, Epoch
  <2>2. Update(r, SendCancelEcho(app[r], app[r].last_committed, "CRASH"))
    BY <1>5 DEF PerceiveCrash
  <2>3. "CRASH" \in Reasons
    BY <1>5 DEF PerceiveCrash
  <2>4. Quiet(app[r], app[r])
    BY DEF Quiet, Steady, Still
  <2> QED
    BY <1>1, <1>4, <2>1, <2>2, <2>3, <2>4
<1>6. CASE PerceiveAmbulance(r)
  <2> DEFINE t == [app[r] EXCEPT !.cancel_initiated = TRUE]
  <2>1. app[r].last_committed \in Epoch /\ app[r].last_committed \in 0 .. MaxEpoch - 1
    BY <1>6, ConfigAssumption DEF PerceiveAmbulance, Epoch
  <2>2. Update(r, SendCancelEcho(t, app[r].last_committed, "EMERGENCY"))
    BY <1>6 DEF PerceiveAmbulance
  <2>3. "EMERGENCY" \in Reasons
    BY <1>6 DEF PerceiveAmbulance
  <2>4. t \in AppState
    BY <1>1, FlagType
  <2>5. Quiet(app[r], t)
    BY <1>1 DEF Quiet, Steady, Still, AppState
  <2> HIDE DEF t
  <2> QED
    BY <1>4, <2>1, <2>2, <2>3, <2>4, <2>5
<1>7. ASSUME NEW e \in Epoch, NEW k \in Reason, NEW active,
             HandleCancelEcho(r, e, k, active) \/ HandleCancelCert(r, e, k, active)
      PROVE  Local(r)
  <2> DEFINE seen == [RegisterBlocked(app[r], e, k) EXCEPT !.cert_seen = @ \cup {<<e, k>>}]
             u == HandleValidCancelJustification(seen, e, k, active)
  <2>1. seen \in AppState /\ Quiet(app[r], seen)
    BY <1>1, SeenType, QuietSteps
  <2>2. AcceptCancelCert(r, e, k, active) /\ ValidCert(EchoSigners(e, k), app[r].view)
    BY <1>7 DEF HandleCancelEcho, HandleCancelCert
  <2>3. Update(r, seen) \/ Update(r, u)
    BY <2>2 DEF AcceptCancelCert
  <2> HIDE DEF seen
  <2>4. /\ Steady(seen, u) /\ u.echo_sent = seen.echo_sent
        /\ Still(seen, u) \/ StartsWait(seen, u, e, k)
    BY <2>1, CertSteps
  <2> HIDE DEF u
  <2>5. CASE Update(r, seen)
    BY <1>2, <1>3, <2>1, <2>5, QuietIsLocal
  <2>6. CASE Update(r, u)
    <3>1. Steady(app[r], u) /\ u.echo_sent = app[r].echo_sent
      BY <2>1, <2>4 DEF Quiet, Steady
    <3>2. Signs(app[r], u)
      BY <3>1 DEF Signs
    <3>3. Waits(app[r], u) \/ StartsWait(app[r], u, e, k)
      BY <2>1, <2>4 DEF Quiet, Steady, Still, Waits, StartsWait, Tombstoned
    <3>4. app'[r] = u /\ Others(r)
      BY <2>6, UpdateOne
    <3> QED
      BY <1>2, <1>3, <2>2, <3>1, <3>2, <3>3, <3>4 DEF Local
  <2> QED
    BY <2>3, <2>5, <2>6
<1> QED
  BY <1>5, <1>6, <1>7

\* The drain, the proposer and its lease.
LEMMA SubmitKinds ==
    ASSUME TypeOK, NEW r \in Honest, FinishCancelDrain(r) \/ CancelLeaseExpires(r)
    PROVE  Local(r)
<1>1. \A q \in Honest : app[q] \in AppState
  BY DEF TypeOK
<1>2. ASSUME NEW t \in AppState, SubmitCancelFrom(r, t), Steady(app[r], t),
             t.echo_sent = app[r].echo_sent, Waits(app[r], t)
      PROVE  Local(r)
  <2> DEFINE u == TrySubmitCancel(t, r)
             d == Cancel(t.cancelled_epoch, t.reason)
             ok == ProposesCancel(t, r) /\ CancelViewAccepted(t, r)
  <2>1. Quiet(t, u)
    BY QuietSteps
  <2>2. Update(r, u) /\ Submit(r, d, ok)
        /\ UNCHANGED <<pending_orders, executed, crash_epochs, votes, ledger, wreck>>
    BY <1>2 DEF SubmitCancelFrom
  <2>3. ok => app[r].consensus_pending
    BY <1>2 DEF ProposesCancel, MayPropose, Waits
  <2>4. /\ d.kind = "CANCEL" /\ d.epoch = app[r].cancelled_epoch
        /\ d.reason = app[r].reason
    BY <1>2 DEF Cancel, Waits
  <2> HIDE DEF u, d, ok
  <2>5. Proposes(r)
    BY <2>2, <2>3, <2>4, SubmitProposes
  <2>6. app'[r] = u /\ Others(r)
    BY <2>2, UpdateOne
  <2>7. Steady(app[r], u) /\ Waits(app[r], u) /\ u.echo_sent = app[r].echo_sent
    BY <1>2, <2>1 DEF Quiet, Steady, Still, Waits
  <2>8. Signs(app[r], u)
    BY <2>7 DEF Signs
  <2> QED
    BY <2>2, <2>5, <2>6, <2>7, <2>8 DEF Local
<1>3. CASE FinishCancelDrain(r)
  <2> DEFINE t == [app[r] EXCEPT !.cancel_state = "CONSENSUS"]
  <2>1. t \in AppState
    BY <1>1 DEF AppState, CancelPhase
  <2>2. Steady(app[r], t) /\ t.echo_sent = app[r].echo_sent /\ Waits(app[r], t)
    <3>1. app[r].cancel_state = "DRAINING"
      BY <1>3 DEF FinishCancelDrain
    <3>2. Steady(app[r], t) /\ t.echo_sent = app[r].echo_sent
      BY <1>1 DEF AppState, Steady
    <3>3. Waits(app[r], t)
      BY <1>1, <3>1 DEF AppState, Waits
    <3> QED
      BY <3>2, <3>3
  <2> QED
    BY <1>2, <1>3, <2>1, <2>2 DEF FinishCancelDrain
<1>4. CASE CancelLeaseExpires(r)
  <2> DEFINE t == [app[r] EXCEPT !.lease = FALSE, !.rotation = @ + 1,
                                 !.cancel_submitted = FALSE, !.propose_submitted = FALSE]
  <2>1. t \in AppState
    BY <1>1, FlagType
  <2>2. Steady(app[r], t) /\ t.echo_sent = app[r].echo_sent /\ Waits(app[r], t)
    BY <1>1 DEF AppState, Steady, Waits
  <2> QED
    BY <1>2, <1>4, <2>1, <2>2 DEF CancelLeaseExpires
<1> QED
  BY <1>3, <1>4
\* The queue of r without its head; the others stay.
LEMMA QueueShrinks ==
    ASSUME TypeOK, NEW r \in Honest, Dequeue(r)
    PROVE  /\ Head(pending_orders[r]) \in Entry
           /\ Head(pending_orders[r]) = pending_orders[r][1]
           /\ Len(pending_orders[r]) \in Nat \ {0}
           /\ Len(pending_orders'[r]) = Len(pending_orders[r]) - 1
           /\ \A i \in 1 .. Len(pending_orders'[r]) :
                 /\ i + 1 \in 1 .. Len(pending_orders[r])
                 /\ pending_orders'[r][i] = pending_orders[r][i + 1]
           /\ \A q \in Honest \ {r} : pending_orders'[q] = pending_orders[q]
<1>1. pending_orders \in [Honest -> Seq(Entry)] /\ pending_orders[r] # <<>>
  BY DEF Dequeue, TypeOK
<1>2. pending_orders'[r] = Tail(pending_orders[r])
  BY <1>1 DEF Dequeue
<1>3. \A q \in Honest \ {r} : pending_orders'[q] = pending_orders[q]
  BY <1>1 DEF Dequeue
<1> DEFINE queue == pending_orders[r]
<1>4. queue \in Seq(Entry) /\ queue # <<>>
  BY <1>1
<1> HIDE DEF queue
<1>5. Head(queue) \in Entry /\ Head(queue) = queue[1] /\ Len(queue) \in Nat \ {0}
  BY <1>4
<1>6. /\ Len(Tail(queue)) = Len(queue) - 1
      /\ \A i \in 1 .. Len(Tail(queue)) : /\ i + 1 \in 1 .. Len(queue)
                                          /\ Tail(queue)[i] = queue[i + 1]
  BY <1>4
<1> QED
  BY <1>2, <1>3, <1>5, <1>6 DEF queue

\* The queue of r with one more decision; the others stay.
LEMMA QueueGrows ==
    ASSUME TypeOK, NEW r \in Honest, NEW d \in Entry,
           pending_orders' = [pending_orders EXCEPT ![r] = Append(@, d)]
    PROVE  /\ Len(pending_orders[r]) \in Nat
           /\ Len(pending_orders'[r]) = Len(pending_orders[r]) + 1
           /\ pending_orders'[r][Len(pending_orders[r]) + 1] = d
           /\ \A i \in 1 .. Len(pending_orders[r]) :
                 pending_orders'[r][i] = pending_orders[r][i]
           /\ \A i \in 1 .. Len(pending_orders'[r]) :
                 i \in 1 .. Len(pending_orders[r]) \/ i = Len(pending_orders[r]) + 1
           /\ \A q \in Honest \ {r} : pending_orders'[q] = pending_orders[q]
<1>1. pending_orders \in [Honest -> Seq(Entry)]
  BY DEF TypeOK
<1>2. pending_orders'[r] = Append(pending_orders[r], d)
  BY <1>1
<1>3. \A q \in Honest \ {r} : pending_orders'[q] = pending_orders[q]
  BY <1>1
<1> DEFINE queue == pending_orders[r]
<1>4. queue \in Seq(Entry)
  BY <1>1
<1> HIDE DEF queue
<1>5. /\ Len(queue) \in Nat /\ Len(Append(queue, d)) = Len(queue) + 1
      /\ Append(queue, d)[Len(queue) + 1] = d
      /\ \A i \in 1 .. Len(queue) : Append(queue, d)[i] = queue[i]
  BY <1>4
<1> QED
  BY <1>2, <1>3, <1>5 DEF queue

\* PBFT appends the proposal.
LEMMA LedgerGrows ==
    ASSUME TypeOK, NEW p \in proposed, Commit(p)
    PROVE  /\ p.entry \in Entry /\ Len(ledger) \in Nat
           /\ Len(ledger') = Len(ledger) + 1
           /\ ledger'[Len(ledger) + 1] = p.entry
           /\ \A i \in 1 .. Len(ledger) : ledger'[i] = ledger[i]
           /\ \A i \in 1 .. Len(ledger') : i \in 1 .. Len(ledger) \/ i = Len(ledger) + 1
           /\ proposed' \subseteq proposed /\ \A v \in Honest : votes'[v] \subseteq votes[v]
           /\ UNCHANGED <<app, pending_orders, executed, crash_epochs, wreck>>
<1>1. p.entry \in Entry /\ ledger \in Seq(Entry)
  BY DEF TypeOK, Proposal
<1>2. ledger' = Append(ledger, p.entry)
  BY DEF Commit
<1>3. /\ Len(ledger) \in Nat /\ Len(ledger') = Len(ledger) + 1
      /\ ledger'[Len(ledger) + 1] = p.entry
      /\ \A i \in 1 .. Len(ledger) : ledger'[i] = ledger[i]
  BY <1>1, <1>2
<1>4. \A i \in 1 .. Len(ledger') : i \in 1 .. Len(ledger) \/ i = Len(ledger) + 1
  BY <1>3
<1>5. proposed' \subseteq proposed /\ \A v \in Honest : votes'[v] \subseteq votes[v]
  BY DEF Commit
<1>6. UNCHANGED <<app, pending_orders, executed, crash_epochs, wreck>>
  BY DEF Commit, bridgeVars
<1> QED
  BY <1>1, <1>3, <1>4, <1>5, <1>6

\* The head of the queue.
LEMMA OrderKinds ==
    ASSUME TypeOK, NEW r \in Honest, NEW adopt \in BOOLEAN, NEW primary \in BOOLEAN,
           ProcessOrder(r, adopt, primary)
    PROVE  TakesOrder(r)
<1> DEFINE d == Head(pending_orders[r])
           s == [app[r] EXCEPT !.view = d.epoch]
           e == d.epoch - 1
           cleared == ClearIncident(s, e)
           submits == adopt /\ ClearTriggers(s, e) /\ SubmitsOrder(cleared, primary)
           t == IF adopt THEN OnIncidentCleared(s, e, primary) ELSE s
           u == ApplyOrder(t, r, d)
<1>1. app[r] \in AppState /\ pending_orders[r] \in Seq(Entry)
  BY DEF TypeOK
<1>2. /\ Dequeue(r) /\ d.kind = "ORDER"
      /\ UNCHANGED <<executed, crash_epochs, votes, ledger, wreck>>
  BY DEF ProcessOrder
<1>3. d \in Entry /\ d.epoch \in Nat
  BY <1>2, QueueShrinks DEF Entry
<1>4. CASE SkipsOrder(app[r], d)
  <2>1. UNCHANGED <<app, proposed>>
    BY <1>4 DEF ProcessOrder
  <2> QED
    BY <1>2, <1>4, <2>1 DEF TakesOrder, Others, Proposes
<1>5. CASE ~SkipsOrder(app[r], d)
  <2>1. Update(r, u) /\ Submit(r, OrderOf(cleared), submits)
    BY <1>5 DEF ProcessOrder
  <2> HIDE DEF d
  <2>2. s \in AppState
    <3>1. d.epoch \in Int
      BY <1>3
    <3> QED
      BY <1>1, <3>1 DEF AppState
  <2>3. t \in AppState
    BY <2>2, ClearType
  <2>4. Quiet(s, t)
    BY <2>2, QuietSteps
  <2>5. /\ Applied(app[r], u, d)
        /\ ~app[r].cancel_pending /\ r \in Members(d.epoch) => u.order_applied
    BY <1>1, <1>3, <2>3, <2>4, ApplySteps
  <2>6. cleared.current_epoch = app[r].current_epoch
    BY <1>1 DEF ClearIncident, AppState
  <2>7. OrderOf(cleared).kind = "ORDER" /\ OrderOf(cleared).epoch = app[r].current_epoch
    BY <2>6 DEF OrderOf, Order
  <2> HIDE DEF cleared, submits, u
  <2>8. Proposes(r)
    BY <2>1, <2>7, SubmitProposes
  <2>9. app'[r] = u /\ Others(r)
    BY <2>1, UpdateOne
  <2> QED
    BY <1>2, <1>5, <2>5, <2>8, <2>9 DEF TakesOrder, d
<1> QED
  BY <1>4, <1>5

\* An ordered CANCEL that a vehicle processes is tombstoned there, whether it drives
\* under that epoch or has gone past it.
LEMMA CancelKinds ==
    ASSUME TypeOK, NEW r \in Honest, ProcessCancel(r)
    PROVE  TakesCancel(r)
<1> DEFINE d == Head(pending_orders[r])
           u == CancelCommitDecision(app[r], d.epoch, d.reason)
<1>1. app[r] \in AppState
  BY DEF TypeOK
<1>2. Cancelled(app[r], u, d.epoch, d.reason)
  BY <1>1, CancelSteps
<1>3. /\ Dequeue(r) /\ d.kind = "CANCEL" /\ Update(r, u)
      /\ UNCHANGED <<executed, crash_epochs, proposed, votes, ledger, wreck>>
  BY DEF ProcessCancel, pbftVars
<1> HIDE DEF u
<1>4. app'[r] = u /\ Others(r)
  BY <1>3, UpdateOne
<1> QED
  BY <1>2, <1>3, <1>4 DEF TakesCancel

\* Decisions that f+1 vehicles gossip.
LEMMA GossipKinds ==
    ASSUME TypeOK, Checked', NEW r \in Honest
    PROVE  /\ \A e \in Epoch, k \in Reason :
                 HandleCancelCommitGossip(r, e, k) => AdoptsCancel(r, e, k)
           /\ \A d : HandleDecisionGossip(r, d) => d \in Entry /\ AdoptsOrder(r, d)
<1>1. \A q \in Honest : app[q] \in AppState
  BY DEF TypeOK
<1>2. ASSUME NEW e \in Epoch, NEW k \in Reason, HandleCancelCommitGossip(r, e, k)
      PROVE  AdoptsCancel(r, e, k)
  <2> DEFINE u == CancelGossipAdoption(app[r], e, k)
  <2>1. Cancelled(app[r], u, e, k)
    BY <1>1, CancelSteps
  <2>2. /\ Update(r, u) /\ GossipEnabled
        /\ executed' = [executed EXCEPT ![r] = GossipTarget(r, e) - 1]
        /\ UNCHANGED <<pending_orders, crash_epochs, proposed, votes, ledger, wreck>>
    BY <1>2 DEF HandleCancelCommitGossip, pbftVars
  <2> HIDE DEF u
  <2>3. app'[r] = u /\ Others(r)
    BY <2>2, UpdateOne
  <2>4. \E p \in Honest : app[p].cancels[e] = k
    <3>1. CancelVoters(e, k) \in SUBSET Replica
      BY ReplicaAssumption DEF CancelVoters, Honest
    <3>2. Cardinality(CancelVoters(e, k)) >= F + 1
      BY <1>2, CheckedVoters DEF HandleCancelCommitGossip, Reached
    <3> QED
      BY <3>1, <3>2, HonestAmong DEF CancelVoters, Honest
  <2> QED
    BY <2>1, <2>2, <2>3, <2>4 DEF AdoptsCancel
<1>3. ASSUME NEW d, HandleDecisionGossip(r, d)
      PROVE  d \in Entry /\ AdoptsOrder(r, d)
  <2> DEFINE u == [app[r] EXCEPT !.last_committed = d.epoch]
  <2>0. PICK p \in Honest : d \in app[p].order_gossip
    BY <1>3, GossipIsHonest
  <2>1. d \in Entry
    BY <1>1, <2>0 DEF AppState
  <2>2. /\ Update(r, u) /\ GossipEnabled
        /\ pending_orders' = [pending_orders EXCEPT ![r] = Append(@, d)]
        /\ UNCHANGED <<executed, crash_epochs, proposed, votes, ledger, wreck>>
    BY <1>3 DEF HandleDecisionGossip, pbftVars
  <2>3. app'[r] = u /\ Others(r)
    BY <2>2, UpdateOne
  <2> HIDE DEF u
  <2> QED
    BY <2>0, <2>1, <2>2, <2>3 DEF AdoptsOrder, u
<1> QED
  BY <1>2, <1>3

\* Discovery, a change of the primary, and CLEAR.
LEMMA ReadinessKinds ==
    ASSUME TypeOK, NEW r \in Honest,
           \/ \E primary \in MayLead(r) : DiscoveryCompletes(r, primary)
           \/ PrimaryChange(r)
           \/ \E e \in Epoch : SendClearEcho(r, e)
           \/ \E e \in Epoch, primary \in MayLead(r) : HandleClearCert(r, e, primary)
    PROVE  Local(r)
<1>1. \A q \in Honest : app[q] \in AppState
  BY DEF TypeOK
<1>2. ASSUME NEW t \in AppState, Quiet(app[r], t), NEW u, Quiet(t, u),
             NEW v, v.current_epoch = app[r].current_epoch, NEW ok,
             Update(r, u), Submit(r, OrderOf(v), ok),
             UNCHANGED <<pending_orders, executed, crash_epochs, votes, ledger, wreck>>
      PROVE  Local(r)
  <2>1. OrderOf(v).kind = "ORDER" /\ OrderOf(v).epoch = app[r].current_epoch
    BY <1>2 DEF OrderOf, Order
  <2>2. Proposes(r)
    BY <1>2, <2>1, SubmitProposes
  <2> QED
    BY <1>2, <2>2, QuietComposes, QuietIsLocal
<1>3. ASSUME NEW primary, NEW t \in AppState, Quiet(app[r], t), EvaluateFrom(r, t, primary)
      PROVE  Local(r)
  <2>1. Quiet(t, EvaluateOrderReadiness(t, primary))
    BY QuietSteps
  <2>2. t.current_epoch = app[r].current_epoch
    BY <1>3 DEF Quiet, Steady
  <2> QED
    BY <1>2, <1>3, <2>1, <2>2 DEF EvaluateFrom
<1>4. ASSUME NEW primary, DiscoveryCompletes(r, primary) PROVE Local(r)
  <2> DEFINE t == [app[r] EXCEPT !.discovery = "COMPLETE"]
  <2>1. t \in AppState /\ Quiet(app[r], t)
    BY <1>1 DEF AppState, DiscoveryState, Quiet, Steady, Still
  <2>2. EvaluateFrom(r, t, primary)
    BY <1>4 DEF DiscoveryCompletes
  <2> HIDE DEF t
  <2> QED
    BY <1>3, <2>1, <2>2
<1>5. CASE PrimaryChange(r)
  <2>1. Quiet(app[r], app[r])
    BY DEF Quiet, Steady, Still
  <2> QED
    BY <1>1, <1>3, <1>5, <2>1 DEF PrimaryChange
<1>6. ASSUME NEW e \in Epoch, SendClearEcho(r, e) PROVE Local(r)
  <2> DEFINE t == [app[r] EXCEPT !.clear_echo = @ \cup {e}]
  <2>1. Quiet(app[r], t)
    BY <1>1 DEF AppState, Quiet, Steady, Still
  <2>2. Update(r, t)
        /\ UNCHANGED <<pending_orders, executed, crash_epochs, proposed, votes, ledger, wreck>>
    BY <1>6 DEF SendClearEcho, bridgeVars, pbftVars
  <2> HIDE DEF t
  <2> QED
    BY <2>1, <2>2, QuietIsLocal DEF Proposes
<1>7. ASSUME NEW e \in Epoch, NEW primary, HandleClearCert(r, e, primary) PROVE Local(r)
  <2> DEFINE t == [app[r] EXCEPT !.clear_seen = @ \cup {e}]
             v == ClearIncident(t, e)
  <2>1. t \in AppState
    BY <1>1 DEF AppState
  <2>2. Quiet(app[r], t)
    BY <1>1 DEF AppState, Quiet, Steady, Still
  <2>3. /\ Update(r, OnIncidentCleared(t, e, primary))
        /\ Submit(r, OrderOf(v), ClearTriggers(t, e) /\ SubmitsOrder(v, primary))
        /\ UNCHANGED <<pending_orders, executed, crash_epochs, votes, ledger, wreck>>
    BY <1>7 DEF HandleClearCert
  <2> HIDE DEF t
  <2>4. v.current_epoch = app[r].current_epoch
    BY <2>1, <2>2, QuietSteps DEF Quiet, Steady
  <2> HIDE DEF v
  <2>5. Quiet(t, OnIncidentCleared(t, e, primary))
    BY <2>1, QuietSteps
  <2> QED
    BY <1>2, <2>1, <2>2, <2>3, <2>4, <2>5
<1> QED
  BY <1>4, <1>5, <1>6, <1>7

\* Every step is of one of the kinds, while thresholds are reached by genuine names and
\* nobody faulty leads.
LEMMA StepKinds ==
    ASSUME TypeOK, Checked', [Next]_vars
    PROVE  Kinds
<1>1. ASSUME NEW r \in Honest, AppStep(r)
      PROVE  \/ Local(r) \/ TakesCancel(r) \/ TakesOrder(r)
             \/ \E e \in Epoch, k \in Reason : AdoptsCancel(r, e, k)
             \/ \E d \in Entry : AdoptsOrder(r, d)
  <2>1. ASSUME \E e \in Epoch \ {MaxEpoch}, k \in Reasons : HandleCancelCommitGossip(r, e, k)
        PROVE  \E e \in Epoch, k \in Reason : AdoptsCancel(r, e, k)
    BY <2>1, GossipKinds, ReasonsAreReasons
  <2>2. ASSUME \E e \in Epoch, clear \in BOOLEAN : HandleDecisionGossip(r, Order(e, clear))
        PROVE  \E d \in Entry : AdoptsOrder(r, d)
    <3>1. PICK e \in Epoch, clear \in BOOLEAN : HandleDecisionGossip(r, Order(e, clear))
      BY <2>2
    <3> DEFINE d == Order(e, clear)
    <3>2. HandleDecisionGossip(r, d)
      BY <3>1
    <3> HIDE DEF d
    <3> QED
      BY <3>2, GossipKinds
  <2>3. ASSUME \E adopt \in BOOLEAN, primary \in MayLead(r) : ProcessOrder(r, adopt, primary)
        PROVE  TakesOrder(r)
    BY <2>3, OrderKinds DEF MayLead
  <2> QED
    BY <1>1, <2>1, <2>2, <2>3, CertKinds, SubmitKinds, CancelKinds, ReadinessKinds DEF AppStep
<1>2. CASE Tow
  BY <1>2 DEF Tow, Kinds, Idle, bridgeVars, pbftVars
<1>3. CASE UNCHANGED vars
  BY <1>3 DEF vars, Kinds, Idle, bridgeVars, pbftVars
<1>4. CASE Protocol
  BY <1>1, <1>4, NoneUnchecked DEF Protocol, Kinds
<1> QED
  BY <1>2, <1>3, <1>4 DEF Next
-----------------------------------------------------------------------------
(* The executors: nobody is moved past what PBFT has ordered *)

\* PBFT has ordered an ORDER of epoch e.
HasOrder(e) == \E i \in 1 .. Len(ledger) : ledger[i].kind = "ORDER" /\ ledger[i].epoch = e

\* The ORDER of an epoch that r has queued, committed, gossiped or witnessed an incident
\* of is one that PBFT ordered.
KnownOrders(r) ==
    /\ \A i \in 1 .. Len(pending_orders[r]) :
          pending_orders[r][i].kind = "ORDER" => HasOrder(pending_orders[r][i].epoch)
    /\ app[r].last_committed >= 0 => HasOrder(app[r].last_committed)
    /\ \A d \in app[r].order_gossip : HasOrder(d.epoch)
    /\ \A w \in app[r].echo_sent : HasOrder(w[1])

\* Two decisions of every earlier epoch come before the decisions of an epoch: the
\* sequence number AdvanceExecutorAfterGossipCancel() computes is never too large.
DeepEnough ==
    \A i \in 1 .. Len(ledger) :
        i >= 2 * ledger[i].epoch + (IF ledger[i].kind = "ORDER" THEN 1 ELSE 2)

LedgerInv ==
    /\ RecoveryInv /\ WitnessInv
    /\ \A r \in Honest : KnownOrders(r)
    /\ DeepEnough
    /\ ExecutorsBehind

\* A step leaves the ledger alone or commits one proposal.
LEMMA LedgerSteps ==
    ASSUME Kinds
    PROVE  UNCHANGED ledger \/ \E p \in proposed : Commit(p)
BY DEF Kinds, Local, TakesCancel, TakesOrder, Execute, AdoptsCancel, AdoptsOrder,
       CommitCancel, CommitOrder, VoteOrder, Idle, pbftVars

\* What PBFT has ordered stays ordered.
LEMMA OrdersStay ==
    ASSUME TypeOK, Kinds, NEW e, HasOrder(e)
    PROVE  HasOrder(e)'
<1>1. CASE UNCHANGED ledger
  BY <1>1 DEF HasOrder
<1>2. ASSUME NEW p \in proposed, Commit(p) PROVE HasOrder(e)'
  BY <1>2, LedgerGrows DEF HasOrder
<1> QED
  BY <1>1, <1>2, LedgerSteps

\* A commit puts a decision at a sequence number large enough for its epoch.
LEMMA CommitDeepEnough ==
    ASSUME LedgerInv, RecoveryInv', WitnessInv', NEW p \in proposed, Commit(p)
    PROVE  DeepEnough'
<1> DEFINE n == Len(ledger)
<1>1. /\ n \in Nat /\ Len(ledger') = n + 1 /\ ledger'[n + 1] \in Entry
      /\ \A i \in 1 .. n : ledger'[i] = ledger[i] /\ ledger[i] \in Entry
      /\ \A i \in 1 .. n + 1 : i \in 1 .. n \/ i = n + 1
      /\ UNCHANGED app
  BY LedgerGrows DEF LedgerInv, RecoveryInv, AdoptionInv, TypeOK
<1>2. \A i \in 1 .. n :
         i >= 2 * ledger'[i].epoch + (IF ledger'[i].kind = "ORDER" THEN 1 ELSE 2)
  BY <1>1 DEF LedgerInv, DeepEnough
<1> HIDE DEF n
<1> DEFINE d == ledger'[n + 1]
<1>3. /\ d \in Entry /\ d.epoch \in Nat /\ d.kind \in {"ORDER", "CANCEL"}
      /\ n + 1 \in 1 .. Len(ledger')
  BY <1>1 DEF Entry
<1>4. CASE d.kind = "ORDER" /\ d.epoch = 0
  BY <1>1, <1>2, <1>4 DEF DeepEnough
<1>5. CASE d.kind = "ORDER" /\ d.epoch > 0
  <2>1. PICK j \in 1 .. (n + 1) - 1 : /\ ledger'[j].kind = "CANCEL"
                                      /\ ledger'[j].epoch = d.epoch - 1
    BY <1>3, <1>5 DEF RecoveryInv, RecoveriesFollow
  <2>2. j \in 1 .. n /\ j >= 2 * (d.epoch - 1) + 2
    BY <1>1, <1>2, <2>1
  <2>3. n + 1 >= 2 * d.epoch + 1
    BY <1>1, <1>3, <2>2
  <2> QED
    BY <1>1, <1>2, <1>5, <2>3 DEF DeepEnough
<1>6. CASE d.kind = "CANCEL"
  <2>1. PICK q \in Honest : <<d.epoch, d.reason>> \in app[q].echo_sent
    BY <1>1, <1>3, <1>6 DEF RecoveryInv, AdoptionInv, WitnessInv, DecidedWitnessed
  <2>2. HasOrder(d.epoch)
    BY <2>1 DEF LedgerInv, KnownOrders
  <2>3. PICK j \in 1 .. n : ledger'[j].kind = "ORDER" /\ ledger'[j].epoch = d.epoch
    BY <1>1, <2>2 DEF HasOrder, n
  <2>4. j >= 2 * d.epoch + 1
    BY <1>2, <2>3
  <2>5. n + 1 >= 2 * d.epoch + 2
    BY <1>1, <1>3, <2>4
  <2> QED
    BY <1>1, <1>2, <1>6, <2>5 DEF DeepEnough
<1> QED
  BY <1>3, <1>4, <1>5, <1>6

\* The executor moves by one decision of the ledger, or past an adopted CANCEL.
LEMMA ExecutorStays ==
    ASSUME LedgerInv, Kinds
    PROVE  ExecutorsBehind'
<1>1. TypeOK /\ TombstonesDecided
  BY DEF LedgerInv, RecoveryInv, AdoptionInv
<1>2. \A q \in Honest : executed[q] <= Len(ledger) /\ executed[q] \in Nat
  BY <1>1 DEF LedgerInv, ExecutorsBehind, TypeOK
<1>3. Len(ledger) \in Nat
  BY <1>1 DEF TypeOK
<1>4. CASE UNCHANGED <<executed, ledger>>
  BY <1>4 DEF LedgerInv, ExecutorsBehind
<1>5. ASSUME NEW p \in proposed, Commit(p) PROVE ExecutorsBehind'
  <2>1. UNCHANGED executed /\ Len(ledger') = Len(ledger) + 1
    BY <1>1, <1>5, LedgerGrows
  <2> QED
    BY <1>2, <1>3, <2>1 DEF ExecutorsBehind
<1>6. ASSUME NEW r \in Honest, Execute(r) PROVE ExecutorsBehind'
  <2>1. \A q \in Honest : executed'[q] = IF q = r THEN executed[q] + 1 ELSE executed[q]
    BY <1>1, <1>6 DEF Execute, TypeOK
  <2>2. executed[r] < Len(ledger) /\ UNCHANGED ledger
    BY <1>6 DEF Execute, pbftVars
  <2> QED
    BY <1>2, <1>3, <2>1, <2>2 DEF ExecutorsBehind
<1>7. ASSUME NEW r \in Honest, NEW e \in Epoch, NEW k \in Reason, AdoptsCancel(r, e, k)
      PROVE  ExecutorsBehind'
  <2>1. \A q \in Honest :
           executed'[q] = IF q = r THEN GossipTarget(r, e) - 1 ELSE executed[q]
    BY <1>1, <1>7 DEF AdoptsCancel, TypeOK
  <2>2. Decided(Cancel(e, k)) /\ UNCHANGED ledger
    BY <1>1, <1>7 DEF AdoptsCancel, TombstonesDecided, Reason
  <2>3. PICK i \in 1 .. Len(ledger) : ledger[i] = Cancel(e, k)
    BY <2>2 DEF Decided
  <2>4. e \in Nat /\ i >= 2 * e + 2
    BY <2>3, EpochIsNat DEF LedgerInv, DeepEnough, Cancel
  <2>5. GossipTarget(r, e) - 1 <= Len(ledger)
    BY <1>2, <1>3, <2>3, <2>4 DEF GossipTarget, Larger
  <2> QED
    BY <1>2, <2>1, <2>2, <2>5 DEF ExecutorsBehind
<1>8. \/ UNCHANGED <<executed, ledger>>
      \/ \E p \in proposed : Commit(p)
      \/ \E r \in Honest : \/ Execute(r)
                           \/ \E e \in Epoch, k \in Reason : AdoptsCancel(r, e, k)
  BY DEF Kinds, Local, TakesCancel, TakesOrder, AdoptsOrder, CommitCancel, CommitOrder,
         VoteOrder, Idle, bridgeVars
<1> QED
  BY <1>4, <1>5, <1>6, <1>7, <1>8
\* Whatever a vehicle does, it learns of no ORDER that PBFT did not order.
LEMMA KnownOrdersStay ==
    ASSUME LedgerInv, Kinds, NEW q \in Honest
    PROVE  KnownOrders(q)'
<1>1. TypeOK /\ \A r \in Honest : app[r] \in AppState
  BY DEF LedgerInv, RecoveryInv, AdoptionInv, TypeOK
<1>2. \A e : HasOrder(e) => HasOrder(e)'
  BY <1>1, OrdersStay
<1>3. KnownOrders(q)
  BY DEF LedgerInv
<1>4. ASSUME app'[q] = app[q], pending_orders'[q] = pending_orders[q]
      PROVE  KnownOrders(q)'
  BY <1>2, <1>3, <1>4 DEF KnownOrders
<1>5. ASSUME Local(q) PROVE KnownOrders(q)'
  <2>1. /\ app'[q].last_committed = app[q].last_committed
        /\ app'[q].order_gossip = app[q].order_gossip /\ UNCHANGED pending_orders
    BY <1>5 DEF Local, Steady
  <2>2. \A w \in app'[q].echo_sent :
           \/ w \in app[q].echo_sent
           \/ w[1] = app[q].last_committed /\ w[1] \in 0 .. MaxEpoch - 1
    BY <1>5 DEF Local, Signs
  <2>3. \A w \in app'[q].echo_sent : HasOrder(w[1])
    BY <1>3, <2>2, ConfigAssumption DEF KnownOrders
  <2> QED
    BY <1>2, <1>3, <2>1, <2>3 DEF KnownOrders
<1>6. ASSUME TakesCancel(q) PROVE KnownOrders(q)'
  <2>1. /\ app'[q].last_committed = app[q].last_committed
        /\ app'[q].order_gossip = app[q].order_gossip
        /\ app'[q].echo_sent = app[q].echo_sent
    BY <1>6 DEF TakesCancel, Cancelled
  <2>2. \A i \in 1 .. Len(pending_orders'[q]) :
           /\ i + 1 \in 1 .. Len(pending_orders[q])
           /\ pending_orders'[q][i] = pending_orders[q][i + 1]
    BY <1>1, <1>6, QueueShrinks DEF TakesCancel
  <2> QED
    BY <1>2, <1>3, <2>1, <2>2 DEF KnownOrders
<1>7. ASSUME TakesOrder(q) PROVE KnownOrders(q)'
  <2> DEFINE d == Head(pending_orders[q])
  <2>1. /\ d = pending_orders[q][1] /\ 1 \in 1 .. Len(pending_orders[q])
        /\ \A i \in 1 .. Len(pending_orders'[q]) :
              /\ i + 1 \in 1 .. Len(pending_orders[q])
              /\ pending_orders'[q][i] = pending_orders[q][i + 1]
    BY <1>1, <1>7, QueueShrinks DEF TakesOrder
  <2>2. d.kind = "ORDER"
    BY <1>7 DEF TakesOrder
  <2>3. HasOrder(d.epoch)
    BY <1>3, <2>1, <2>2 DEF KnownOrders
  <2>4. /\ app'[q].last_committed \in {app[q].last_committed, d.epoch}
        /\ app'[q].order_gossip \subseteq app[q].order_gossip \cup {d}
        /\ app'[q].echo_sent = app[q].echo_sent
    BY <1>7 DEF TakesOrder, Applied
  <2> HIDE DEF d
  <2> QED
    BY <1>2, <1>3, <2>1, <2>3, <2>4 DEF KnownOrders
<1>8. ASSUME Execute(q) PROVE KnownOrders(q)'
  <2> DEFINE d == ledger[executed[q] + 1]
  <2>1. executed[q] + 1 \in 1 .. Len(ledger)
    BY <1>1, <1>8 DEF Execute, TypeOK
  <2>2. d \in Entry
    BY <1>1, <2>1 DEF TypeOK
  <2>3. d.kind = "ORDER" => HasOrder(d.epoch)
    BY <2>1 DEF HasOrder
  <2>4. pending_orders' = [pending_orders EXCEPT ![q] = Append(@, d)] /\ UNCHANGED app
    BY <1>8 DEF Execute
  <2> HIDE DEF d
  <2>5. \A i \in 1 .. Len(pending_orders'[q]) :
           \/ i \in 1 .. Len(pending_orders[q]) /\ pending_orders'[q][i] = pending_orders[q][i]
           \/ pending_orders'[q][i] = d
    BY <1>1, <2>2, <2>4, QueueGrows
  <2> QED
    BY <1>2, <1>3, <2>3, <2>4, <2>5 DEF KnownOrders
<1>9. ASSUME NEW e \in Epoch, NEW k \in Reason, AdoptsCancel(q, e, k) PROVE KnownOrders(q)'
  <2>1. /\ app'[q].last_committed = app[q].last_committed
        /\ app'[q].order_gossip = app[q].order_gossip
        /\ app'[q].echo_sent = app[q].echo_sent /\ UNCHANGED pending_orders
    BY <1>9 DEF AdoptsCancel, Cancelled
  <2> QED
    BY <1>2, <1>3, <2>1 DEF KnownOrders
<1>10. ASSUME NEW d \in Entry, AdoptsOrder(q, d) PROVE KnownOrders(q)'
  <2>1. HasOrder(d.epoch)
    BY <1>10 DEF AdoptsOrder, LedgerInv, KnownOrders
  <2>2. pending_orders' = [pending_orders EXCEPT ![q] = Append(@, d)]
    BY <1>10 DEF AdoptsOrder
  <2>3. /\ app'[q].last_committed = d.epoch
        /\ app'[q].order_gossip = app[q].order_gossip
        /\ app'[q].echo_sent = app[q].echo_sent
    BY <1>1, <1>10 DEF AdoptsOrder, AppState
  <2>4. \A i \in 1 .. Len(pending_orders'[q]) :
           \/ i \in 1 .. Len(pending_orders[q]) /\ pending_orders'[q][i] = pending_orders[q][i]
           \/ pending_orders'[q][i] = d
    BY <1>1, <2>2, QueueGrows
  <2> QED
    BY <1>2, <1>3, <2>1, <2>3, <2>4 DEF KnownOrders
<1>11. ASSUME NEW r \in Honest \ {q},
              \/ Local(r) \/ TakesCancel(r) \/ TakesOrder(r) \/ Execute(r)
              \/ \E e \in Epoch, k \in Reason : AdoptsCancel(r, e, k)
              \/ \E d \in Entry : AdoptsOrder(r, d)
       PROVE  KnownOrders(q)'
  <2>1. app'[q] = app[q]
    BY <1>11 DEF Local, TakesCancel, TakesOrder, Execute, AdoptsCancel, AdoptsOrder, Others
  <2>2. pending_orders'[q] = pending_orders[q]
    BY <1>1, <1>11 DEF Local, TakesCancel, TakesOrder, Execute, AdoptsCancel, AdoptsOrder,
                       Dequeue, TypeOK
  <2> QED
    BY <1>4, <2>1, <2>2
<1>12. ASSUME \/ \E p \in proposed : CommitCancel(p) \/ CommitOrder(p)
              \/ \E v \in Honest, p \in proposed : VoteOrder(v, p)
              \/ Idle
       PROVE  KnownOrders(q)'
  <2>1. UNCHANGED <<app, pending_orders>>
    BY <1>12 DEF CommitCancel, CommitOrder, Commit, VoteOrder, Idle, bridgeVars
  <2> QED
    BY <1>4, <2>1
<1> QED
  BY <1>5, <1>6, <1>7, <1>8, <1>9, <1>10, <1>11, <1>12 DEF Kinds

\* At the start PBFT has ordered ORDER(0), and nothing is queued or proposed.
LEMMA InitLedger ==
    ASSUME Init
    PROVE  /\ Len(ledger) = 1 /\ ledger[1].kind = "ORDER" /\ ledger[1].epoch = 0
           /\ \A i \in 1 .. Len(ledger) : i = 1
           /\ \A r \in Honest : Len(pending_orders[r]) = 0
           /\ \A r \in Honest : 1 .. Len(pending_orders[r]) = {}
           /\ \A r \in Honest : app[r] = InitialApp(r)
           /\ proposed = {}
<1>1. ASSUME NEW d
      PROVE  Len(<<d>>) = 1 /\ <<d>>[1] = d
  OBVIOUS
<1>2. Len(ledger) = 1 /\ ledger[1] = Order(0, FALSE)
  BY <1>1 DEF Init
<1>3. ledger[1].kind = "ORDER" /\ ledger[1].epoch = 0
  BY <1>2 DEF Order
<1>4. \A i \in 1 .. 1 : i = 1
  OBVIOUS
<1>5. \A r \in Honest : Len(pending_orders[r]) = 0
  BY DEF Init
<1>6. 1 .. 0 = {}
  OBVIOUS
<1> QED
  BY <1>2, <1>3, <1>4, <1>5, <1>6 DEF Init

\* At the start nobody has executed more than ORDER(0).
LEMMA LedgerInit == Init => LedgerInv
<1> SUFFICES ASSUME Init PROVE LedgerInv
  OBVIOUS
<1>1. RecoveryInv /\ WitnessInv
  BY AdoptionInit, RecoveryInit, WitnessInit
<1>2. /\ Len(ledger) = 1 /\ ledger[1].kind = "ORDER" /\ ledger[1].epoch = 0
      /\ \A i \in 1 .. Len(ledger) : i = 1
  BY InitLedger
<1>3. HasOrder(0)
  BY <1>2 DEF HasOrder
<1>4. DeepEnough
  BY <1>2 DEF DeepEnough
<1>5. ExecutorsBehind
  <2>1. \A r \in Honest : executed[r] \in {0, 1}
    BY DEF Init
  <2> QED
    BY <1>2, <2>1 DEF ExecutorsBehind
<1>6. ASSUME NEW r \in Honest PROVE KnownOrders(r)
  <2>1. app[r] = InitialApp(r) /\ 1 .. Len(pending_orders[r]) = {}
    BY InitLedger
  <2>2. app[r].last_committed = 0 \/ ~(app[r].last_committed >= 0)
    BY <2>1 DEF InitialApp, None
  <2>3. \A d \in app[r].order_gossip : d = Order(0, FALSE)
    <3>1. app[r].order_gossip = IF r \notin Stragglers /\ GossipEnabled
                                THEN {Order(0, FALSE)} ELSE {}
      BY <2>1 DEF InitialApp
    <3> QED
      BY <3>1
  <2>4. Order(0, FALSE).epoch = 0
    BY DEF Order
  <2>5. app[r].echo_sent = {}
    BY <2>1 DEF InitialApp
  <2> QED
    BY <1>3, <2>1, <2>2, <2>3, <2>4, <2>5 DEF KnownOrders
<1> QED
  BY <1>1, <1>4, <1>5, <1>6 DEF LedgerInv

\* Every step keeps the executors within the ledger.
LEMMA LedgerNext == LedgerInv /\ RecoveryInv' /\ WitnessInv' /\ [Next]_vars => LedgerInv'
<1> SUFFICES ASSUME LedgerInv, RecoveryInv', WitnessInv', [Next]_vars PROVE LedgerInv'
  OBVIOUS
<1>1. TypeOK /\ Checked'
  BY DEF LedgerInv, RecoveryInv, AdoptionInv
<1>2. Kinds
  BY <1>1, StepKinds
<1>3. DeepEnough'
  <2>1. CASE UNCHANGED ledger
    BY <2>1 DEF LedgerInv, DeepEnough
  <2>2. CASE \E p \in proposed : Commit(p)
    BY <2>2, CommitDeepEnough
  <2> QED
    BY <1>2, <2>1, <2>2, LedgerSteps
<1>4. \A r \in Honest : KnownOrders(r)'
  BY <1>2, KnownOrdersStay
<1> QED
  BY <1>2, <1>3, <1>4, ExecutorStays DEF LedgerInv

\* The invariants that the theorems below rest on hold as long as thresholds are reached
\* by genuine names and nobody faulty leads.
LEMMA LedgerInvariant ==
    Spec => [](Checked => LedgerInv /\ RecoveryInv /\ WitnessInv /\ AdoptionInv)
<1>1. Spec => [](Checked => AdoptionInv) /\ [](Checked => RecoveryInv)
  BY AdoptionInvariant, RecoveryInvariant, PTL
<1>2. Spec => []WitnessInv
  BY WitnessInit, WitnessNext, TypeCorrect, PTL DEF Spec
<1>3. Init => (Checked => LedgerInv)
  BY LedgerInit
<1>4. /\ Checked => LedgerInv
      /\ TypeOK /\ (Checked => RecoveryInv)' /\ WitnessInv'
      /\ [Next]_vars
      => (Checked => LedgerInv)'
  BY CheckedBefore, LedgerNext
<1>5. Spec => [](Checked => LedgerInv)
  BY <1>1, <1>2, <1>3, <1>4, TypeCorrect, PTL DEF Spec
<1> QED
  BY <1>1, <1>2, <1>5, PTL

\* AdvanceExecutorAfterGossipCancel() never moves an executor past the sequence PBFT has
\* ordered, so no decision is skipped that the ledger does not hold yet: a CANCEL(e) that
\* f+1 vehicles attest was ordered, after an ORDER(e) that a witness had committed, after
\* a CANCEL(e-1), and so on down to epoch 0: at least 2(e+1) decisions. Hypothesis, in
\* ExecutorWithinLedger: Checked, that is, so far the f+1 were f+1 (the handlers of gossip
\* count the names messages carry) and every decision PBFT ordered was proposed by an
\* honest leader. What a faulty vehicle says under its own name is in the model.
THEOREM ExecutorsFollowLedger == Spec => []ExecutorWithinLedger
<1>1. (Checked => LedgerInv) => ExecutorWithinLedger
  BY DEF LedgerInv, ExecutorWithinLedger
<1> QED
  BY <1>1, LedgerInvariant, PTL
-----------------------------------------------------------------------------
(* The evidence gate: who recovers from a crash marked the epoch before *)

\* Without gossip every vehicle has marked the epoch it works for, and an ORDER its own
\* proposer let pass carries CLEAR evidence.
Marked(r) ==
    /\ \A i \in 1 .. Len(pending_orders[r]) :
          pending_orders[r][i].kind = "CANCEL" =>
             pending_orders[r][i].epoch + 1 \in crash_epochs[r]
    /\ app[r].current_epoch > 0 => app[r].current_epoch \in crash_epochs[r]
    /\ \A w \in app[r].echo_sent : w[2] = "CRASH"

\* A proposal is an honest vehicle's, and a recovery ORDER that of a marked epoch.
ProposerMarked(p) ==
    /\ p.leader \in Honest
    /\ p.entry.kind = "ORDER" /\ p.entry.epoch > 0 =>
          p.entry.epoch \in crash_epochs[p.leader]

\* What a proposer voted for itself has passed the gate.
Gated(p) == p.entry.kind = "ORDER" /\ p.entry.epoch > 0 => p.entry.clear

EvidenceInv ==
    /\ WitnessInv /\ ClearInv /\ Checked
    /\ \A r \in Honest : Marked(r)
    /\ \A p \in proposed : ProposerMarked(p)
    /\ \A r \in Honest : \A p \in votes[r] : p.leader = r => Gated(p)
    /\ RecoveryOrderOnlyAfterClear

\* Only crashes are witnessed, so only crashes are cancelled.
LEMMA OnlyCrashes ==
    ASSUME EvidenceInv, NEW i \in 1 .. Len(ledger), ledger[i].kind = "CANCEL"
    PROVE  ledger[i].reason = "CRASH"
BY DEF EvidenceInv, WitnessInv, DecidedWitnessed, Marked

\* ExecuteData() marks an epoch before the CANCEL that starts it can be processed, and
\* never takes a mark back.
LEMMA MarkedStays ==
    ASSUME EvidenceInv, Kinds, ~GossipEnabled, "EMERGENCY" \notin Reasons, NEW q \in Honest
    PROVE  Marked(q)' /\ crash_epochs[q] \subseteq crash_epochs'[q]
<1>1. TypeOK /\ \A r \in Honest : app[r] \in AppState
  BY DEF EvidenceInv, WitnessInv, TypeOK
<1>2. Marked(q)
  BY DEF EvidenceInv
<1>3. ASSUME app'[q] = app[q], pending_orders'[q] = pending_orders[q],
             crash_epochs'[q] = crash_epochs[q]
      PROVE  Marked(q)' /\ crash_epochs[q] \subseteq crash_epochs'[q]
  BY <1>2, <1>3 DEF Marked
<1>4. CASE Local(q)
  <2>1. /\ app'[q].current_epoch = app[q].current_epoch
        /\ UNCHANGED <<pending_orders, crash_epochs>>
    BY <1>4 DEF Local, Steady
  <2>2. \A w \in app'[q].echo_sent : w \in app[q].echo_sent \/ w[2] \in Reasons
    BY <1>4 DEF Local, Signs
  <2>3. \A w \in app'[q].echo_sent : w[2] = "CRASH"
    BY <1>2, <2>2, ConfigAssumption DEF Marked
  <2> QED
    BY <1>2, <2>1, <2>3 DEF Marked
<1>5. CASE TakesCancel(q)
  <2> DEFINE d == Head(pending_orders[q])
  <2>1. /\ d \in Entry /\ d = pending_orders[q][1] /\ 1 \in 1 .. Len(pending_orders[q])
        /\ \A i \in 1 .. Len(pending_orders'[q]) :
              /\ i + 1 \in 1 .. Len(pending_orders[q])
              /\ pending_orders'[q][i] = pending_orders[q][i + 1]
    BY <1>1, <1>5, QueueShrinks DEF TakesCancel
  <2>2. d.epoch + 1 \in crash_epochs[q]
    BY <1>2, <1>5, <2>1 DEF TakesCancel, Marked
  <2>3. /\ app'[q].current_epoch \in {app[q].current_epoch, d.epoch + 1}
        /\ app'[q].echo_sent = app[q].echo_sent /\ UNCHANGED crash_epochs
    BY <1>5 DEF TakesCancel, Cancelled
  <2> HIDE DEF d
  <2> QED
    BY <1>2, <2>1, <2>2, <2>3 DEF Marked
<1>6. CASE TakesOrder(q)
  <2>1. \A i \in 1 .. Len(pending_orders'[q]) :
           /\ i + 1 \in 1 .. Len(pending_orders[q])
           /\ pending_orders'[q][i] = pending_orders[q][i + 1]
    BY <1>1, <1>6, QueueShrinks DEF TakesOrder
  <2>2. /\ app'[q].current_epoch = app[q].current_epoch
        /\ app'[q].echo_sent = app[q].echo_sent /\ UNCHANGED crash_epochs
    BY <1>6 DEF TakesOrder, Applied
  <2> QED
    BY <1>2, <2>1, <2>2 DEF Marked
<1>7. CASE Execute(q)
  <2> DEFINE d == ledger[executed[q] + 1]
  <2>1. executed[q] + 1 \in 1 .. Len(ledger)
    BY <1>1, <1>7 DEF Execute, TypeOK
  <2>2. d \in Entry
    BY <1>1, <2>1 DEF TypeOK
  <2>3. d.kind = "CANCEL" => d.reason = "CRASH"
    BY <2>1, OnlyCrashes
  <2>4. pending_orders' = [pending_orders EXCEPT ![q] = Append(@, d)] /\ UNCHANGED app
    BY <1>7 DEF Execute
  <2>5. crash_epochs'[q] = IF d.kind = "CANCEL" /\ d.reason = "CRASH"
                           THEN crash_epochs[q] \cup {d.epoch + 1} ELSE crash_epochs[q]
    BY <1>1, <1>7 DEF Execute, TypeOK
  <2> HIDE DEF d
  <2>6. \A i \in 1 .. Len(pending_orders'[q]) :
           \/ i \in 1 .. Len(pending_orders[q]) /\ pending_orders'[q][i] = pending_orders[q][i]
           \/ pending_orders'[q][i] = d
    BY <1>1, <2>2, <2>4, QueueGrows
  <2> QED
    BY <1>2, <2>3, <2>4, <2>5, <2>6 DEF Marked
<1>8. ASSUME NEW r \in Honest \ {q},
             Local(r) \/ TakesCancel(r) \/ TakesOrder(r) \/ Execute(r)
      PROVE  Marked(q)' /\ crash_epochs[q] \subseteq crash_epochs'[q]
  <2>1. app'[q] = app[q]
    BY <1>8 DEF Local, TakesCancel, TakesOrder, Execute, Others
  <2>2. pending_orders'[q] = pending_orders[q] /\ crash_epochs'[q] = crash_epochs[q]
    BY <1>1, <1>8 DEF Local, TakesCancel, TakesOrder, Execute, Dequeue, TypeOK
  <2> QED
    BY <1>3, <2>1, <2>2
<1>9. ASSUME \/ \E p \in proposed : CommitCancel(p) \/ CommitOrder(p)
             \/ \E v \in Honest, p \in proposed : VoteOrder(v, p)
             \/ Idle
      PROVE  Marked(q)' /\ crash_epochs[q] \subseteq crash_epochs'[q]
  <2>1. UNCHANGED <<app, pending_orders, crash_epochs>>
    BY <1>9 DEF CommitCancel, CommitOrder, Commit, VoteOrder, Idle, bridgeVars
  <2> QED
    BY <1>3, <2>1
<1> QED
  BY <1>4, <1>5, <1>6, <1>7, <1>8, <1>9 DEF Kinds, AdoptsCancel, AdoptsOrder

\* Who proposes the ORDER of its epoch has marked that epoch.
LEMMA ProposerStaysMarked ==
    ASSUME EvidenceInv, Kinds, ~GossipEnabled, "EMERGENCY" \notin Reasons,
           NEW p \in proposed'
    PROVE  ProposerMarked(p)'
<1>1. \A q \in Honest : crash_epochs[q] \subseteq crash_epochs'[q]
  BY MarkedStays
<1>2. CASE p \in proposed
  BY <1>1, <1>2 DEF EvidenceInv, ProposerMarked
<1>3. CASE p \notin proposed
  <2>1. PICK r \in Honest : Proposes(r)
    BY <1>3 DEF Kinds, Local, TakesCancel, TakesOrder, Execute, AdoptsCancel, AdoptsOrder,
                CommitCancel, CommitOrder, Commit, VoteOrder, Idle, pbftVars
  <2>2. /\ p.leader = r
        /\ p.entry.kind = "ORDER" => p.entry.epoch = app[r].current_epoch
    BY <1>3, <2>1 DEF Proposes
  <2>3. app[r].current_epoch > 0 => app[r].current_epoch \in crash_epochs[r]
    BY DEF EvidenceInv, Marked
  <2> QED
    BY <1>1, <2>2, <2>3 DEF ProposerMarked
<1> QED
  BY <1>2, <1>3

\* PreVerify() of the proposer itself asks for the trailer.
LEMMA GateStays ==
    ASSUME EvidenceInv, Kinds, NEW r \in Honest, NEW p \in votes'[r], p.leader = r
    PROVE  Gated(p)
<1>1. CASE p \in votes[r]
  BY <1>1 DEF EvidenceInv
<1>2. CASE p \notin votes[r]
  <2>1. PICK v \in Honest, x \in proposed : VoteOrder(v, x)
    <3>1. ASSUME NEW x \in proposed, Commit(x) PROVE votes'[r] \subseteq votes[r]
      BY <3>1 DEF Commit
    <3> QED
      BY <1>2, <3>1 DEF Kinds, Local, TakesCancel, TakesOrder, Execute, AdoptsCancel,
           AdoptsOrder, CommitCancel, CommitOrder, Idle, pbftVars
  <2>2. votes' = [votes EXCEPT ![v] = @ \cup {x}] /\ PreVerify(v, x.entry)
    BY <2>1 DEF VoteOrder
  <2>3. v = r /\ x = p
    BY <1>2, <2>2 DEF EvidenceInv, WitnessInv, TypeOK
  <2>4. ProposerMarked(p)
    BY <2>3 DEF EvidenceInv
  <2> QED
    BY <2>2, <2>3, <2>4 DEF PreVerify, ProposerMarked, Gated
<1> QED
  BY <1>1, <1>2

\* A recovery ORDER is committed with a trailer, hence not while the box is full.
LEMMA OnlyAfterClearStays ==
    ASSUME EvidenceInv, [Next]_vars, Kinds
    PROVE  RecoveryOrderOnlyAfterClear'
<1>1. TypeOK
  BY DEF EvidenceInv, WitnessInv
<1>2. SUFFICES ASSUME wreck' = "IN_BOX", NEW i \in 1 .. Len(ledger'),
                      ledger'[i].kind = "ORDER", ledger'[i].epoch > 0
               PROVE  FALSE
  BY DEF RecoveryOrderOnlyAfterClear
<1>3. wreck = "IN_BOX"
  BY <1>2, WreckStays
<1>4. CASE UNCHANGED ledger
  BY <1>2, <1>3, <1>4 DEF EvidenceInv, RecoveryOrderOnlyAfterClear
<1>5. ASSUME NEW p \in proposed, CommitCancel(p) \/ CommitOrder(p) PROVE FALSE
  <2>1. Commit(p)
    BY <1>5 DEF CommitCancel, CommitOrder
  <2>2. /\ Len(ledger) \in Nat /\ ledger'[Len(ledger) + 1] = p.entry
        /\ \A j \in 1 .. Len(ledger) : ledger'[j] = ledger[j]
        /\ i \in 1 .. Len(ledger) \/ i = Len(ledger) + 1
    BY <1>1, <1>2, <2>1, LedgerGrows
  <2>3. i = Len(ledger) + 1
    BY <1>2, <1>3, <2>2 DEF EvidenceInv, RecoveryOrderOnlyAfterClear
  <2>4. p.entry.kind = "ORDER" /\ p.entry.epoch > 0
    BY <1>2, <2>2, <2>3
  <2>5. p \in votes[p.leader] /\ p.leader \in Honest
    BY <1>5, <2>4 DEF CommitCancel, CommitOrder, EvidenceInv, ProposerMarked
  <2>6. p.entry.clear
    BY <2>4, <2>5 DEF EvidenceInv, Gated
  <2>7. ~p.entry.clear
    BY <1>3 DEF EvidenceInv, ClearInv, NothingCleared
  <2> QED
    BY <2>6, <2>7
<1>6. \/ UNCHANGED ledger
      \/ \E p \in proposed : CommitCancel(p) \/ CommitOrder(p)
  BY DEF Kinds, Local, TakesCancel, TakesOrder, Execute, AdoptsCancel, AdoptsOrder,
         VoteOrder, Idle, pbftVars
<1> QED
  BY <1>4, <1>5, <1>6

\* At the start nobody has witnessed, queued or proposed anything.
LEMMA EvidenceInit == Init => EvidenceInv
<1> SUFFICES ASSUME Init PROVE EvidenceInv
  OBVIOUS
<1>1. WitnessInv /\ ClearInv
  BY WitnessInit, ClearInit
<1>2. ASSUME NEW r \in Honest PROVE Marked(r)
  <2>1. app[r].current_epoch = 0 /\ app[r].echo_sent = {}
    BY DEF Init, InitialApp
  <2> QED
    BY <2>1, InitLedger DEF Marked
<1>3. RecoveryOrderOnlyAfterClear
  BY InitLedger DEF RecoveryOrderOnlyAfterClear
<1>4. proposed = {} /\ \A r \in Honest : votes[r] = {}
  BY DEF Init
<1> QED
  BY <1>1, <1>2, <1>3, <1>4 DEF EvidenceInv, Init, Checked

\* An ORDER that follows a crash is ordered only once the box is empty, whatever the f
\* faulty vehicles sign, as long as none of them leads an instance (Checked): the executor of the proposer marked the epoch before its app
\* could work for it, so PreVerify() of the proposer itself asks for CLEAR evidence,
\* and while the wreck stands in the box there is none. With gossip the theorem fails:
\* a vehicle adopts the CANCEL without executing it, marks nothing, and its gate stays
\* open (the finding of the run adopter_evidence).
THEOREM CrashRecoveryWaitsForClear ==
    ASSUME ~GossipEnabled, "EMERGENCY" \notin Reasons
    PROVE  Spec /\ []Checked => []RecoveryOrderOnlyAfterClear
<1>1. EvidenceInv => RecoveryOrderOnlyAfterClear
  BY DEF EvidenceInv
<1>2. Spec => [](WitnessInv /\ ClearInv)
  BY WitnessInit, WitnessNext, ClearInit, ClearNext, TypeCorrect, PTL DEF Spec
<1>3. EvidenceInv /\ (WitnessInv /\ ClearInv)' /\ Checked' /\ [Next]_vars => EvidenceInv'
  <2> SUFFICES ASSUME EvidenceInv, (WitnessInv /\ ClearInv)', Checked', [Next]_vars
               PROVE  EvidenceInv'
    OBVIOUS
  <2>1. Kinds
    BY StepKinds DEF EvidenceInv, WitnessInv
  <2>2. \A r \in Honest : Marked(r)'
    BY <2>1, MarkedStays
  <2>3. \A p \in proposed' : ProposerMarked(p)'
    BY <2>1, ProposerStaysMarked
  <2>4. \A r \in Honest : \A p \in votes'[r] : p.leader = r => Gated(p)
    BY <2>1, GateStays
  <2>5. RecoveryOrderOnlyAfterClear'
    BY <2>1, OnlyAfterClearStays
  <2> QED
    BY <2>2, <2>3, <2>4, <2>5 DEF EvidenceInv, Gated
<1> QED
  BY <1>1, <1>2, <1>3, EvidenceInit, PTL DEF Spec
-----------------------------------------------------------------------------
(* The first rollback: the fields of the app agree *)

\* The fields of an app in which only epoch 0 was ever cancelled.
First(s) ==
    /\ s.cancelled_epoch = 0
    /\ s.consensus_pending => s.cancel_state \in {"DRAINING", "CONSENSUS"} /\ ~Tombstoned(s, 0)
    /\ s.cancel_state = "COMMITTED" => Tombstoned(s, 0)
    /\ s.cancel_pending => Tombstoned(s, 0) /\ s.new_epoch = 1 /\ s.current_epoch = 1
    /\ s.order_applied => ~Tombstoned(s, s.view)

FirstInv ==
    /\ WitnessInv /\ RecoveryInv
    /\ \A r \in Honest : First(app[r])
    /\ \A r \in Honest : \A w \in app[r].echo_sent : w[1] = 0

\* What was ordered to be cancelled is epoch 0.
LEMMA CancelIsFirst ==
    ASSUME FirstInv, NEW e, NEW k, Decided(Cancel(e, k))
    PROVE  e = 0
<1>1. PICK i \in 1 .. Len(ledger) : ledger[i] = Cancel(e, k)
  BY DEF Decided
<1>2. ledger[i].kind = "CANCEL" /\ ledger[i].epoch = e
  BY <1>1 DEF Cancel
<1> QED
  BY <1>2 DEF FirstInv, RecoveryInv, AdoptionInv, WitnessInv, DecidedWitnessed

\* The handlers that learn and apply nothing keep the fields in agreement: in particular
\* a certificate finds a vehicle in COMMITTED only if it has tombstoned the epoch.
LEMMA FirstLocal ==
    ASSUME NEW s \in AppState, NEW t \in AppState, First(s), Steady(s, t),
           Waits(s, t) \/ \E k \in Reason : StartsWait(s, t, 0, k)
    PROVE  First(t)
<1>1. \A e : Tombstoned(t, e) <=> Tombstoned(s, e)
  BY DEF Steady, Tombstoned
<1>2. s.cancel_state \in CancelPhase
  BY DEF AppState
<1>3. CASE Waits(s, t)
  BY <1>1, <1>3 DEF First, Steady, Waits
<1>4. ASSUME NEW k \in Reason, StartsWait(s, t, 0, k) PROVE First(t)
  <2>1. s.cancel_state # "COMMITTED"
    BY <1>4 DEF First, StartsWait
  <2>2. t.cancel_state \in {"DRAINING", "CONSENSUS"}
    BY <1>4, <2>1 DEF StartsWait
  <2> QED
    BY <1>1, <1>4, <2>2 DEF First, Steady, StartsWait
<1> QED
  BY <1>3, <1>4

\* CANCEL(0), the first time or again.
LEMMA FirstCancelled ==
    ASSUME NEW s \in AppState, NEW t \in AppState, NEW k \in Reason, First(s),
           Cancelled(s, t, 0, k)
    PROVE  First(t)
<1>1. 0 \in Epoch /\ k # "NONE"
  BY ConfigAssumption DEF Epoch, Reason
<1>2. t.cancels[0] = k /\ \A e \in Epoch \ {0} : t.cancels[e] = s.cancels[e]
  BY <1>1 DEF Cancelled, AppState
<1>3. Tombstoned(t, 0) /\ \A e : e # 0 => (Tombstoned(t, e) <=> Tombstoned(s, e))
  BY <1>1, <1>2 DEF Tombstoned
<1>4. CASE s.cancel_pending
  <2>1. s.cancelled_epoch = 0 /\ Tombstoned(s, 0) /\ s.new_epoch = 1 /\ s.current_epoch = 1
    BY <1>4 DEF First
  <2>2. t.new_epoch = 1 /\ t.current_epoch = 1 /\ t.order_applied = s.order_applied
    BY <1>4, <2>1 DEF Cancelled
  <2>3. \A e : Tombstoned(t, e) <=> Tombstoned(s, e)
    BY <1>3, <2>1
  <2> QED
    BY <1>3, <2>2, <2>3 DEF Cancelled, First
<1>5. CASE ~s.cancel_pending
  <2>1. t.new_epoch = 1 /\ t.current_epoch = 1 /\ ~t.order_applied
    BY <1>5 DEF Cancelled
  <2> QED
    BY <1>3, <2>1 DEF Cancelled, First
<1> QED
  BY <1>4, <1>5

\* An ORDER that is not skipped belongs to an epoch that is not tombstoned.
LEMMA FirstApplied ==
    ASSUME NEW s \in AppState, NEW t \in AppState, NEW d, First(s), Applied(s, t, d),
           ~Tombstoned(s, d.epoch)
    PROVE  First(t)
<1>1. \A e : Tombstoned(t, e) <=> Tombstoned(s, e)
  BY DEF Applied, Tombstoned
<1>2. /\ t.view = d.epoch /\ t.current_epoch = s.current_epoch /\ t.new_epoch = s.new_epoch
      /\ t.cancelled_epoch = s.cancelled_epoch
      /\ t.consensus_pending = s.consensus_pending
  BY DEF Applied
<1>3. \/ s.cancel_pending /\ ~t.cancel_pending /\ t.cancel_state = "INACTIVE"
      \/ t.cancel_pending = s.cancel_pending /\ t.cancel_state = s.cancel_state
  BY DEF Applied
<1> QED
  BY <1>1, <1>2, <1>3 DEF First

\* Every step of a vehicle keeps its fields in agreement.
LEMMA FirstStays ==
    ASSUME FirstInv, TypeOK', Kinds, MaxEpoch <= 1, NEW q \in Honest
    PROVE  First(app'[q]) /\ \A w \in app'[q].echo_sent : w[1] = 0
<1>1. /\ TypeOK /\ app[q] \in AppState /\ app'[q] \in AppState
      /\ First(app[q]) /\ \A w \in app[q].echo_sent : w[1] = 0
  BY DEF FirstInv, WitnessInv, TypeOK
<1>2. CASE app'[q] = app[q]
  BY <1>1, <1>2
<1>3. CASE Local(q)
  <2>1. \A w \in app'[q].echo_sent : w \in app[q].echo_sent \/ w[1] \in 0 .. MaxEpoch - 1
    BY <1>3 DEF Local, Signs
  <2>2. \A w \in app'[q].echo_sent : w[1] = 0
    BY <1>1, <2>1, ConfigAssumption
  <2>3. ASSUME NEW e \in Epoch, NEW k \in Reason, ValidCert(EchoSigners(e, k), app[q].view)
        PROVE  e = 0
    <3>1. PICK p \in Honest : <<e, k>> \in app[p].echo_sent
      BY <2>3, CertWitnessed DEF Witnessed
    <3> QED
      BY <3>1 DEF FirstInv
  <2>4. Waits(app[q], app'[q]) \/ \E k \in Reason : StartsWait(app[q], app'[q], 0, k)
    BY <1>3, <2>3 DEF Local
  <2> QED
    BY <1>1, <1>3, <2>2, <2>4, FirstLocal DEF Local
<1>4. CASE TakesCancel(q)
  <2> DEFINE d == Head(pending_orders[q])
  <2>1. d = pending_orders[q][1] /\ 1 \in 1 .. Len(pending_orders[q]) /\ d.kind = "CANCEL"
    BY <1>1, <1>4, QueueShrinks DEF TakesCancel
  <2>2. d = Cancel(d.epoch, d.reason) /\ Decided(d) /\ d.reason \in Reason
    BY <2>1 DEF FirstInv, RecoveryInv, AdoptionInv, Plain, Named
  <2>3. d.epoch = 0
    BY <2>2, CancelIsFirst
  <2>4. /\ Cancelled(app[q], app'[q], d.epoch, d.reason)
        /\ app'[q].echo_sent = app[q].echo_sent
    BY <1>4 DEF TakesCancel, Cancelled
  <2> QED
    BY <1>1, <2>2, <2>3, <2>4, FirstCancelled
<1>5. CASE TakesOrder(q)
  <2> DEFINE d == Head(pending_orders[q])
  <2>1. \/ app'[q] = app[q]
        \/ ~Tombstoned(app[q], d.epoch) /\ Applied(app[q], app'[q], d)
    BY <1>5 DEF TakesOrder, SkipsOrder
  <2> QED
    BY <1>1, <1>2, <2>1, FirstApplied DEF Applied
<1>6. ASSUME NEW e \in Epoch, NEW k \in Reason, AdoptsCancel(q, e, k)
      PROVE  First(app'[q]) /\ \A w \in app'[q].echo_sent : w[1] = 0
  <2>1. Decided(Cancel(e, k))
    BY <1>6 DEF AdoptsCancel, FirstInv, RecoveryInv, AdoptionInv, TombstonesDecided, Reason
  <2>2. e = 0
    BY <2>1, CancelIsFirst
  <2>3. Cancelled(app[q], app'[q], e, k) /\ app'[q].echo_sent = app[q].echo_sent
    BY <1>6 DEF AdoptsCancel, Cancelled
  <2> QED
    BY <1>1, <2>2, <2>3, FirstCancelled
<1>7. ASSUME NEW d \in Entry, AdoptsOrder(q, d)
      PROVE  First(app'[q]) /\ \A w \in app'[q].echo_sent : w[1] = 0
  <2>1. app'[q] = [app[q] EXCEPT !.last_committed = d.epoch]
    BY <1>7 DEF AdoptsOrder
  <2>2. \A e : Tombstoned(app'[q], e) <=> Tombstoned(app[q], e)
    BY <1>1, <2>1 DEF Tombstoned, AppState
  <2> QED
    BY <1>1, <2>1, <2>2 DEF First, AppState
<1>8. ASSUME NEW r \in Honest \ {q},
             \/ Local(r) \/ TakesCancel(r) \/ TakesOrder(r) \/ Execute(r)
             \/ \E e \in Epoch, k \in Reason : AdoptsCancel(r, e, k)
             \/ \E d \in Entry : AdoptsOrder(r, d)
      PROVE  app'[q] = app[q]
  BY <1>8 DEF Local, TakesCancel, TakesOrder, Execute, AdoptsCancel, AdoptsOrder, Others
<1>9. ASSUME \/ Execute(q)
             \/ \E p \in proposed : CommitCancel(p) \/ CommitOrder(p)
             \/ \E v \in Honest, p \in proposed : VoteOrder(v, p)
             \/ Idle
      PROVE  app'[q] = app[q]
  BY <1>9 DEF Execute, CommitCancel, CommitOrder, Commit, VoteOrder, Idle
<1> QED
  BY <1>2, <1>3, <1>4, <1>5, <1>6, <1>7, <1>8, <1>9 DEF Kinds

\* At the start nothing is cancelled.
LEMMA FirstInit == Init => FirstInv
<1> SUFFICES ASSUME Init PROVE FirstInv
  OBVIOUS
<1>1. WitnessInv /\ RecoveryInv
  BY AdoptionInit, WitnessInit, RecoveryInit
<1>2. ASSUME NEW r \in Honest PROVE First(app[r]) /\ app[r].echo_sent = {}
  <2>1. app[r] = InitialApp(r)
    BY DEF Init
  <2>2. /\ app[r].cancelled_epoch = 0 /\ ~app[r].consensus_pending
        /\ app[r].cancel_state = "INACTIVE" /\ ~app[r].cancel_pending
        /\ app[r].echo_sent = {} /\ app[r].cancels = [e \in Epoch |-> "NONE"]
    BY <2>1 DEF InitialApp
  <2>3. \A e : ~Tombstoned(app[r], e)
    BY <2>2 DEF Tombstoned
  <2> QED
    BY <2>2, <2>3 DEF First
<1> QED
  BY <1>1, <1>2 DEF FirstInv

\* With MaxEpoch <= 1 a step of any kind keeps every honest vehicle within its first
\* rollback, and every echo it has signed is of epoch 0.
LEMMA FirstNext ==
    ASSUME MaxEpoch <= 1
    PROVE  FirstInv /\ (WitnessInv /\ RecoveryInv)' /\ [Next]_vars => FirstInv'
<1> SUFFICES ASSUME FirstInv, (WitnessInv /\ RecoveryInv)', [Next]_vars PROVE FirstInv'
  OBVIOUS
<1>1. TypeOK /\ TypeOK' /\ Checked'
  BY DEF FirstInv, WitnessInv, RecoveryInv, AdoptionInv
<1>2. Kinds
  BY <1>1, StepKinds
<1>3. \A q \in Honest : First(app'[q]) /\ \A w \in app'[q].echo_sent : w[1] = 0
  BY <1>1, <1>2, FirstStays
<1>4. \A q \in Honest : First(app[q])'
  BY <1>3 DEF First, Tombstoned
<1> QED
  BY <1>3, <1>4 DEF FirstInv

\* So FirstInv holds throughout every behaviour of one rollback cycle in which thresholds
\* are reached by genuine names and nobody faulty leads.
LEMMA FirstInvariant ==
    ASSUME MaxEpoch <= 1
    PROVE  Spec /\ []Checked => []FirstInv
<1>1. Spec /\ []Checked => [](WitnessInv /\ RecoveryInv)
  BY LedgerInvariant, PTL
<1>2. FirstInv /\ (WitnessInv /\ RecoveryInv)' /\ [Next]_vars => FirstInv'
  BY FirstNext
<1> QED
  BY <1>1, <1>2, FirstInit, PTL DEF Spec

\* While its first rollback is pending a vehicle works for epoch 1 and has tombstoned
\* epoch 0: current_epoch_, rollback_new_epoch_ and rollback_cancelled_epoch_ move
\* together, however certificates, decisions and gossip are ordered, as long as what is
\* gossiped was decided (Checked). From the second epoch on a certificate for a later epoch may overwrite rollback_cancelled_epoch_
\* while the earlier rollback is still pending.
THEOREM FirstRecoveryIsCoherent ==
    ASSUME MaxEpoch <= 1
    PROVE  Spec /\ []Checked => []RecoveryCoherent
<1>1. FirstInv => RecoveryCoherent
  BY DEF FirstInv, First, RecoveryCoherent
<1> QED
  BY <1>1, FirstInvariant, PTL

\* A vehicle that accepted the certificate of its first rollback always has a drain or a
\* proposal under way: beginCancelDrain() finds COMMITTED, and so does nothing, only
\* where the epoch is tombstoned and the certificate is refused (while Checked).
THEOREM FirstCertProgresses ==
    ASSUME MaxEpoch <= 1
    PROVE  Spec /\ []Checked => []AcceptedCertProgresses
<1>1. FirstInv => AcceptedCertProgresses
  BY DEF FirstInv, First, AcceptedCertProgresses
<1> QED
  BY <1>1, FirstInvariant, PTL

\* In the first rollback no vehicle keeps applied an ORDER whose epoch it has
\* tombstoned, nor applies one later: a second CANCEL(0) finds the recovery pending and
\* leaves order_applied_, or undoes the ORDER(1) that ended it (while Checked).
THEOREM FirstOrderIsUndone ==
    ASSUME MaxEpoch <= 1
    PROVE  Spec /\ []Checked => []TombstonedNotApplied
<1>1. FirstInv => TombstonedNotApplied
  BY DEF FirstInv, First, TombstonedNotApplied
<1> QED
  BY <1>1, FirstInvariant, PTL

\* The view of the first rollback: who drives by ORDER(1) without having cancelled ORDER(0)
\* adopted it by gossip, and has it applied.
FirstViews ==
    \A r \in Honest : /\ app[r].view <= 1
                      /\ app[r].view = 1 /\ ~Tombstoned(app[r], 0) => app[r].order_applied

\* PBFT orders the ORDERs of epochs 0 and 1 only.
LEMMA FirstOrders ==
    ASSUME FirstInv, NEW e \in Nat, HasOrder(e)
    PROVE  e = 0 \/ e = 1
<1>1. PICK i \in 1 .. Len(ledger) : ledger[i].kind = "ORDER" /\ ledger[i].epoch = e
  BY DEF HasOrder
<1>2. CASE e > 0
  <2>1. PICK j \in 1 .. i - 1 : ledger[j].kind = "CANCEL" /\ ledger[j].epoch = e - 1
    BY <1>1, <1>2 DEF FirstInv, RecoveryInv, RecoveriesFollow
  <2>2. ledger \in Seq(Entry)
    BY DEF FirstInv, WitnessInv, TypeOK
  <2>3. j \in 1 .. Len(ledger)
    BY <1>1, <2>1, <2>2
  <2>4. ledger[j].epoch = 0
    BY <2>1, <2>3 DEF FirstInv, RecoveryInv, AdoptionInv, WitnessInv, DecidedWitnessed
  <2> QED
    BY <2>1, <2>4
<1> QED
  BY <1>2

\* A vehicle that is recalled applies every ORDER it does not skip.
LEMMA FirstViewStays ==
    ASSUME FirstInv, LedgerInv, FirstViews, Kinds, NEW q \in Honest, q \in Members(1)
    PROVE  /\ app[q].view <= app'[q].view /\ app'[q].view <= 1
           /\ app'[q].view = 1 /\ ~Tombstoned(app'[q], 0) => app'[q].order_applied
<1>1. /\ TypeOK /\ app[q] \in AppState /\ First(app[q]) /\ app[q].view \in Int
  BY DEF FirstInv, WitnessInv, TypeOK, AppState
<1>2. /\ app[q].view <= 1
      /\ app[q].view = 1 /\ ~Tombstoned(app[q], 0) => app[q].order_applied
  BY DEF FirstViews
<1>3. CASE /\ app'[q].view = app[q].view /\ app'[q].order_applied = app[q].order_applied
           /\ Tombstoned(app'[q], 0) <=> Tombstoned(app[q], 0)
  BY <1>1, <1>2, <1>3
<1>4. CASE app'[q].view = app[q].view /\ Tombstoned(app'[q], 0)
  BY <1>1, <1>2, <1>4
<1>5. ASSUME NEW d, NEW k \in Reason, d = 0, Cancelled(app[q], app'[q], d, k)
      PROVE  app'[q].view = app[q].view /\ Tombstoned(app'[q], 0)
  <2>1. 0 \in Epoch /\ k # "NONE"
    BY ConfigAssumption DEF Epoch, Reason
  <2>2. app'[q].cancels[0] = k
    BY <1>1, <1>5, <2>1 DEF Cancelled, AppState
  <2> QED
    BY <1>5, <2>1, <2>2 DEF Cancelled, Tombstoned
<1>6. CASE Local(q)
  BY <1>3, <1>6 DEF Local, Steady, Tombstoned
<1>7. CASE TakesCancel(q)
  <2> DEFINE d == Head(pending_orders[q])
  <2>1. d = pending_orders[q][1] /\ 1 \in 1 .. Len(pending_orders[q]) /\ d.kind = "CANCEL"
    BY <1>1, <1>7, QueueShrinks DEF TakesCancel
  <2>2. d = Cancel(d.epoch, d.reason) /\ Decided(d) /\ d.reason \in Reason
    BY <2>1 DEF FirstInv, RecoveryInv, AdoptionInv, Plain, Named
  <2>3. d.epoch = 0
    BY <2>2, CancelIsFirst
  <2> QED
    BY <1>4, <1>5, <1>7, <2>2, <2>3 DEF TakesCancel
<1>8. CASE TakesOrder(q)
  <2> DEFINE d == Head(pending_orders[q])
  <2>1. CASE app'[q] = app[q]
    BY <1>3, <2>1
  <2>2. CASE app'[q] # app[q]
    <3>1. /\ ~SkipsOrder(app[q], d) /\ Applied(app[q], app'[q], d)
          /\ ~app[q].cancel_pending /\ q \in Members(d.epoch) => app'[q].order_applied
      BY <1>8, <2>2 DEF TakesOrder
    <3>2. /\ d \in Entry /\ d.epoch \in Nat /\ d.kind = "ORDER"
          /\ d = pending_orders[q][1] /\ 1 \in 1 .. Len(pending_orders[q])
      BY <1>1, <1>8, QueueShrinks DEF TakesOrder, Entry
    <3>3. d.epoch = 0 \/ d.epoch = 1
      BY <3>2, FirstOrders DEF LedgerInv, KnownOrders
    <3>4. /\ app'[q].view = d.epoch
          /\ Tombstoned(app'[q], 0) <=> Tombstoned(app[q], 0)
      BY <3>1 DEF Applied, Tombstoned
    <3>5. CASE d.epoch = 0
      <4>1. ~Tombstoned(app[q], 0) /\ ~(app[q].order_applied /\ 0 <= app[q].current_epoch)
        BY <3>1, <3>5 DEF SkipsOrder
      <4>2. app[q].current_epoch \in Nat
        BY <1>1 DEF AppState
      <4>3. app[q].view # 1
        BY <1>2, <4>1, <4>2
      <4> QED
        BY <1>1, <1>2, <3>4, <3>5, <4>3
    <3>6. CASE d.epoch = 1
      <4>1. ~Tombstoned(app[q], 0) => ~app[q].cancel_pending
        BY <1>1 DEF First
      <4> QED
        BY <1>2, <3>1, <3>4, <3>6, <4>1
    <3> QED
      BY <3>3, <3>5, <3>6
  <2> QED
    BY <2>1, <2>2
<1>9. ASSUME NEW e \in Epoch, NEW k \in Reason, AdoptsCancel(q, e, k)
      PROVE  app'[q].view = app[q].view /\ Tombstoned(app'[q], 0)
  <2>1. Decided(Cancel(e, k))
    BY <1>9 DEF AdoptsCancel, FirstInv, RecoveryInv, AdoptionInv, TombstonesDecided, Reason
  <2>2. e = 0
    BY <2>1, CancelIsFirst
  <2> QED
    BY <1>5, <1>9, <2>2 DEF AdoptsCancel
<1>10. ASSUME NEW d, AdoptsOrder(q, d)
       PROVE  /\ app'[q].view = app[q].view /\ app'[q].order_applied = app[q].order_applied
              /\ Tombstoned(app'[q], 0) <=> Tombstoned(app[q], 0)
  BY <1>1, <1>10 DEF AdoptsOrder, Tombstoned, AppState
<1>11. ASSUME NEW r \in Honest \ {q},
              \/ Local(r) \/ TakesCancel(r) \/ TakesOrder(r) \/ Execute(r)
              \/ \E e \in Epoch, k \in Reason : AdoptsCancel(r, e, k)
              \/ \E d \in Entry : AdoptsOrder(r, d)
       PROVE  app'[q] = app[q]
  BY <1>11 DEF Local, TakesCancel, TakesOrder, Execute, AdoptsCancel, AdoptsOrder, Others
<1>12. ASSUME \/ Execute(q)
              \/ \E p \in proposed : CommitCancel(p) \/ CommitOrder(p)
              \/ \E v \in Honest, p \in proposed : VoteOrder(v, p)
              \/ Idle
       PROVE  app'[q] = app[q]
  BY <1>12 DEF Execute, CommitCancel, CommitOrder, Commit, VoteOrder, Idle
<1> QED
  BY <1>3, <1>4, <1>6, <1>7, <1>8, <1>9, <1>10, <1>11, <1>12 DEF Kinds

\* With gossip too, no vehicle goes back to ORDER(0) from ORDER(1), if every honest
\* vehicle is in ORDER(1) and what is gossiped was decided (Checked): a late ORDER(0) meets
\* its tombstone or an ORDER that is applied.
\* A vehicle that is not recalled applies nothing by ORDER(1), and a late ORDER(0) moves
\* its view back.
THEOREM FirstViewsAdvance ==
    ASSUME MaxEpoch <= 1, Honest \subseteq Members(1)
    PROVE  Spec /\ []Checked => ViewsAdvance
<1>1. Spec /\ []Checked => [](FirstInv /\ LedgerInv)
  BY FirstInvariant, LedgerInvariant, PTL
<1>2. Init => FirstViews
  <2> SUFFICES ASSUME Init, NEW r \in Honest
               PROVE  app[r].view <= 1 /\ app[r].view # 1
    BY DEF FirstViews
  <2>1. app[r].view \in {None, 0}
    BY DEF Init, InitialApp
  <2> QED
    BY <2>1 DEF None
<1>3. FirstInv /\ LedgerInv /\ FirstViews /\ Checked' /\ [Next]_vars
      => FirstViews' /\ \A r \in Honest : app[r].view <= app'[r].view
  <2> SUFFICES ASSUME FirstInv, LedgerInv, FirstViews, Checked', [Next]_vars
               PROVE  FirstViews' /\ \A r \in Honest : app[r].view <= app'[r].view
    OBVIOUS
  <2>1. Kinds
    BY StepKinds DEF FirstInv, WitnessInv
  <2>2. \A r \in Honest : /\ app[r].view <= app'[r].view /\ app'[r].view <= 1
                          /\ app'[r].view = 1 /\ ~Tombstoned(app'[r], 0)
                                => app'[r].order_applied
    BY <2>1, FirstViewStays
  <2> QED
    BY <2>2 DEF FirstViews, Tombstoned
<1>4. FirstInv /\ LedgerInv /\ FirstViews /\ Checked' /\ [Next]_vars
      => [\A r \in Honest : app[r].view <= app'[r].view]_vars
  BY <1>3
<1> QED
  BY <1>1, <1>2, <1>3, <1>4, PTL DEF Spec, ViewsAdvance
-----------------------------------------------------------------------------
(* Without gossip: every app follows the ledger decision by decision *)

\* The decisions the app of r is through with.
Done(r) == executed[r] - Len(pending_orders[r])

\* One of the first n decisions of s is of this kind and epoch.
Has(s, n, kind, e) == \E i \in 1 .. n : s[i].kind = kind /\ s[i].epoch = e

\* Before decision i of s come the CANCELs of all epochs before its own, and before a
\* CANCEL its ORDER.
Founded(s, i) ==
    /\ \A f \in Nat : f < s[i].epoch => Has(s, i - 1, "CANCEL", f)
    /\ s[i].kind = "CANCEL" => Has(s, i - 1, "ORDER", s[i].epoch)

Closed == \A i \in 1 .. Len(ledger) : Founded(ledger, i)

\* The queue continues where the app is; its tombstones and its view are those of the
\* decisions it is through with.
InOrder(r) ==
    /\ Done(r) >= 0
    /\ \A i \in 1 .. Len(pending_orders[r]) : pending_orders[r][i] = ledger[Done(r) + i]
    /\ \A e \in Epoch : Tombstoned(app[r], e) <=> Has(ledger, Done(r), "CANCEL", e)
    /\ app[r].view # None =>
          app[r].view \in Nat /\ Has(ledger, Done(r), "ORDER", app[r].view)
    /\ app[r].order_applied => app[r].view # None

OrderedInv ==
    /\ LedgerInv /\ Closed
    /\ \A r \in Honest : InOrder(r)

\* A decision is founded on the decisions before it, whatever comes after.
LEMMA FoundedByPrefix ==
    ASSUME NEW s, NEW t, NEW n \in Nat, \A i \in 1 .. n : t[i] = s[i]
    PROVE  /\ \A m \in Nat : \A kind, e : m <= n => (Has(t, m, kind, e) <=> Has(s, m, kind, e))
           /\ \A i \in 1 .. n : Founded(s, i) => Founded(t, i)
<1>1. ASSUME NEW m \in Nat, m <= n
      PROVE  \A kind, e : Has(t, m, kind, e) <=> Has(s, m, kind, e)
  <2>1. \A i \in 1 .. m : t[i] = s[i]
    BY <1>1
  <2> QED
    BY <2>1 DEF Has
<1>2. ASSUME NEW i \in 1 .. n, Founded(s, i) PROVE Founded(t, i)
  <2>1. i - 1 \in Nat /\ i - 1 <= n /\ t[i] = s[i]
    OBVIOUS
  <2> QED
    BY <1>1, <1>2, <2>1 DEF Founded
<1> QED
  BY <1>1, <1>2

\* The first decisions stay what they are.
LEMMA PrefixStays ==
    ASSUME TypeOK, Kinds
    PROVE  /\ Len(ledger) \in Nat /\ Len(ledger') \in Nat /\ Len(ledger) <= Len(ledger')
           /\ \A i \in 1 .. Len(ledger) : ledger'[i] = ledger[i]
<1>1. CASE UNCHANGED ledger
  BY <1>1 DEF TypeOK
<1>2. ASSUME NEW p \in proposed, Commit(p)
      PROVE  /\ Len(ledger) \in Nat /\ Len(ledger') = Len(ledger) + 1
             /\ \A i \in 1 .. Len(ledger) : ledger'[i] = ledger[i]
  BY <1>2, LedgerGrows
<1> QED
  BY <1>1, <1>2, LedgerSteps

\* PBFT orders a CANCEL only after an honest vehicle committed the ORDER, and an ORDER
\* only after the CANCEL of the epoch before: the ledger stays closed.
LEMMA ClosedStays ==
    ASSUME LedgerInv, Closed, Kinds, LedgerInv'
    PROVE  Closed'
<1>1. TypeOK /\ TypeOK' /\ ledger \in Seq(Entry) /\ ledger' \in Seq(Entry)
  BY DEF LedgerInv, RecoveryInv, AdoptionInv, TypeOK
<1>2. CASE UNCHANGED ledger
  BY <1>2 DEF Closed
<1>3. ASSUME NEW p \in proposed, Commit(p) PROVE Closed'
  <2> DEFINE n == Len(ledger)
             t == ledger'
             d == t[n + 1]
  <2>1. /\ n \in Nat /\ Len(t) = n + 1
        /\ \A i \in 1 .. n : t[i] = ledger[i]
        /\ \A i \in 1 .. n + 1 : i \in 1 .. n \/ i = n + 1
        /\ d \in Entry /\ UNCHANGED app
    BY <1>1, <1>3, LedgerGrows
  <2>2. \A i \in 1 .. n : Founded(t, i)
    <3>1. \A i \in 1 .. n : Founded(ledger, i)
      BY DEF Closed
    <3> HIDE DEF t, n
    <3> QED
      BY <2>1, <3>1, FoundedByPrefix
  <2>3. d \in Entry /\ d.epoch \in Nat /\ d.kind \in {"ORDER", "CANCEL"}
        /\ n + 1 \in 1 .. Len(t)
    <3> HIDE DEF d, n
    <3> QED
      BY <2>1 DEF Entry
  <2>4. ASSUME NEW j \in 1 .. n, NEW f \in Nat, f < t[j].epoch
        PROVE  Has(t, n, "CANCEL", f)
    <3>1. Has(t, j - 1, "CANCEL", f)
      BY <2>2, <2>4 DEF Founded
    <3> QED
      BY <2>1, <3>1 DEF Has
  <2>5. ASSUME d.kind = "CANCEL"
        PROVE  \E j \in 1 .. n : t[j].kind = "ORDER" /\ t[j].epoch = d.epoch
    <3>1. PICK q \in Honest : <<d.epoch, d.reason>> \in app[q].echo_sent
      BY <2>1, <2>3, <2>5 DEF LedgerInv, RecoveryInv, AdoptionInv, WitnessInv, DecidedWitnessed
    <3>2. HasOrder(d.epoch)
      BY <3>1 DEF LedgerInv, KnownOrders
    <3> QED
      BY <2>1, <3>2 DEF HasOrder
  <2>6. ASSUME NEW f \in Nat, f < d.epoch
        PROVE  Has(t, n, "CANCEL", f)
    <3>1. CASE d.kind = "CANCEL"
      BY <2>4, <2>5, <2>6, <3>1
    <3>2. CASE d.kind = "ORDER"
      <4>1. PICK j \in 1 .. (n + 1) - 1 : t[j].kind = "CANCEL" /\ t[j].epoch = d.epoch - 1
        BY <2>3, <2>6, <3>2 DEF LedgerInv, RecoveryInv, RecoveriesFollow
      <4>2. j \in 1 .. n
        BY <2>1
      <4>3. CASE f = d.epoch - 1
        BY <4>1, <4>2, <4>3 DEF Has
      <4>4. CASE f # d.epoch - 1
        <5>1. f < t[j].epoch
          BY <2>3, <2>6, <4>1, <4>4
        <5> QED
          BY <2>4, <4>2, <5>1
      <4> QED
        BY <4>3, <4>4
    <3> QED
      BY <2>3, <3>1, <3>2
  <2> HIDE DEF n, t
  <2>7. Founded(t, n + 1)
    <3>1. (n + 1) - 1 = n
      BY <2>1
    <3> QED
      BY <2>5, <2>6, <3>1 DEF Founded, Has
  <2>8. \A i \in 1 .. Len(t) : Founded(t, i)
    BY <2>1, <2>2, <2>7
  <2> QED
    BY <2>8 DEF Closed, Founded, Has, t
<1> QED
  BY <1>2, <1>3, LedgerSteps
\* Where the app of a vehicle stands in the ledger.
LEMMA Position ==
    ASSUME OrderedInv, NEW q \in Honest
    PROVE  /\ Done(q) \in Nat /\ Len(pending_orders[q]) \in Nat
           /\ executed[q] = Done(q) + Len(pending_orders[q])
           /\ executed[q] <= Len(ledger) /\ Len(ledger) \in Nat
<1>1. /\ executed[q] \in Nat /\ pending_orders[q] \in Seq(Entry) /\ ledger \in Seq(Entry)
  BY DEF OrderedInv, LedgerInv, RecoveryInv, AdoptionInv, TypeOK
<1>2. Done(q) >= 0 /\ executed[q] <= Len(ledger)
  BY DEF OrderedInv, InOrder, LedgerInv, ExecutorsBehind
<1> QED
  BY <1>1, <1>2 DEF Done

\* The head of the queue is the next decision of the ledger.
LEMMA HeadIsNext ==
    ASSUME OrderedInv, Kinds, NEW q \in Honest, Dequeue(q), UNCHANGED <<executed, ledger>>
    PROVE  /\ Done(q) + 1 \in 1 .. Len(ledger)
           /\ Head(pending_orders[q]) = ledger[Done(q) + 1]
           /\ Head(pending_orders[q]) \in Entry
           /\ Done(q)' = Done(q) + 1
           /\ \A i \in 1 .. Len(pending_orders'[q]) :
                 pending_orders'[q][i] = ledger[Done(q) + 1 + i]
<1>1. TypeOK
  BY DEF OrderedInv, LedgerInv, RecoveryInv, AdoptionInv
<1>2. /\ Head(pending_orders[q]) \in Entry
      /\ Head(pending_orders[q]) = pending_orders[q][1]
      /\ Len(pending_orders[q]) \in Nat \ {0}
      /\ Len(pending_orders'[q]) = Len(pending_orders[q]) - 1
      /\ \A i \in 1 .. Len(pending_orders'[q]) :
            /\ i + 1 \in 1 .. Len(pending_orders[q])
            /\ pending_orders'[q][i] = pending_orders[q][i + 1]
  BY <1>1, QueueShrinks
<1>3. /\ Done(q) \in Nat /\ executed[q] = Done(q) + Len(pending_orders[q])
      /\ executed[q] <= Len(ledger) /\ Len(ledger) \in Nat
  BY Position
<1>4. Done(q)' = Done(q) + 1
  BY <1>2, <1>3 DEF Done
<1>5. \A i \in 1 .. Len(pending_orders[q]) : pending_orders[q][i] = ledger[Done(q) + i]
  BY DEF OrderedInv, InOrder
<1>6. ASSUME NEW i \in 1 .. Len(pending_orders'[q])
      PROVE  pending_orders'[q][i] = ledger[Done(q) + 1 + i]
  <2>1. pending_orders'[q][i] = ledger[Done(q) + (i + 1)]
    BY <1>2, <1>5
  <2>2. Done(q) + (i + 1) = Done(q) + 1 + i
    BY <1>3
  <2> QED
    BY <2>1, <2>2
<1>7. Done(q) + 1 \in 1 .. Len(ledger) /\ 1 \in 1 .. Len(pending_orders[q])
  BY <1>2, <1>3
<1> QED
  BY <1>2, <1>4, <1>5, <1>6, <1>7

\* A queue that continues the ledger at n, an app whose fields are those of n decisions.
LEMMA InOrderAt ==
    ASSUME TypeOK, Kinds, NEW q \in Honest, NEW n \in Nat, n <= Len(ledger), Done(q)' = n,
           \A i \in 1 .. Len(pending_orders'[q]) : pending_orders'[q][i] = ledger'[n + i],
           \A e \in Epoch : Tombstoned(app'[q], e) <=> Has(ledger, n, "CANCEL", e),
           app'[q].view # None => /\ app'[q].view \in Nat
                                  /\ Has(ledger, n, "ORDER", app'[q].view),
           app'[q].order_applied => app'[q].view # None
    PROVE  InOrder(q)'
<1>1. Len(ledger) \in Nat /\ \A i \in 1 .. Len(ledger) : ledger'[i] = ledger[i]
  BY PrefixStays
<1>2. \A kind, e : Has(ledger', n, kind, e) <=> Has(ledger, n, kind, e)
  BY <1>1, FoundedByPrefix
<1>3. /\ \A e \in Epoch : Tombstoned(app'[q], e) <=> Has(ledger', n, "CANCEL", e)
      /\ app'[q].view # None => Has(ledger', n, "ORDER", app'[q].view)
  BY <1>2
<1>4. Done(q)' >= 0
  OBVIOUS
<1>5. \A i \in 1 .. Len(pending_orders'[q]) :
         pending_orders'[q][i] = ledger'[Done(q)' + i]
  OBVIOUS
<1>6. /\ \A e \in Epoch : Tombstoned(app'[q], e) <=> Has(ledger', Done(q)', "CANCEL", e)
      /\ app'[q].view # None =>
            app'[q].view \in Nat /\ Has(ledger', Done(q)', "ORDER", app'[q].view)
  BY <1>3
<1> QED
  BY <1>4, <1>5, <1>6 DEF InOrder, Tombstoned, Has

\* A step that leaves the position and the fields of an app alone.
LEMMA InOrderSame ==
    ASSUME OrderedInv, Kinds, NEW q \in Honest, Done(q)' = Done(q),
           \A i \in 1 .. Len(pending_orders'[q]) :
              pending_orders'[q][i] = ledger'[Done(q) + i],
           app'[q].cancels = app[q].cancels, app'[q].view = app[q].view,
           app'[q].order_applied = app[q].order_applied
    PROVE  InOrder(q)'
<1>1. TypeOK /\ InOrder(q)
  BY DEF OrderedInv, LedgerInv, RecoveryInv, AdoptionInv
<1>2. Done(q) \in Nat /\ Done(q) <= Len(ledger)
  BY Position
<1>3. \A e : Tombstoned(app'[q], e) <=> Tombstoned(app[q], e)
  BY DEF Tombstoned
<1> DEFINE n == Done(q)
<1>4. n \in Nat /\ n <= Len(ledger) /\ Done(q)' = n
  BY <1>2
<1>5. /\ \A e \in Epoch : Tombstoned(app'[q], e) <=> Has(ledger, n, "CANCEL", e)
      /\ app'[q].view # None => app'[q].view \in Nat /\ Has(ledger, n, "ORDER", app'[q].view)
      /\ app'[q].order_applied => app'[q].view # None
  BY <1>1, <1>3 DEF InOrder
<1>6. \A i \in 1 .. Len(pending_orders'[q]) : pending_orders'[q][i] = ledger'[n + i]
  OBVIOUS
<1> HIDE DEF n
<1> QED
  BY <1>1, <1>4, <1>5, <1>6, InOrderAt
\* One decision more.
LEMMA HasMore ==
    ASSUME NEW s, NEW n \in Nat, NEW kind, NEW e
    PROVE  Has(s, n + 1, kind, e) <=>
              Has(s, n, kind, e) \/ (s[n + 1].kind = kind /\ s[n + 1].epoch = e)
<1>1. \A i : i \in 1 .. n + 1 <=> i \in 1 .. n \/ i = n + 1
  OBVIOUS
<1> QED
  BY <1>1 DEF Has

\* A CANCEL of the queue: the tombstones follow.
LEMMA CancelInOrder ==
    ASSUME OrderedInv, Kinds, NEW q \in Honest, TakesCancel(q)
    PROVE  InOrder(q)'
<1> DEFINE n == Done(q)
           d == Head(pending_orders[q])
<1>1. /\ n + 1 \in 1 .. Len(ledger) /\ d = ledger[n + 1] /\ d \in Entry
      /\ Done(q)' = n + 1 /\ UNCHANGED ledger
      /\ \A i \in 1 .. Len(pending_orders'[q]) : pending_orders'[q][i] = ledger[n + 1 + i]
  BY HeadIsNext DEF TakesCancel
<1>2. /\ TypeOK /\ InOrder(q) /\ Named(ledger[n + 1]) /\ app[q] \in AppState
  BY <1>1 DEF OrderedInv, LedgerInv, RecoveryInv, AdoptionInv, TypeOK
<1>3. n \in Nat /\ Len(ledger) \in Nat /\ n + 1 <= Len(ledger)
  BY <1>1, Position
<1>4. Cancelled(app[q], app'[q], d.epoch, d.reason) /\ d.kind = "CANCEL"
  BY DEF TakesCancel
<1>5. d.epoch \in Epoch /\ d.reason \in Reason
  BY <1>1, <1>2, <1>4 DEF Named
<1>6. /\ app'[q].cancels = [app[q].cancels EXCEPT ![d.epoch] = d.reason]
      /\ app'[q].view = app[q].view
      /\ app'[q].order_applied => app[q].order_applied
  BY <1>4 DEF Cancelled
<1>7. \A e \in Epoch : Tombstoned(app[q], e) <=> Has(ledger, n, "CANCEL", e)
  BY <1>2 DEF InOrder
<1>8. /\ app[q].view # None => app[q].view \in Nat /\ Has(ledger, n, "ORDER", app[q].view)
      /\ app[q].order_applied => app[q].view # None
  BY <1>2 DEF InOrder
<1> HIDE DEF n, d
<1>9. \A kind, e : Has(ledger, n + 1, kind, e) <=>
         Has(ledger, n, kind, e) \/ (d.kind = kind /\ d.epoch = e)
  <2>1. \A kind, e : Has(ledger, n + 1, kind, e) <=>
           Has(ledger, n, kind, e) \/ (ledger[n + 1].kind = kind /\ ledger[n + 1].epoch = e)
    BY <1>3, HasMore
  <2> QED
    BY <1>1, <2>1
<1>10. ASSUME NEW e \in Epoch
       PROVE  Tombstoned(app'[q], e) <=> Has(ledger, n + 1, "CANCEL", e)
  <2>1. app[q].cancels \in [Epoch -> Reason \cup {"NONE"}]
    BY <1>2 DEF AppState
  <2>2. Tombstoned(app'[q], e) <=> Tombstoned(app[q], e) \/ e = d.epoch
    BY <1>5, <1>6, <2>1 DEF Tombstoned, Reason
  <2> QED
    BY <1>4, <1>7, <1>9, <2>2
<1>11. /\ app'[q].view # None =>
             app'[q].view \in Nat /\ Has(ledger, n + 1, "ORDER", app'[q].view)
       /\ app'[q].order_applied => app'[q].view # None
  BY <1>6, <1>8, <1>9
<1>12. n + 1 \in Nat
  BY <1>3
<1> QED
  BY <1>1, <1>2, <1>3, <1>10, <1>11, <1>12, InOrderAt

\* An ORDER of the queue, skipped or applied: the view follows.
LEMMA OrderInOrder ==
    ASSUME OrderedInv, Kinds, NEW q \in Honest, TakesOrder(q)
    PROVE  InOrder(q)'
<1> DEFINE n == Done(q)
           d == Head(pending_orders[q])
<1>1. /\ n + 1 \in 1 .. Len(ledger) /\ d = ledger[n + 1] /\ d \in Entry
      /\ Done(q)' = n + 1 /\ UNCHANGED ledger
      /\ \A i \in 1 .. Len(pending_orders'[q]) : pending_orders'[q][i] = ledger[n + 1 + i]
  BY HeadIsNext DEF TakesOrder
<1>2. TypeOK /\ InOrder(q)
  BY DEF OrderedInv, LedgerInv, RecoveryInv, AdoptionInv
<1>3. n \in Nat /\ Len(ledger) \in Nat /\ n + 1 <= Len(ledger)
  BY <1>1, Position
<1>4. d.kind = "ORDER" /\ d.epoch \in Nat
  BY <1>1 DEF TakesOrder, Entry
<1>5. /\ app'[q].cancels = app[q].cancels
      /\ \/ app'[q] = app[q]
         \/ app'[q].view = d.epoch
  BY DEF TakesOrder, Applied
<1>7. \A e \in Epoch : Tombstoned(app[q], e) <=> Has(ledger, n, "CANCEL", e)
  BY <1>2 DEF InOrder
<1>8. /\ app[q].view # None => app[q].view \in Nat /\ Has(ledger, n, "ORDER", app[q].view)
      /\ app[q].order_applied => app[q].view # None
  BY <1>2 DEF InOrder
<1> HIDE DEF n, d
<1>9. \A kind, e : Has(ledger, n + 1, kind, e) <=>
         Has(ledger, n, kind, e) \/ (d.kind = kind /\ d.epoch = e)
  <2>1. \A kind, e : Has(ledger, n + 1, kind, e) <=>
           Has(ledger, n, kind, e) \/ (ledger[n + 1].kind = kind /\ ledger[n + 1].epoch = e)
    BY <1>3, HasMore
  <2> QED
    BY <1>1, <2>1
<1>10. \A e \in Epoch : Tombstoned(app'[q], e) <=> Has(ledger, n + 1, "CANCEL", e)
  BY <1>4, <1>5, <1>7, <1>9 DEF Tombstoned
<1>11. /\ app'[q].view # None =>
             app'[q].view \in Nat /\ Has(ledger, n + 1, "ORDER", app'[q].view)
       /\ app'[q].order_applied => app'[q].view # None
  BY <1>4, <1>5, <1>8, <1>9 DEF None
<1>12. n + 1 \in Nat
  BY <1>3
<1> QED
  BY <1>1, <1>2, <1>3, <1>10, <1>11, <1>12, InOrderAt

\* The executor queues the decision behind the last queued one.
LEMMA ExecuteInOrder ==
    ASSUME OrderedInv, Kinds, NEW q \in Honest, Execute(q)
    PROVE  InOrder(q)'
<1> DEFINE d == ledger[executed[q] + 1]
           len == Len(pending_orders[q])
<1>1. TypeOK /\ InOrder(q)
  BY DEF OrderedInv, LedgerInv, RecoveryInv, AdoptionInv
<1>2. /\ Done(q) \in Nat /\ len \in Nat /\ executed[q] = Done(q) + len
      /\ Len(ledger) \in Nat
  BY Position
<1>3. executed[q] + 1 \in 1 .. Len(ledger)
  BY <1>1 DEF Execute, TypeOK
<1>4. d \in Entry
  BY <1>1, <1>3 DEF TypeOK
<1>5. /\ pending_orders' = [pending_orders EXCEPT ![q] = Append(@, d)]
      /\ executed'[q] = executed[q] + 1 /\ UNCHANGED <<app, ledger>>
  BY <1>1 DEF Execute, TypeOK, pbftVars
<1>6. d = ledger[Done(q) + (len + 1)]
  <2>1. executed[q] + 1 = Done(q) + (len + 1)
    BY <1>2
  <2> QED
    BY <2>1
<1> HIDE DEF d
<1>7. /\ Len(pending_orders'[q]) = len + 1
      /\ pending_orders'[q][len + 1] = d
      /\ \A i \in 1 .. len : pending_orders'[q][i] = pending_orders[q][i]
      /\ \A i \in 1 .. Len(pending_orders'[q]) : i \in 1 .. len \/ i = len + 1
  BY <1>1, <1>4, <1>5, QueueGrows
<1>8. Done(q)' = Done(q)
  BY <1>2, <1>5, <1>7 DEF Done
<1>9. \A i \in 1 .. len : pending_orders[q][i] = ledger[Done(q) + i]
  BY <1>1 DEF InOrder
<1> HIDE DEF len
<1>10. \A i \in 1 .. Len(pending_orders'[q]) :
          pending_orders'[q][i] = ledger'[Done(q) + i]
  BY <1>5, <1>6, <1>7, <1>9
<1> QED
  BY <1>5, <1>8, <1>10, InOrderSame

\* Every step keeps every app in order, as long as nobody adopts decisions by gossip.
LEMMA InOrderStays ==
    ASSUME OrderedInv, Kinds, ~GossipEnabled, NEW q \in Honest
    PROVE  InOrder(q)'
<1>1. TypeOK /\ InOrder(q)
  BY DEF OrderedInv, LedgerInv, RecoveryInv, AdoptionInv
<1>2. ASSUME executed'[q] = executed[q], pending_orders'[q] = pending_orders[q],
             app'[q].cancels = app[q].cancels, app'[q].view = app[q].view,
             app'[q].order_applied = app[q].order_applied
      PROVE  InOrder(q)'
  <2>1. Done(q)' = Done(q)
    BY <1>2 DEF Done
  <2>2. /\ Done(q) \in Nat /\ Len(pending_orders[q]) \in Nat
        /\ Done(q) + Len(pending_orders[q]) <= Len(ledger)
    BY Position
  <2>3. \A i \in 1 .. Len(ledger) : ledger'[i] = ledger[i]
    BY <1>1, PrefixStays
  <2>4. ASSUME NEW i \in 1 .. Len(pending_orders'[q])
        PROVE  pending_orders'[q][i] = ledger'[Done(q) + i]
    <3>1. pending_orders[q][i] = ledger[Done(q) + i]
      BY <1>1, <1>2 DEF InOrder
    <3>2. Done(q) + i \in 1 .. Len(ledger)
      BY <1>2, <1>1, <2>2, Position
    <3> QED
      BY <1>2, <2>3, <3>1, <3>2
  <2> QED
    BY <1>2, <2>1, <2>4, InOrderSame
<1>3. CASE Local(q)
  BY <1>2, <1>3 DEF Local, Steady
<1>4. ASSUME NEW r \in Honest \ {q},
             Local(r) \/ TakesCancel(r) \/ TakesOrder(r) \/ Execute(r)
      PROVE  InOrder(q)'
  <2>1. app'[q] = app[q]
    BY <1>4 DEF Local, TakesCancel, TakesOrder, Execute, Others
  <2>2. pending_orders'[q] = pending_orders[q] /\ executed'[q] = executed[q]
    BY <1>1, <1>4 DEF Local, TakesCancel, TakesOrder, Execute, Dequeue, TypeOK
  <2> QED
    BY <1>2, <2>1, <2>2
<1>5. ASSUME \/ \E p \in proposed : CommitCancel(p) \/ CommitOrder(p)
             \/ \E v \in Honest, p \in proposed : VoteOrder(v, p)
             \/ Idle
      PROVE  InOrder(q)'
  <2>1. UNCHANGED <<app, pending_orders, executed>>
    BY <1>5 DEF CommitCancel, CommitOrder, Commit, VoteOrder, Idle, bridgeVars
  <2> QED
    BY <1>2, <2>1
<1> QED
  BY <1>3, <1>4, <1>5, CancelInOrder, OrderInOrder, ExecuteInOrder
     DEF Kinds, AdoptsCancel, AdoptsOrder
\* At the start every app but the stragglers' is through with ORDER(0).
LEMMA OrderedInit == Init => OrderedInv
<1> SUFFICES ASSUME Init PROVE OrderedInv
  OBVIOUS
<1>1. LedgerInv
  BY LedgerInit
<1>2. /\ Len(ledger) = 1 /\ ledger[1].kind = "ORDER" /\ ledger[1].epoch = 0
      /\ \A i \in 1 .. Len(ledger) : i = 1
  BY InitLedger
<1>3. Closed
  BY <1>2 DEF Closed, Founded
<1>4. /\ \A e : ~Has(ledger, 0, "CANCEL", e) /\ ~Has(ledger, 1, "CANCEL", e)
      /\ Has(ledger, 1, "ORDER", 0)
  BY <1>2 DEF Has
<1>5. ASSUME NEW r \in Honest PROVE InOrder(r)
  <2>1. /\ app[r] = InitialApp(r) /\ Len(pending_orders[r]) = 0
        /\ 1 .. Len(pending_orders[r]) = {}
    BY InitLedger
  <2>2. /\ app[r].cancels = [e \in Epoch |-> "NONE"]
        /\ app[r].view = IF r \notin Stragglers THEN 0 ELSE None
        /\ app[r].order_applied = (r \notin Stragglers)
    BY <2>1 DEF InitialApp
  <2>3. \A e : ~Tombstoned(app[r], e)
    BY <2>2 DEF Tombstoned
  <2>4. executed[r] = IF r \in Stragglers THEN 0 ELSE 1
    BY DEF Init
  <2>5. CASE r \in Stragglers
    <3>1. Done(r) = 0
      BY <2>1, <2>4, <2>5 DEF Done
    <3>2. app[r].view = None /\ ~app[r].order_applied
      BY <2>2, <2>5
    <3> QED
      BY <1>4, <2>1, <2>3, <3>1, <3>2 DEF InOrder
  <2>6. CASE r \notin Stragglers
    <3>1. Done(r) = 1
      BY <2>1, <2>4, <2>6 DEF Done
    <3>2. app[r].view = 0 /\ 0 # None
      BY <2>2, <2>6 DEF None
    <3> QED
      BY <1>4, <2>1, <2>3, <3>1, <3>2 DEF InOrder
  <2> QED
    BY <2>5, <2>6
<1> QED
  BY <1>1, <1>3, <1>5 DEF OrderedInv

\* Without gossip, and as long as nobody faulty leads, every honest vehicle applies the
\* decisions in the order of its ledger.
LEMMA OrderedInvariant ==
    ASSUME ~GossipEnabled
    PROVE  Spec /\ []Checked => []OrderedInv
<1>1. Spec /\ []Checked => []LedgerInv
  BY LedgerInvariant, PTL
<1>2. OrderedInv /\ LedgerInv' /\ [Next]_vars => OrderedInv'
  <2> SUFFICES ASSUME OrderedInv, LedgerInv', [Next]_vars PROVE OrderedInv'
    OBVIOUS
  <2>1. Kinds
    BY StepKinds DEF OrderedInv, LedgerInv, RecoveryInv, AdoptionInv
  <2>2. Closed'
    BY <2>1, ClosedStays DEF OrderedInv
  <2>3. \A r \in Honest : InOrder(r)'
    BY <2>1, InOrderStays
  <2> QED
    BY <2>2, <2>3 DEF OrderedInv
<1> QED
  BY <1>1, <1>2, OrderedInit, PTL DEF Spec

\* A step that moves a view applies the next decision of the ledger, an ORDER, and a step
\* that undoes an applied ORDER processes the next decision, a CANCEL.
LEMMA ViewSteps ==
    ASSUME OrderedInv, Kinds, ~GossipEnabled, NEW q \in Honest
    PROVE  \/ /\ app'[q].view = app[q].view
              /\ app[q].order_applied => app'[q].order_applied
           \/ TakesOrder(q) /\ Applied(app[q], app'[q], Head(pending_orders[q]))
                            /\ ~Tombstoned(app[q], Head(pending_orders[q]).epoch)
           \/ TakesCancel(q)
<1>1. CASE app'[q] = app[q]
  BY <1>1
<1>2. CASE Local(q)
  BY <1>2 DEF Local, Steady
<1>3. CASE TakesOrder(q)
  BY <1>3 DEF TakesOrder, SkipsOrder
<1>4. ASSUME \/ Execute(q)
             \/ \E r \in Honest \ {q} :
                   Local(r) \/ TakesCancel(r) \/ TakesOrder(r) \/ Execute(r)
             \/ \E p \in proposed : CommitCancel(p) \/ CommitOrder(p)
             \/ \E v \in Honest, p \in proposed : VoteOrder(v, p)
             \/ Idle
      PROVE  app'[q] = app[q]
  BY <1>4 DEF Local, TakesCancel, TakesOrder, Execute, Others, CommitCancel, CommitOrder,
              Commit, VoteOrder, Idle
<1> QED
  BY <1>1, <1>2, <1>3, <1>4 DEF Kinds, AdoptsCancel, AdoptsOrder

\* Without gossip no vehicle goes back to an earlier view: an ORDER of an epoch before
\* that of the view was cancelled before the ORDER of the view was ordered, so the app
\* has processed that CANCEL, and skips the late ORDER as tombstoned. An ORDER without its
\* CANCEL comes only from a faulty leader (Checked). With gossip a view
\* can go back (an ORDER adopted by TYPE9 is applied out of the order of the ledger).
THEOREM ViewsAdvanceWithoutGossip ==
    ASSUME ~GossipEnabled
    PROVE  Spec /\ []Checked => ViewsAdvance
<1>1. ASSUME OrderedInv, Kinds, NEW q \in Honest
      PROVE  app[q].view <= app'[q].view
  <2>1. app[q].view \in Int /\ InOrder(q)
    <3>1. TypeOK /\ InOrder(q)
      BY <1>1 DEF OrderedInv, LedgerInv, RecoveryInv, AdoptionInv
    <3>2. app[q] \in AppState
      BY <3>1 DEF TypeOK
    <3> QED
      BY <3>1, <3>2 DEF AppState
  <2>2. CASE app'[q].view = app[q].view
    BY <2>1, <2>2
  <2>3. CASE TakesCancel(q)
    BY <2>1, <2>3 DEF TakesCancel, Cancelled
  <2>4. ASSUME TakesOrder(q), Applied(app[q], app'[q], Head(pending_orders[q])),
               ~Tombstoned(app[q], Head(pending_orders[q]).epoch)
        PROVE  app[q].view <= app'[q].view
    <3> DEFINE d == Head(pending_orders[q])
               n == Done(q)
    <3>1. d \in Entry /\ d.epoch \in Nat
      BY <1>1, <2>4, HeadIsNext DEF TakesOrder, Entry
    <3>2. app'[q].view = d.epoch
      BY <2>4 DEF Applied
    <3> HIDE DEF d
    <3>3. CASE app[q].view = None
      BY <3>1, <3>2, <3>3 DEF None
    <3>4. CASE app[q].view # None
      <4>1. app[q].view \in Nat /\ Has(ledger, n, "ORDER", app[q].view)
        BY <2>1, <3>4 DEF InOrder
      <4>2. PICK i \in 1 .. n : ledger[i].kind = "ORDER" /\ ledger[i].epoch = app[q].view
        BY <4>1 DEF Has
      <4>3. n \in Nat /\ n <= Len(ledger) /\ Len(ledger) \in Nat
        BY <1>1, Position
      <4>4. ASSUME d.epoch < app[q].view
            PROVE  FALSE
        <5>1. i \in 1 .. Len(ledger)
          BY <4>3
        <5>2. Has(ledger, i - 1, "CANCEL", d.epoch)
          BY <1>1, <3>1, <4>2, <4>4, <5>1 DEF OrderedInv, Closed, Founded
        <5>3. Has(ledger, n, "CANCEL", d.epoch)
          BY <4>3, <5>2 DEF Has
        <5>4. d.epoch \in Epoch
          <6>1. PICK j \in 1 .. n : ledger[j].kind = "CANCEL" /\ ledger[j].epoch = d.epoch
            BY <5>3 DEF Has
          <6>2. j \in 1 .. Len(ledger)
            BY <4>3
          <6> QED
            <7>1. Named(ledger[j])
              BY <1>1, <6>2 DEF OrderedInv, LedgerInv, RecoveryInv
            <7> QED
              BY <6>1, <7>1 DEF Named
        <5> QED
          BY <2>1, <2>4, <5>3, <5>4 DEF InOrder, d
      <4> QED
        BY <3>1, <3>2, <4>1, <4>4
    <3> QED
      BY <3>3, <3>4
  <2> QED
    BY <1>1, <2>2, <2>3, <2>4, ViewSteps
<1>2. OrderedInv /\ Checked' /\ [Next]_vars
        => [\A r \in Honest : app[r].view <= app'[r].view]_vars
  <2> SUFFICES ASSUME OrderedInv, Checked', [Next]_vars
               PROVE  \A r \in Honest : app[r].view <= app'[r].view
    OBVIOUS
  <2>1. Kinds
    BY StepKinds DEF OrderedInv, LedgerInv, RecoveryInv, AdoptionInv
  <2> QED
    BY <1>1, <2>1
<1> QED
  BY <1>2, OrderedInvariant, PTL DEF Spec, ViewsAdvance

-----------------------------------------------------------------------------
(* Without gossip, and with one CANCEL for an epoch: CANCELs undo their own ORDER *)

\* PBFT has ordered at most one CANCEL of an epoch.
CancelOnce ==
    \A i, j \in 1 .. Len(ledger) :
        /\ ledger[i].kind = "CANCEL" /\ ledger[j].kind = "CANCEL"
        /\ ledger[i].epoch = ledger[j].epoch
        => i = j

\* A CANCEL that an app is through with is the only one of its epoch: no ORDER of a later
\* epoch comes before it.
LEMMA OrdersFollowTheirCancels ==
    ASSUME OrderedInv, CancelOnce, NEW n \in 1 .. Len(ledger), ledger[n].kind = "CANCEL",
           NEW f \in Nat, f > ledger[n].epoch
    PROVE  ~Has(ledger, n, "ORDER", f)
<1>1. SUFFICES ASSUME Has(ledger, n, "ORDER", f) PROVE FALSE
  OBVIOUS
<1>2. PICK i \in 1 .. n : ledger[i].kind = "ORDER" /\ ledger[i].epoch = f
  BY <1>1 DEF Has
<1>3. Len(ledger) \in Nat /\ ledger[n] \in Entry /\ ledger[n].epoch \in Nat
  <2>1. ledger \in Seq(Entry)
    BY DEF OrderedInv, LedgerInv, RecoveryInv, AdoptionInv, TypeOK
  <2>2. ledger[n] \in Entry
    BY <2>1
  <2> QED
    BY <2>1, <2>2 DEF Entry
<1>4. i \in 1 .. Len(ledger)
  BY <1>3
<1>5. Has(ledger, i - 1, "CANCEL", ledger[n].epoch)
  BY <1>2, <1>3, <1>4 DEF OrderedInv, Closed, Founded
<1>6. PICK j \in 1 .. i - 1 : ledger[j].kind = "CANCEL" /\ ledger[j].epoch = ledger[n].epoch
  BY <1>5 DEF Has
<1>7. j \in 1 .. Len(ledger) /\ j # n
  BY <1>3
<1> QED
  BY <1>6, <1>7 DEF CancelOnce

\* The epoch of a CANCEL among the decisions of the ledger is one of Epoch.
LEMMA CancelledEpoch ==
    ASSUME OrderedInv, NEW n \in Nat, n <= Len(ledger), NEW e, Has(ledger, n, "CANCEL", e)
    PROVE  e \in Epoch
<1>1. PICK j \in 1 .. n : ledger[j].kind = "CANCEL" /\ ledger[j].epoch = e
  BY DEF Has
<1>2. ledger \in Seq(Entry)
  BY DEF OrderedInv, LedgerInv, RecoveryInv, AdoptionInv, TypeOK
<1>3. j \in 1 .. Len(ledger)
  BY <1>2
<1>4. Named(ledger[j])
  BY <1>3 DEF OrderedInv, LedgerInv, RecoveryInv
<1> QED
  BY <1>1, <1>4 DEF Named

\* A vehicle drops an applied ORDER only at the CANCEL of its view, or at a later one:
\* then it had processed the CANCEL of its view before.
LEMMA CancelsTheView ==
    ASSUME OrderedInv, CancelOnce, Kinds, NEW q \in Honest, TakesCancel(q),
           app[q].order_applied
    PROVE  Tombstoned(app'[q], app[q].view)
<1> DEFINE n == Done(q)
           d == Head(pending_orders[q])
           v == app[q].view
<1>1. n + 1 \in 1 .. Len(ledger) /\ d = ledger[n + 1] /\ d \in Entry /\ Done(q)' = n + 1
  BY HeadIsNext DEF TakesCancel
<1>2. InOrder(q) /\ InOrder(q)' /\ UNCHANGED ledger
  BY CancelInOrder DEF OrderedInv, TakesCancel
<1>3. n \in Nat /\ Len(ledger) \in Nat
  BY Position
<1>4. v \in Nat /\ Has(ledger, n, "ORDER", v)
  BY <1>2 DEF InOrder
<1>5. d.kind = "CANCEL" /\ d.epoch \in Nat
  BY <1>1 DEF TakesCancel, Entry
<1>6. \A e \in Epoch : Tombstoned(app'[q], e) <=> Has(ledger', n + 1, "CANCEL", e)
  BY <1>1, <1>2 DEF InOrder
<1> HIDE DEF n, d, v
<1>7. Has(ledger, n + 1, "ORDER", v)
  BY <1>3, <1>4 DEF Has
<1>8. ~(v > d.epoch)
  BY <1>1, <1>4, <1>5, <1>7, OrdersFollowTheirCancels
<1>9. Has(ledger, n + 1, "CANCEL", v)
  <2>1. CASE v = d.epoch
    BY <1>1, <1>3, <1>5, <2>1 DEF Has
  <2>2. CASE v < d.epoch
    <3>1. Has(ledger, (n + 1) - 1, "CANCEL", v)
      BY <1>1, <1>4, <2>2 DEF OrderedInv, Closed, Founded
    <3> QED
      BY <1>3, <3>1 DEF Has
  <2> QED
    BY <1>4, <1>5, <1>8, <2>1, <2>2
<1>10. v \in Epoch
  BY <1>1, <1>3, <1>9, CancelledEpoch
<1> QED
  BY <1>2, <1>6, <1>9, <1>10 DEF v

\* Without gossip a vehicle that drops the ORDER it drives by has the CANCEL of just that
\* ORDER, for as long as PBFT orders no second CANCEL of an epoch and nobody faulty leads
\* (Checked). It may (configuration
\* duplicate_cancel): two vehicles propose it for one certificate, and a CANCEL(e) that
\* is processed again after ORDER(e+1) undoes ORDER(e+1). With gossip a vehicle may adopt
\* ORDER(1) first and CANCEL(0) later, which then undoes ORDER(1) (straggler_regression).
THEOREM CancelUndoesItsOrder ==
    ASSUME ~GossipEnabled
    PROVE  Spec /\ []Checked /\ []CancelOnce => UndoneOnlyByItsCancel
<1>1. ASSUME OrderedInv, CancelOnce, Kinds, NEW q \in Honest,
             app[q].order_applied, ~app'[q].order_applied
      PROVE  Tombstoned(app'[q], app[q].view)
  BY <1>1, ViewSteps, CancelsTheView DEF Applied
<1>2. OrderedInv /\ CancelOnce /\ Checked' /\ [Next]_vars
        => [\A r \in Honest : app[r].order_applied /\ ~app'[r].order_applied
               => Tombstoned(app'[r], app[r].view)]_vars
  <2> SUFFICES ASSUME OrderedInv, CancelOnce, Checked', [Next]_vars
               PROVE  \A r \in Honest : app[r].order_applied /\ ~app'[r].order_applied
                         => Tombstoned(app'[r], app[r].view)
    OBVIOUS
  <2>1. Kinds
    BY StepKinds DEF OrderedInv, LedgerInv, RecoveryInv, AdoptionInv
  <2> QED
    BY <1>1, <2>1
<1> QED
  BY <1>2, OrderedInvariant, PTL DEF Spec, UndoneOnlyByItsCancel

\* While a rollback is pending the app, through with n decisions of l, has no ORDER applied
\* and has met none of the epoch it waits for or of a later one; an applied ORDER is not
\* tombstoned.
Settled(s, l, n) ==
    /\ s.cancel_pending =>
          /\ ~s.order_applied
          /\ \E e \in Nat : s.new_epoch = e + 1 /\ Has(l, n, "CANCEL", e)
          /\ \A f \in Nat : f >= s.new_epoch => ~Has(l, n, "ORDER", f)
    /\ s.order_applied => ~Tombstoned(s, s.view)

SettledInv == OrderedInv /\ \A r \in Honest : Settled(app[r], ledger, Done(r))

\* A step that moves neither the app nor its place in the ledger.
LEMMA SettledSame ==
    ASSUME OrderedInv, Kinds, NEW q \in Honest, Settled(app[q], ledger, Done(q)),
           NEW s, s.cancels = app[q].cancels, s.view = app[q].view,
           s.cancel_pending = app[q].cancel_pending, s.new_epoch = app[q].new_epoch,
           s.order_applied = app[q].order_applied
    PROVE  Settled(s, ledger', Done(q))
<1> DEFINE n == Done(q)
<1>1. n \in Nat /\ n <= Len(ledger)
  BY Position
<1>2. Len(ledger) \in Nat /\ \A i \in 1 .. Len(ledger) : ledger'[i] = ledger[i]
  BY PrefixStays DEF OrderedInv, LedgerInv, RecoveryInv, AdoptionInv
<1>3. \A kind, e : Has(ledger', n, kind, e) <=> Has(ledger, n, kind, e)
  BY <1>1, <1>2, FoundedByPrefix
<1>4. \A e : Tombstoned(s, e) <=> Tombstoned(app[q], e)
  BY DEF Tombstoned
<1>5. Settled(app[q], ledger, n)
  OBVIOUS
<1> HIDE DEF n
<1>6. Settled(s, ledger', n)
  BY <1>3, <1>4, <1>5 DEF Settled
<1> QED
  BY <1>6 DEF n

\* A CANCEL of the queue starts the wait for the ORDER of the next epoch, which the app
\* cannot have met.
LEMMA SettledByCancel ==
    ASSUME OrderedInv, CancelOnce, Kinds, NEW q \in Honest, TakesCancel(q),
           Settled(app[q], ledger, Done(q))
    PROVE  Settled(app'[q], ledger, Done(q) + 1)
<1> DEFINE n == Done(q)
           d == Head(pending_orders[q])
<1>1. n + 1 \in 1 .. Len(ledger) /\ d = ledger[n + 1] /\ d \in Entry
  BY HeadIsNext DEF TakesCancel
<1>2. d.kind = "CANCEL" /\ d.epoch \in Nat /\ Cancelled(app[q], app'[q], d.epoch, d.reason)
  BY <1>1 DEF TakesCancel, Entry
<1>3. n \in Nat
  BY Position
<1>4. Settled(app[q], ledger, n)
  OBVIOUS
<1> HIDE DEF n, d
<1>5. \A kind, e : Has(ledger, n + 1, kind, e) <=>
         Has(ledger, n, kind, e) \/ (d.kind = kind /\ d.epoch = e)
  <2>1. \A kind, e : Has(ledger, n + 1, kind, e) <=>
           Has(ledger, n, kind, e) \/ (ledger[n + 1].kind = kind /\ ledger[n + 1].epoch = e)
    BY <1>3, HasMore
  <2> QED
    BY <1>1, <2>1
<1>6. ~app'[q].order_applied
  BY <1>2, <1>4 DEF Cancelled, Settled
<1>7. CASE app[q].cancel_pending /\ app[q].cancelled_epoch = d.epoch
  <2>1. app'[q].new_epoch = app[q].new_epoch
    BY <1>2, <1>7 DEF Cancelled
  <2>2. /\ \E e \in Nat : app'[q].new_epoch = e + 1 /\ Has(ledger, n + 1, "CANCEL", e)
        /\ \A f \in Nat : f >= app'[q].new_epoch => ~Has(ledger, n + 1, "ORDER", f)
    BY <1>2, <1>4, <1>5, <1>7, <2>1 DEF Settled
  <2> QED
    BY <1>6, <2>2 DEF Settled, n
<1>8. CASE ~(app[q].cancel_pending /\ app[q].cancelled_epoch = d.epoch)
  <2>1. app'[q].new_epoch = d.epoch + 1
    BY <1>2, <1>8 DEF Cancelled
  <2>2. Has(ledger, n + 1, "CANCEL", d.epoch)
    BY <1>2, <1>5
  <2>3. ASSUME NEW f \in Nat, f >= app'[q].new_epoch
        PROVE  ~Has(ledger, n + 1, "ORDER", f)
    <3>1. f > ledger[n + 1].epoch
      BY <1>1, <1>2, <2>1, <2>3
    <3> QED
      BY <1>1, <1>2, <3>1, OrdersFollowTheirCancels
  <2> QED
    BY <1>2, <1>6, <2>1, <2>2, <2>3 DEF Settled, n
<1> QED
  BY <1>7, <1>8

\* A CANCEL that the app is through with names a tombstone, and the app is through with
\* the CANCELs of all earlier epochs and with its ORDER.
LEMMA CancelIsFounded ==
    ASSUME OrderedInv, NEW q \in Honest, NEW e \in Nat, Has(ledger, Done(q), "CANCEL", e)
    PROVE  /\ Has(ledger, Done(q), "ORDER", e)
           /\ \A f \in Nat : f <= e => Tombstoned(app[q], f)
<1> DEFINE n == Done(q)
<1>1. n \in Nat /\ n <= Len(ledger) /\ Len(ledger) \in Nat
  BY Position
<1>2. InOrder(q)
  BY DEF OrderedInv
<1>3. \A f \in Epoch : Tombstoned(app[q], f) <=> Has(ledger, n, "CANCEL", f)
  BY <1>2 DEF InOrder
<1> HIDE DEF n
<1>4. PICK j \in 1 .. n : ledger[j].kind = "CANCEL" /\ ledger[j].epoch = e
  BY DEF Has, n
<1>5. j \in 1 .. Len(ledger)
  BY <1>1
<1>6. Founded(ledger, j)
  BY <1>5 DEF OrderedInv, Closed
<1>7. Has(ledger, n, "ORDER", e)
  BY <1>1, <1>4, <1>6 DEF Founded, Has
<1>8. ASSUME NEW f \in Nat, f <= e PROVE Tombstoned(app[q], f)
  <2>1. CASE f = e
    <3>1. Has(ledger, n, "CANCEL", f)
      BY <1>4, <2>1 DEF Has
    <3> QED
      BY <1>1, <1>3, <3>1, CancelledEpoch
  <2>2. CASE f < e
    <3>1. Has(ledger, j - 1, "CANCEL", f)
      BY <1>4, <1>6, <2>2 DEF Founded
    <3>2. Has(ledger, n, "CANCEL", f)
      BY <1>1, <3>1 DEF Has
    <3> QED
      BY <1>1, <1>3, <3>2, CancelledEpoch
  <2> QED
    BY <1>8, <2>1, <2>2
<1> QED
  BY <1>7, <1>8 DEF n

\* An ORDER of the queue: one of a cancelled epoch is skipped, and the first one of an epoch
\* that is not cancelled is the one that the pending rollback waits for.
LEMMA SettledByOrder ==
    ASSUME OrderedInv, Kinds, NEW q \in Honest, TakesOrder(q),
           Settled(app[q], ledger, Done(q))
    PROVE  Settled(app'[q], ledger, Done(q) + 1)
<1> DEFINE n == Done(q)
           d == Head(pending_orders[q])
<1>1. n + 1 \in 1 .. Len(ledger) /\ d = ledger[n + 1] /\ d \in Entry
  BY HeadIsNext DEF TakesOrder
<1>2. /\ d.kind = "ORDER" /\ d.epoch \in Nat
      /\ \/ SkipsOrder(app[q], d) /\ app'[q] = app[q]
         \/ ~SkipsOrder(app[q], d) /\ Applied(app[q], app'[q], d)
  BY <1>1 DEF TakesOrder, Entry
<1>3. n \in Nat /\ InOrder(q)
  BY Position DEF OrderedInv
<1>4. \A e \in Epoch : Tombstoned(app[q], e) <=> Has(ledger, n, "CANCEL", e)
  BY <1>3 DEF InOrder
<1>5. Settled(app[q], ledger, n)
  OBVIOUS
<1>6. \A e \in Nat : Has(ledger, n, "CANCEL", e) =>
         /\ Has(ledger, n, "ORDER", e)
         /\ \A f \in Nat : f <= e => Tombstoned(app[q], f)
  BY CancelIsFounded
<1> HIDE DEF n, d
<1>7. \A kind, e : Has(ledger, n + 1, kind, e) <=>
         Has(ledger, n, kind, e) \/ (d.kind = kind /\ d.epoch = e)
  <2>1. \A kind, e : Has(ledger, n + 1, kind, e) <=>
           Has(ledger, n, kind, e) \/ (ledger[n + 1].kind = kind /\ ledger[n + 1].epoch = e)
    BY <1>3, HasMore
  <2> QED
    BY <1>1, <2>1
<1>8. CASE SkipsOrder(app[q], d) /\ app'[q] = app[q]
  <2>1. ASSUME app[q].cancel_pending
        PROVE  /\ \E e \in Nat : app[q].new_epoch = e + 1 /\ Has(ledger, n + 1, "CANCEL", e)
               /\ \A f \in Nat : f >= app[q].new_epoch => ~Has(ledger, n + 1, "ORDER", f)
    <3>1. /\ ~app[q].order_applied
          /\ \E e \in Nat : app[q].new_epoch = e + 1 /\ Has(ledger, n, "CANCEL", e)
          /\ \A f \in Nat : f >= app[q].new_epoch => ~Has(ledger, n, "ORDER", f)
      BY <1>5, <2>1 DEF Settled
    <3>2. Tombstoned(app[q], d.epoch)
      BY <1>8, <3>1 DEF SkipsOrder
    <3>3. Has(ledger, n, "ORDER", d.epoch)
      BY <1>2, <1>4, <1>6, <3>2 DEF Tombstoned
    <3>4. ~(d.epoch >= app[q].new_epoch)
      BY <1>2, <3>1, <3>3
    <3> QED
      BY <1>7, <3>1, <3>4
  <2> QED
    BY <1>5, <1>8, <2>1 DEF Settled, n
<1>9. CASE ~SkipsOrder(app[q], d) /\ Applied(app[q], app'[q], d)
  <2>1. ~Tombstoned(app[q], d.epoch)
    BY <1>9 DEF SkipsOrder
  <2>2. ~Tombstoned(app'[q], app'[q].view)
    BY <1>9, <2>1 DEF Applied, Tombstoned
  <2>3. ASSUME app[q].cancel_pending
        PROVE  d.epoch = app[q].new_epoch
    <3>1. PICK e \in Nat : app[q].new_epoch = e + 1 /\ Has(ledger, n, "CANCEL", e)
      BY <1>5, <2>3 DEF Settled
    <3>2. ~(d.epoch <= e)
      BY <1>2, <1>6, <2>1, <3>1
    <3>3. ASSUME d.epoch > e + 1
          PROVE  FALSE
      <4>1. Has(ledger, (n + 1) - 1, "CANCEL", e + 1)
        BY <1>1, <3>3 DEF OrderedInv, Closed, Founded
      <4>2. Has(ledger, n, "CANCEL", e + 1)
        BY <1>3, <4>1
      <4>3. Has(ledger, n, "ORDER", e + 1)
        BY <1>6, <4>2
      <4> QED
        BY <1>5, <2>3, <3>1, <4>3 DEF Settled
    <3> QED
      BY <1>2, <3>1, <3>2, <3>3
  <2>4. ~app'[q].cancel_pending
    BY <1>9, <2>3 DEF Applied
  <2> QED
    BY <2>2, <2>4 DEF Settled
<1> QED
  BY <1>2, <1>8, <1>9

\* At the start no rollback is pending and nothing is cancelled.
LEMMA SettledInit == Init => SettledInv
<1> SUFFICES ASSUME Init PROVE SettledInv
  OBVIOUS
<1>1. ASSUME NEW r \in Honest PROVE Settled(app[r], ledger, Done(r))
  <2>1. app[r] = InitialApp(r)
    BY InitLedger
  <2>2. app[r].cancels = [e \in Epoch |-> "NONE"] /\ ~app[r].cancel_pending
    BY <2>1 DEF InitialApp
  <2>3. \A e : ~Tombstoned(app[r], e)
    BY <2>2 DEF Tombstoned
  <2> QED
    BY <2>2, <2>3 DEF Settled
<1> QED
  BY <1>1, OrderedInit DEF SettledInv

\* A step keeps the app of every vehicle settled.
LEMMA SettledStays ==
    ASSUME SettledInv, CancelOnce, Kinds, ~GossipEnabled, NEW q \in Honest
    PROVE  Settled(app'[q], ledger', Done(q)')
<1>1. OrderedInv /\ TypeOK /\ Settled(app[q], ledger, Done(q))
  BY DEF SettledInv, OrderedInv, LedgerInv, RecoveryInv, AdoptionInv
<1>2. CASE TakesCancel(q)
  <2>1. Done(q)' = Done(q) + 1 /\ UNCHANGED ledger
    BY <1>1, <1>2, HeadIsNext DEF TakesCancel
  <2> QED
    BY <1>1, <1>2, <2>1, SettledByCancel
<1>3. CASE TakesOrder(q)
  <2>1. Done(q)' = Done(q) + 1 /\ UNCHANGED ledger
    BY <1>1, <1>3, HeadIsNext DEF TakesOrder
  <2> QED
    BY <1>1, <1>3, <2>1, SettledByOrder
<1>4. CASE Execute(q)
  <2> DEFINE d == ledger[executed[q] + 1]
  <2>1. executed[q] + 1 \in 1 .. Len(ledger)
    BY <1>1, <1>4 DEF Execute, TypeOK
  <2>2. d \in Entry
    BY <1>1, <2>1 DEF TypeOK
  <2>3. /\ pending_orders' = [pending_orders EXCEPT ![q] = Append(@, d)]
        /\ executed'[q] = executed[q] + 1 /\ UNCHANGED app
    BY <1>1, <1>4 DEF Execute, TypeOK, pbftVars
  <2> HIDE DEF d
  <2>4. Len(pending_orders'[q]) = Len(pending_orders[q]) + 1
    BY <1>1, <2>2, <2>3, QueueGrows
  <2>5. Done(q)' = Done(q)
    BY <1>1, <2>3, <2>4, Position DEF Done
  <2> QED
    BY <1>1, <2>3, <2>5, SettledSame
<1>5. ASSUME executed'[q] = executed[q], pending_orders'[q] = pending_orders[q],
             app'[q].cancels = app[q].cancels, app'[q].view = app[q].view,
             app'[q].cancel_pending = app[q].cancel_pending,
             app'[q].new_epoch = app[q].new_epoch,
             app'[q].order_applied = app[q].order_applied
      PROVE  Settled(app'[q], ledger', Done(q)')
  <2>1. Done(q)' = Done(q)
    BY <1>5 DEF Done
  <2> QED
    BY <1>1, <1>5, <2>1, SettledSame
<1>6. CASE Local(q)
  BY <1>5, <1>6 DEF Local, Steady
<1>7. ASSUME NEW r \in Honest \ {q},
             Local(r) \/ TakesCancel(r) \/ TakesOrder(r) \/ Execute(r)
      PROVE  Settled(app'[q], ledger', Done(q)')
  <2>1. app'[q] = app[q]
    BY <1>7 DEF Local, TakesCancel, TakesOrder, Execute, Others
  <2>2. pending_orders'[q] = pending_orders[q] /\ executed'[q] = executed[q]
    BY <1>1, <1>7 DEF Local, TakesCancel, TakesOrder, Execute, Dequeue, TypeOK
  <2> QED
    BY <1>5, <2>1, <2>2
<1>8. ASSUME \/ \E p \in proposed : CommitCancel(p) \/ CommitOrder(p)
             \/ \E v \in Honest, p \in proposed : VoteOrder(v, p)
             \/ Idle
      PROVE  Settled(app'[q], ledger', Done(q)')
  <2>1. UNCHANGED <<app, pending_orders, executed>>
    BY <1>8 DEF CommitCancel, CommitOrder, Commit, VoteOrder, Idle, bridgeVars
  <2> QED
    BY <1>5, <2>1
<1> QED
  BY <1>2, <1>3, <1>4, <1>6, <1>7, <1>8 DEF Kinds, AdoptsCancel, AdoptsOrder

\* Without gossip, and for as long as PBFT orders one CANCEL of an epoch and nobody faulty
\* leads (Checked), no vehicle drives by an ORDER whose CANCEL it has processed, through any number of epochs: a CANCEL that
\* meets a pending rollback finds no ORDER applied, and the ORDER that ends a rollback is of
\* the epoch after the CANCEL.
THEOREM CancelledOrderIsNotDriven ==
    ASSUME ~GossipEnabled
    PROVE  Spec /\ []Checked /\ []CancelOnce => []TombstonedNotApplied
<1>1. SettledInv /\ CancelOnce /\ OrderedInv' /\ [Next]_vars => SettledInv'
  <2> SUFFICES ASSUME SettledInv, CancelOnce, OrderedInv', [Next]_vars PROVE SettledInv'
    OBVIOUS
  <2>1. Kinds
    BY StepKinds DEF SettledInv, OrderedInv, LedgerInv, RecoveryInv, AdoptionInv
  <2>2. \A r \in Honest : Settled(app'[r], ledger', Done(r)')
    BY <2>1, SettledStays
  <2> QED
    BY <2>2 DEF SettledInv
<1>2. SettledInv => TombstonedNotApplied
  BY DEF SettledInv, Settled, TombstonedNotApplied
<1> QED
  BY <1>1, <1>2, SettledInit, OrderedInvariant, PTL DEF Spec

-----------------------------------------------------------------------------
(* Any number of epochs, one rollback at a time *)

\* No certificate is accepted while an earlier rollback waits for its recovery ORDER.
OneRollback == \A r \in Honest : ~(app[r].consensus_pending /\ app[r].cancel_pending)

\* COMMITTED lasts as long as the rollback; its three epochs move together; a vehicle that
\* waits for a CANCEL drains or proposes.
Alone(s) ==
    /\ s.cancel_state = "COMMITTED" => s.cancel_pending
    /\ s.consensus_pending => s.cancel_state \in {"DRAINING", "CONSENSUS"}
    /\ s.cancel_pending =>
          /\ Tombstoned(s, s.cancelled_epoch)
          /\ s.new_epoch = s.cancelled_epoch + 1 /\ s.current_epoch = s.new_epoch

AloneInv == LedgerInv /\ \A r \in Honest : Alone(app[r])

\* A decision cancelled by CANCEL(e), from the queue or from gossip, starts a rollback of e,
\* or finds the rollback of e going on.
LEMMA AloneCancelled ==
    ASSUME NEW s \in AppState, NEW t \in AppState, Alone(s), NEW e \in Epoch, NEW k \in Reason,
           Cancelled(s, t, e, k)
    PROVE  Alone(t)
<1>1. s.cancels \in [Epoch -> Reason \cup {"NONE"}]
  BY DEF AppState
<1>2. Tombstoned(t, e)
  BY <1>1 DEF Cancelled, Tombstoned, Reason
<1>3. t.new_epoch = e + 1 /\ t.current_epoch = t.new_epoch
  <2>1. CASE s.cancel_pending /\ s.cancelled_epoch = e
    BY <2>1 DEF Cancelled, Alone
  <2>2. CASE ~(s.cancel_pending /\ s.cancelled_epoch = e)
    BY <2>2 DEF Cancelled
  <2> QED
    BY <2>1, <2>2
<1> QED
  BY <1>2, <1>3 DEF Cancelled, Alone

\* The handlers that learn and apply nothing: a certificate finds no rollback pending.
LEMMA AloneLocal ==
    ASSUME NEW s \in AppState, NEW t, Alone(s), Steady(s, t),
           Waits(s, t) \/ \E e \in Epoch, k \in Reason : StartsWait(s, t, e, k),
           ~(t.consensus_pending /\ t.cancel_pending)
    PROVE  Alone(t)
<1>1. \A e : Tombstoned(t, e) <=> Tombstoned(s, e)
  BY DEF Steady, Tombstoned
<1>2. s.cancel_state \in CancelPhase
  BY DEF AppState
<1>3. CASE Waits(s, t)
  BY <1>1, <1>3 DEF Alone, Steady, Waits
<1>4. ASSUME NEW e \in Epoch, NEW k \in Reason, StartsWait(s, t, e, k) PROVE Alone(t)
  <2>1. t.consensus_pending /\ ~t.cancel_pending /\ ~s.cancel_pending
    BY <1>4 DEF StartsWait, Steady
  <2>2. s.cancel_state # "COMMITTED"
    BY <2>1 DEF Alone
  <2>3. t.cancel_state \in {"DRAINING", "CONSENSUS"}
    BY <1>4, <2>2 DEF StartsWait
  <2> QED
    BY <2>1, <2>3 DEF Alone
<1> QED
  BY <1>3, <1>4

\* The ORDER that ends a rollback finds no certificate accepted.
LEMMA AloneApplied ==
    ASSUME NEW s, NEW t, NEW d, Alone(s), Applied(s, t, d),
           ~(s.consensus_pending /\ s.cancel_pending)
    PROVE  Alone(t)
<1>1. \A e : Tombstoned(t, e) <=> Tombstoned(s, e)
  BY DEF Applied, Tombstoned
<1>2. /\ t.current_epoch = s.current_epoch /\ t.new_epoch = s.new_epoch
      /\ t.cancelled_epoch = s.cancelled_epoch
      /\ t.consensus_pending = s.consensus_pending
  BY DEF Applied
<1>3. \/ s.cancel_pending /\ ~t.cancel_pending /\ t.cancel_state = "INACTIVE"
      \/ t.cancel_pending = s.cancel_pending /\ t.cancel_state = s.cancel_state
  BY DEF Applied
<1> QED
  BY <1>1, <1>2, <1>3 DEF Alone

\* Every step keeps the fields of every app in agreement, gossip included.
LEMMA AloneStays ==
    ASSUME AloneInv, TypeOK', OneRollback, OneRollback', Kinds, NEW q \in Honest
    PROVE  Alone(app'[q])
<1>1. /\ TypeOK /\ app[q] \in AppState /\ app'[q] \in AppState /\ Alone(app[q])
      /\ ~(app[q].consensus_pending /\ app[q].cancel_pending)
      /\ ~(app'[q].consensus_pending /\ app'[q].cancel_pending)
  BY DEF AloneInv, LedgerInv, RecoveryInv, AdoptionInv, TypeOK, OneRollback
<1>2. CASE app'[q] = app[q]
  BY <1>1, <1>2
<1>3. CASE Local(q)
  <2>1. \/ Waits(app[q], app'[q])
        \/ \E e \in Epoch, k \in Reason : StartsWait(app[q], app'[q], e, k)
    BY <1>3 DEF Local
  <2> QED
    BY <1>1, <1>3, <2>1, AloneLocal DEF Local
<1>4. CASE TakesCancel(q)
  <2> DEFINE d == Head(pending_orders[q])
  <2>1. d = pending_orders[q][1] /\ 1 \in 1 .. Len(pending_orders[q]) /\ d.kind = "CANCEL"
    BY <1>1, <1>4, QueueShrinks DEF TakesCancel
  <2>2. d.epoch \in Epoch /\ d.reason \in Reason
    BY <2>1 DEF AloneInv, LedgerInv, RecoveryInv, AdoptionInv, Named
  <2>3. Cancelled(app[q], app'[q], d.epoch, d.reason)
    BY <1>4 DEF TakesCancel
  <2> QED
    BY <1>1, <2>2, <2>3, AloneCancelled
<1>5. CASE TakesOrder(q)
  <2> DEFINE d == Head(pending_orders[q])
  <2>1. app'[q] = app[q] \/ Applied(app[q], app'[q], d)
    BY <1>5 DEF TakesOrder
  <2> QED
    BY <1>1, <1>2, <2>1, AloneApplied
<1>6. ASSUME NEW e \in Epoch, NEW k \in Reason, AdoptsCancel(q, e, k)
      PROVE  Alone(app'[q])
  <2>1. Cancelled(app[q], app'[q], e, k)
    BY <1>6 DEF AdoptsCancel
  <2> QED
    BY <1>1, <2>1, AloneCancelled
<1>7. ASSUME NEW d \in Entry, AdoptsOrder(q, d)
      PROVE  Alone(app'[q])
  <2>1. app'[q] = [app[q] EXCEPT !.last_committed = d.epoch]
    BY <1>7 DEF AdoptsOrder
  <2>2. \A e : Tombstoned(app'[q], e) <=> Tombstoned(app[q], e)
    BY <1>1, <2>1 DEF Tombstoned, AppState
  <2> QED
    BY <1>1, <2>1, <2>2 DEF Alone, AppState
<1>8. ASSUME NEW r \in Honest \ {q},
             \/ Local(r) \/ TakesCancel(r) \/ TakesOrder(r) \/ Execute(r)
             \/ \E e \in Epoch, k \in Reason : AdoptsCancel(r, e, k)
             \/ \E d \in Entry : AdoptsOrder(r, d)
      PROVE  app'[q] = app[q]
  BY <1>8 DEF Local, TakesCancel, TakesOrder, Execute, AdoptsCancel, AdoptsOrder, Others
<1>9. ASSUME \/ Execute(q)
             \/ \E p \in proposed : CommitCancel(p) \/ CommitOrder(p)
             \/ \E v \in Honest, p \in proposed : VoteOrder(v, p)
             \/ Idle
      PROVE  app'[q] = app[q]
  BY <1>9 DEF Execute, CommitCancel, CommitOrder, Commit, VoteOrder, Idle
<1> QED
  BY <1>2, <1>3, <1>4, <1>5, <1>6, <1>7, <1>8, <1>9 DEF Kinds

\* At the start no certificate is accepted and no rollback is pending.
LEMMA AloneInit == Init => AloneInv
<1> SUFFICES ASSUME Init PROVE AloneInv
  OBVIOUS
<1>1. ASSUME NEW r \in Honest PROVE Alone(app[r])
  <2>1. app[r] = InitialApp(r)
    BY DEF Init
  <2> QED
    BY <2>1 DEF InitialApp, Alone
<1> QED
  BY <1>1, LedgerInit DEF AloneInv

\* The fields of the apps agree for as long as the rollbacks come one after the other and
\* are those PBFT decided.
LEMMA AloneInvariant == Spec /\ []Checked /\ []OneRollback => []AloneInv
<1>1. AloneInv /\ OneRollback /\ OneRollback' /\ LedgerInv' /\ [Next]_vars => AloneInv'
  <2> SUFFICES ASSUME AloneInv, OneRollback, OneRollback', LedgerInv', [Next]_vars
               PROVE  AloneInv'
    OBVIOUS
  <2>1. TypeOK'
    BY DEF LedgerInv, RecoveryInv, AdoptionInv
  <2>2. Kinds
    BY StepKinds DEF AloneInv, LedgerInv, RecoveryInv, AdoptionInv
  <2>3. \A r \in Honest : Alone(app'[r])
    BY <2>1, <2>2, AloneStays
  <2>4. \A r \in Honest : Alone(app[r])'
    BY <2>3 DEF Alone, Tombstoned
  <2> QED
    BY <2>4 DEF AloneInv
<1>2. Spec /\ []Checked => []LedgerInv
  BY LedgerInvariant, PTL
<1> QED
  BY <1>1, <1>2, AloneInit, PTL DEF Spec

\* Through any number of epochs, current_epoch_, rollback_new_epoch_ and
\* rollback_cancelled_epoch_ of a pending rollback agree, however decisions and gossip are
\* ordered, while what is gossiped was decided (Checked), unless a certificate is accepted
\* while it is pending: handleValidCancelJustification() then overwrites rollback_cancelled_epoch_.
THEOREM RecoveriesAreCoherent ==
    Spec /\ []Checked /\ []OneRollback => []RecoveryCoherent
<1>1. AloneInv => RecoveryCoherent
  BY DEF AloneInv, Alone, RecoveryCoherent
<1> QED
  BY <1>1, AloneInvariant, PTL

\* Through any number of epochs a vehicle that accepted a certificate drains or proposes,
\* unless it accepted it while an earlier rollback was pending: beginCancelDrain() then
\* finds COMMITTED and does nothing (while Checked).
THEOREM CertsProgress ==
    Spec /\ []Checked /\ []OneRollback => []AcceptedCertProgresses
<1>1. AloneInv => AcceptedCertProgresses
  BY DEF AloneInv, Alone, AcceptedCertProgresses
<1> QED
  BY <1>1, AloneInvariant, PTL

\* The first rollback is alone: an accepted certificate is for epoch 0, which a vehicle
\* with a pending rollback has tombstoned (while Checked).
THEOREM FirstRollbackIsAlone ==
    ASSUME MaxEpoch <= 1
    PROVE  Spec /\ []Checked => []OneRollback
<1>1. FirstInv => OneRollback
  BY DEF FirstInv, First, OneRollback
<1> QED
  BY <1>1, FirstInvariant, PTL
==============================================================================
