--------------------------- MODULE Discovery_proofs ---------------------------
(***************************************************************************)
(* What holds of Discovery for every number of vehicles, every f with at   *)
(* most f faulty vehicles, every kind of lie and every verdict.            *)
(***************************************************************************)
EXTENDS Discovery, FiniteSetTheorems, TLAPS

-----------------------------------------------------------------------------
(* What a vehicle knows is sound *)

\* An honest vehicle has signed the claim, or the distance of a faulty vehicle.
Perceived(k, S) == \E w \in Honest : <<w, k>> \in S
Measured(a, D) == a.car \in faulty => \E w \in Honest : <<w, a>> \in D

\* Certificates and what becomes one are of claims that were perceived.
CertsSound(r, s, S, D) ==
    /\ \A v \in R : s.certs[v] # None => Perceived(s.certs[v], S)
    /\ \A v \in R : s.dist[v] # None => s.dist[v].car = v /\ Measured(s.dist[v], D)
    /\ s.own # None => Perceived(s.own, S)
    /\ s.hash[r] # None => Perceived(s.hash[r], S)
    /\ \A v \in R : s.hash[v] # None => s.hash[v].car = v
    /\ s.attested # None => s.attested.car = r

\* Distances, certificates and the candidate of another vehicle agree.
CandidateSound(r, s) ==
    \A v \in R \ {r} :
        /\ s.dist[v] # None => s.certs[v] = s.dist[v].claim
        /\ v \in s.voters => s.dist[v] # None /\ s.evidence[v] = s.certs[v]

\* The own certificate is assembled, then queued, then in the air A; that of
\* the distance waits for its radio slot only if there is one.
OwnSound(s, A) ==
    /\ s.own # None => s.localCert # "NOT_ASSEMBLED"
    /\ s.own # None /\ s.localCert = "AIRED" => [kind |-> "CERT", of |-> s.own] \in A
    /\ s.state = "COMPLETE" => s.localCert # "QUEUED"
    /\ "DIST" \in s.queue => s.attested # None

Sound(r, s, A, S, D) == CertsSound(r, s, S, D) /\ CandidateSound(r, s) /\ OwnSound(s, A)

\* What has been broadcast can be believed.
FramesSound(A, S, D) ==
    \A f \in A : /\ f.kind = "CERT" => Perceived(f.of, S)
                 /\ f.kind = "DIST" => Measured(f.of, D)

Inv == /\ TypeOK
       /\ \A r \in Honest : /\ Sound(r, app[r], air[r], signed, dsigned)
                            /\ FramesSound(air[r], signed, dsigned)

\* None is no claim and no attestation.
LEMMA NoneIsNothing == None \notin Claim /\ None \notin Attestation
<1>1. ASSUME NEW k \in Claim PROVE k.car # None.car
  BY DiscoveryAssumption DEF Claim, None
<1>2. ASSUME NEW a \in Attestation PROVE a.car # None.car
  BY DiscoveryAssumption DEF Attestation, None
<1> QED
  BY <1>1, <1>2

\* Signatures and broadcasts are never taken back, so what is sound stays so.
LEMMA SoundGrows ==
    ASSUME NEW r, NEW s, NEW A, NEW B, NEW S, NEW T, NEW D, NEW E,
           A \subseteq B, S \subseteq T, D \subseteq E, Sound(r, s, A, S, D)
    PROVE  Sound(r, s, B, T, E)
BY DEF Sound, CertsSound, CandidateSound, OwnSound, Perceived, Measured

LEMMA FramesGrow ==
    ASSUME NEW A, NEW S, NEW T, NEW D, NEW E, S \subseteq T, D \subseteq E, FramesSound(A, S, D)
    PROVE  FramesSound(A, T, E)
BY DEF FramesSound, Perceived, Measured

-----------------------------------------------------------------------------
(* The operators on a round *)

\* The state of a round may end it if nothing of the vehicle's own waits.
LEMMA ReadyKeeps ==
    ASSUME NEW r \in R, NEW s \in App, NEW A, NEW S, NEW D, Sound(r, s, A, S, D)
    PROVE  LET t == evaluateOrderReadiness(s, r) IN t \in App /\ Sound(r, t, A, S, D)
<1> DEFINE voters == {v \in R : s.certs[v] # None /\ s.dist[v] # None /\ InMembership(s, v)}
           small == s.epoch = 1 /\ Cardinality(voters) < MinMembers
           evidence == [v \in R |-> IF v \in voters THEN s.certs[v] ELSE None]
           submits == ~small /\ r \in voters /\ \A v \in voters : r <= v
           t == [s EXCEPT !.voters = voters, !.evidence = evidence, !.submitted = submits]
<1>1. voters \in SUBSET R /\ submits \in BOOLEAN
  OBVIOUS
<1>2. evidence \in [R -> Claim \cup {None}]
  BY DEF App
<1>3. \A v \in voters : s.dist[v] # None /\ evidence[v] = s.certs[v]
  OBVIOUS
<1>4. evaluateOrderReadiness(s, r) = t
  BY DEF evaluateOrderReadiness
<1> HIDE DEF voters, evidence, submits
<1>5. t \in App
  BY <1>1, <1>2 DEF App
<1>6. /\ t.voters = voters /\ t.evidence = evidence
      /\ t.certs = s.certs /\ t.dist = s.dist /\ t.own = s.own /\ t.hash = s.hash
      /\ t.attested = s.attested /\ t.localCert = s.localCert /\ t.state = s.state
      /\ t.queue = s.queue
  BY DEF App
<1> HIDE DEF t
<1>7. Sound(r, t, A, S, D)
  BY <1>3, <1>6 DEF Sound, CertsSound, CandidateSound, OwnSound
<1> QED
  BY <1>4, <1>5, <1>7

\* A vehicle assembles its certificate from what it announced or was certified.
LEMMA FinalizeArrivalKeeps ==
    ASSUME NEW r \in R, NEW s \in App, NEW A, NEW S, NEW D, Sound(r, s, A, S, D),
           s.state # "COMPLETE"
    PROVE  LET t == finalizeArrival(s, r)
           IN  t \in App /\ Sound(r, t, A, S, D) /\ t.state = s.state
<1>1. CASE s.localCert # "NOT_ASSEMBLED" \/ ~Enough(s.echoes) \/ s.hash[r] = None
  BY <1>1 DEF finalizeArrival
<1>2. CASE ~(s.localCert # "NOT_ASSEMBLED" \/ ~Enough(s.echoes) \/ s.hash[r] = None)
  <2> DEFINE own == IF s.hash[r].epoch = s.epoch THEN s.hash[r] ELSE None
             queue == IF Collecting(s) /\ ~s.distance THEN s.queue \cup {"CERT"} ELSE s.queue
             cert == IF s.certs[r] = None THEN s.hash[r] ELSE s.certs[r]
             t == [s EXCEPT !.localCert = "QUEUED", !.retry = TRUE, !.own = own,
                            !.queue = queue, !.certs[r] = cert]
  <2>1. finalizeArrival(s, r) = t
    BY <1>2 DEF finalizeArrival
  <2>2. own \in Claim \cup {None} /\ cert \in Claim \cup {None} /\ queue \subseteq {"CERT", "DIST"}
    BY DEF App
  <2> "DIST" \in queue => "DIST" \in s.queue
    OBVIOUS
  <2>3. /\ own # None => Perceived(own, S)
        /\ cert # None => Perceived(cert, S)
    BY DEF Sound, CertsSound
  <2> HIDE DEF own, queue, cert
  <2>4. t \in App
    BY <2>2 DEF App, LocalCertState
  <2>5. /\ t.certs = [s.certs EXCEPT ![r] = cert] /\ t.own = own /\ t.localCert = "QUEUED"
        /\ t.dist = s.dist /\ t.hash = s.hash /\ t.attested = s.attested
        /\ t.voters = s.voters /\ t.evidence = s.evidence /\ t.state = s.state
        /\ "DIST" \in t.queue => "DIST" \in s.queue
        /\ s.certs \in [R -> Claim \cup {None}]
    BY DEF App
  <2> HIDE DEF t
  <2>6. CertsSound(r, t, S, D)
    BY <2>3, <2>5 DEF Sound, CertsSound
  <2>7. CandidateSound(r, t)
    BY <2>5 DEF Sound, CandidateSound
  <2>8. OwnSound(t, A)
    BY <2>5 DEF Sound, OwnSound
  <2> QED
    BY <2>1, <2>4, <2>5, <2>6, <2>7, <2>8 DEF Sound
<1> QED
  BY <1>1, <1>2

\* The distance certificate of an honest vehicle is about itself.
LEMMA FinalizeDistanceKeeps ==
    ASSUME NEW r \in Honest, NEW s \in App, NEW A, NEW S, NEW D, Sound(r, s, A, S, D)
    PROVE  LET t == finalizeDistance(s, r)
           IN  t \in App /\ Sound(r, t, A, S, D) /\ t.state = s.state
<1> r \in R /\ r \notin faulty
  BY DEF Honest
<1>1. CASE \/ s.attested = None \/ s.localDistanceCert # "NOT_ASSEMBLED"
           \/ ~Enough(s.dechoes \cup {r})
  BY <1>1 DEF finalizeDistance
<1>2. CASE ~(\/ s.attested = None \/ s.localDistanceCert # "NOT_ASSEMBLED"
             \/ ~Enough(s.dechoes \cup {r}))
  <2> DEFINE t == [s EXCEPT !.localDistanceCert = "QUEUED", !.finalize = FALSE,
                            !.queue = s.queue \cup {"DIST"}, !.dist[r] = s.attested]
  <2>1. finalizeDistance(s, r) = t
    BY <1>2 DEF finalizeDistance
  <2>2. t \in App
    BY DEF App, LocalCertState
  <2>3. /\ t.dist = [s.dist EXCEPT ![r] = s.attested] /\ s.dist \in [R -> Attestation \cup {None}]
        /\ t.certs = s.certs /\ t.own = s.own /\ t.localCert = s.localCert
        /\ t.hash = s.hash /\ t.attested = s.attested
        /\ t.voters = s.voters /\ t.evidence = s.evidence /\ t.state = s.state
        /\ t.attested # None
    BY <1>2 DEF App
  <2> HIDE DEF t
  <2>4. s.attested.car = r /\ Measured(s.attested, D)
    BY <1>2 DEF Sound, CertsSound, Measured
  <2>5. CertsSound(r, t, S, D)
    BY <2>3, <2>4 DEF Sound, CertsSound
  <2>6. CandidateSound(r, t)
    BY <2>3 DEF Sound, CandidateSound
  <2>7. OwnSound(t, A)
    BY <2>3 DEF Sound, OwnSound
  <2> QED
    BY <2>1, <2>2, <2>3, <2>5, <2>6, <2>7 DEF Sound
<1> QED
  BY <1>1, <1>2

LEMMA MaybeCompleteKeeps ==
    ASSUME NEW r \in R, NEW s \in App, NEW A, NEW S, NEW D, Sound(r, s, A, S, D)
    PROVE  LET t == maybeComplete(s, r) IN t \in App /\ Sound(r, t, A, S, D)
<1>1. CASE \/ s.state # "DRAINING_CERTS"
           \/ s.localCert = "QUEUED" \/ s.localDistanceCert = "QUEUED" \/ s.queue # {}
  BY <1>1 DEF maybeComplete
<1>2. CASE ~(\/ s.state # "DRAINING_CERTS"
             \/ s.localCert = "QUEUED" \/ s.localDistanceCert = "QUEUED" \/ s.queue # {})
  <2> DEFINE u == [s EXCEPT !.state = "COMPLETE", !.retry = FALSE]
  <2>1. maybeComplete(s, r) = evaluateOrderReadiness(u, r)
    BY <1>2 DEF maybeComplete
  <2>2. u \in App
    BY DEF App, State
  <2>3. /\ u.certs = s.certs /\ u.dist = s.dist /\ u.own = s.own /\ u.hash = s.hash
        /\ u.attested = s.attested /\ u.localCert = s.localCert
        /\ u.voters = s.voters /\ u.evidence = s.evidence
        /\ u.queue = s.queue
    BY DEF App
  <2> HIDE DEF u
  <2>4. Sound(r, u, A, S, D)
    BY <1>2, <2>3 DEF Sound, CertsSound, CandidateSound, OwnSound
  <2> QED
    BY <2>1, <2>2, <2>4, ReadyKeeps
<1> QED
  BY <1>1, <1>2

\* A round that closes takes what its own timers would have assembled.
LEMMA DrainKeeps ==
    ASSUME NEW r \in Honest, NEW s \in App, NEW A, NEW S, NEW D, Sound(r, s, A, S, D),
           s.state # "COMPLETE"
    PROVE  LET t == beginDiscoveryDrain(s, r) IN t \in App /\ Sound(r, t, A, S, D)
<1> r \in R
  BY DEF Honest
<1> DEFINE a == finalizeArrival(s, r)
           d == finalizeDistance(a, r)
           u == [d EXCEPT !.state = "DRAINING_CERTS", !.distance = FALSE]
<1>1. beginDiscoveryDrain(s, r) = maybeComplete(u, r)
  BY DEF beginDiscoveryDrain
<1>2. a \in App /\ Sound(r, a, A, S, D)
  BY FinalizeArrivalKeeps
<1> HIDE DEF a
<1>3. d \in App /\ Sound(r, d, A, S, D)
  BY <1>2, FinalizeDistanceKeeps
<1> HIDE DEF d
<1>4. u \in App
  BY <1>3 DEF App, State
<1>5. /\ u.certs = d.certs /\ u.dist = d.dist /\ u.own = d.own /\ u.hash = d.hash
      /\ u.attested = d.attested /\ u.localCert = d.localCert
      /\ u.voters = d.voters /\ u.evidence = d.evidence /\ u.state = "DRAINING_CERTS"
      /\ u.queue = d.queue
  BY <1>3 DEF App
<1> HIDE DEF u
<1>6. Sound(r, u, A, S, D)
  BY <1>3, <1>5 DEF Sound, CertsSound, CandidateSound, OwnSound
<1> QED
  BY <1>1, <1>4, <1>6, MaybeCompleteKeeps

LEMMA AdvanceKeeps ==
    ASSUME NEW r \in Honest, NEW s \in App, NEW A, NEW S, NEW D, Sound(r, s, A, S, D),
           NEW settled
    PROVE  LET t == maybeAdvance(s, r, settled) IN t \in App /\ Sound(r, t, A, S, D)
BY DrainKeeps DEF maybeAdvance, Collecting

LEMMA DeadlineKeeps ==
    ASSUME NEW r \in Honest, NEW s \in App, NEW A, NEW S, NEW D, Sound(r, s, A, S, D),
           s.state # "COMPLETE"
    PROVE  LET t == DeadlineReached(s, r) IN t \in App /\ Sound(r, t, A, S, D)
<1> DEFINE u == beginStoppedDistanceCollection(s)
<1>0. DeadlineReached(s, r) = u \/ DeadlineReached(s, r) = beginDiscoveryDrain(s, r)
  BY DEF DeadlineReached
<1>1. u \in App
  BY DEF beginStoppedDistanceCollection, App
<1>2. /\ u.certs = s.certs /\ u.dist = s.dist /\ u.own = s.own /\ u.hash = s.hash
      /\ u.attested = s.attested /\ u.localCert = s.localCert
      /\ u.voters = s.voters /\ u.evidence = s.evidence /\ u.state = s.state
      /\ "DIST" \in u.queue => "DIST" \in s.queue
  BY DEF beginStoppedDistanceCollection, App
<1> HIDE DEF u
<1>3. Sound(r, u, A, S, D)
  BY <1>2 DEF Sound, CertsSound, CandidateSound, OwnSound
<1> QED
  BY <1>0, <1>1, <1>3, DrainKeeps

\* A claim made now is by its claimant's own signature perceived.
LEMMA AnnouncedKeeps ==
    ASSUME NEW r \in Honest, NEW s \in App, NEW A, NEW S, NEW D, Sound(r, s, A, S, D)
    PROVE  LET t == announced(s, r)
               T == S \cup {<<r, Own(s, r)>>}
           IN  /\ Own(s, r) \in Claim /\ t \in App /\ Sound(r, t, A, T, D)
<1> r \in R
  BY DEF Honest
<1> DEFINE k == Own(s, r)
           T == S \cup {<<r, k>>}
           t == [s EXCEPT !.hash[r] = k, !.echoes = {r}, !.intents = s.intents \cup {r}]
<1>1. announced(s, r) = t
  BY DEF announced
<1>2. k \in Claim /\ k.car = r
  BY DiscoveryAssumption DEF Own, Claim, App
<1>3. Perceived(k, T) /\ S \subseteq T
  BY DEF Perceived
<1> HIDE DEF k, T
<1>4. t \in App
  BY <1>2 DEF App
<1>5. /\ t.hash = [s.hash EXCEPT ![r] = k] /\ s.hash \in [R -> Claim \cup {None}]
      /\ t.certs = s.certs /\ t.dist = s.dist /\ t.own = s.own
      /\ t.attested = s.attested /\ t.localCert = s.localCert
      /\ t.voters = s.voters /\ t.evidence = s.evidence /\ t.state = s.state
      /\ t.queue = s.queue
  BY DEF App
<1> HIDE DEF t
<1>6. Sound(r, s, A, T, D)
  BY <1>3, SoundGrows
<1>7. Sound(r, t, A, T, D)
  BY <1>2, <1>3, <1>5, <1>6 DEF Sound, CertsSound, CandidateSound, OwnSound
<1> QED
  BY <1>1, <1>2, <1>4, <1>7 DEF k, T

LEMMA NewRoundIsSound ==
    ASSUME NEW r \in R, NEW e \in Epoch, NEW stopped \in BOOLEAN, NEW A, NEW S, NEW D
    PROVE  LET t == NewRound(e, stopped) IN t \in App /\ Sound(r, t, A, S, D)
<1> DEFINE t == NewRound(e, stopped)
<1>1. Nothing \in [R -> Claim \cup {None}] /\ Nothing \in [R -> Attestation \cup {None}]
      /\ \A v \in R : Nothing[v] = None
  BY DEF Nothing
<1> HIDE DEF Nothing
<1>2. t \in App
  BY <1>1 DEF NewRound, App, State, LocalCertState
<1>3. /\ t.certs = Nothing /\ t.dist = Nothing /\ t.own = None /\ t.hash = Nothing
      /\ t.attested = None /\ t.voters = {} /\ t.state = "COLLECTING" /\ t.queue = {}
  BY DEF NewRound
<1> HIDE DEF t
<1>4. Sound(r, t, A, S, D)
  BY <1>1, <1>3 DEF Sound, CertsSound, CandidateSound, OwnSound
<1> QED
  BY <1>2, <1>4 DEF t

-----------------------------------------------------------------------------
(* What is heard *)

\* More than f signatures include that of an honest vehicle.
LEMMA HonestSigner ==
    ASSUME faulty \in FaultySets, NEW W, NEW signers, signers = W \cup faulty, Enough(signers)
    PROVE  \E w \in W : w \notin faulty
<1>1. SUFFICES ASSUME W \subseteq faulty PROVE FALSE
  OBVIOUS
<1>2. signers = faulty
  BY <1>1
<1>3. IsFiniteSet(faulty) /\ Cardinality(faulty) <= F /\ F \in Nat
  BY DiscoveryAssumption, FS_Subset
<1>4. Cardinality(faulty) \in Nat
  BY <1>3, FS_CardinalityType
<1> QED
  BY <1>2, <1>3, <1>4 DEF Enough

\* A certificate that is heard can be believed, whoever sends it.
LEMMA CertHeard ==
    ASSUME Inv, NEW s \in R, NEW k \in Claim, Heard(s, "CERT", k)
    PROVE  Perceived(k, signed)
<1>1. CASE s \in Honest
  BY <1>1 DEF Heard, Inv, FramesSound
<1>2. CASE s \notin Honest
  <2>1. Enough(Signers(k))
    BY <1>2 DEF Heard
  <2>2. \E w \in {w \in Honest \ {k.car} : <<w, k>> \in signed} : w \notin faulty
    BY <2>1, HonestSigner DEF Signers, Inv, TypeOK
  <2> QED
    BY <2>2 DEF Perceived
<1> QED
  BY <1>1, <1>2

LEMMA DistanceHeard ==
    ASSUME Inv, NEW s \in R, NEW a \in Attestation, Heard(s, "DIST", a)
    PROVE  Measured(a, dsigned)
<1>1. CASE s \in Honest
  BY <1>1 DEF Heard, Inv, FramesSound
<1>2. CASE s \notin Honest
  <2>1. a.car \in faulty /\ Enough(DistanceSigners(a))
    BY <1>2 DEF Heard
  <2> DEFINE W == {w \in Honest : <<w, a>> \in dsigned}
  <2>2. DistanceSigners(a) = W \cup faulty
    BY <2>1 DEF DistanceSigners
  <2>3. \E w \in W : w \notin faulty
    BY <2>1, <2>2, HonestSigner DEF Inv, TypeOK
  <2> QED
    BY <2>3 DEF Measured
<1> QED
  BY <1>1, <1>2

-----------------------------------------------------------------------------
(* The steps *)

\* What a step of r has to show, with its round t and its broadcasts A.
LEMMA StepKeeps ==
    ASSUME Inv, NEW r \in Honest, NEW t \in App, NEW A \in SUBSET Frame,
           app' = [app EXCEPT ![r] = t], air' = [air EXCEPT ![r] = A], faulty' = faulty,
           signed \subseteq signed', signed' \subseteq R \X Claim,
           dsigned \subseteq dsigned', dsigned' \subseteq R \X Attestation,
           Sound(r, t, A, signed', dsigned'), FramesSound(A, signed', dsigned')
    PROVE  Inv'
<1> r \in R /\ Honest \subseteq R /\ Honest' = Honest
  BY DEF Honest
<1>1. TypeOK'
  BY DEF Inv, TypeOK
<1>2. ASSUME NEW w \in Honest
      PROVE  Sound(w, app'[w], air'[w], signed', dsigned') /\ FramesSound(air'[w], signed', dsigned')
  <2>1. CASE w = r
    BY <2>1 DEF Inv, TypeOK
  <2>2. CASE w # r
    <3>1. app'[w] = app[w] /\ air'[w] = air[w]
      BY <2>2 DEF Inv, TypeOK
    <3>2. Sound(w, app[w], air[w], signed, dsigned) /\ FramesSound(air[w], signed, dsigned)
      BY DEF Inv
    <3> QED
      BY <3>1, <3>2, SoundGrows, FramesGrow
  <2> QED
    BY <2>1, <2>2
<1>3. ASSUME NEW w \in Honest'
      PROVE  (Sound(w, app[w], air[w], signed, dsigned) /\ FramesSound(air[w], signed, dsigned))'
  <2>1. CertsSound(w, app[w], signed, dsigned)'
    BY SMTT(30), <1>2 DEF Sound, CertsSound, Perceived, Measured
  <2>2. CandidateSound(w, app[w])' /\ OwnSound(app[w], air[w])'
    BY <1>2 DEF Sound, CandidateSound, OwnSound
  <2>3. FramesSound(air[w], signed, dsigned)'
    BY <1>2 DEF FramesSound, Perceived, Measured
  <2> QED
    BY <2>1, <2>2, <2>3 DEF Sound
<1>4. (\A w \in Honest : /\ Sound(w, app[w], air[w], signed, dsigned)
                          /\ FramesSound(air[w], signed, dsigned))'
  BY <1>3
<1> QED
  BY <1>1, <1>4 DEF Inv

\* What a step of r starts from.
LEMMA Standing ==
    ASSUME Inv, NEW r \in Honest
    PROVE  /\ r \in R /\ r \notin faulty
           /\ app[r] \in App /\ air[r] \in SUBSET Frame /\ air = [air EXCEPT ![r] = air[r]]
           /\ signed \subseteq R \X Claim /\ dsigned \subseteq R \X Attestation
           /\ Sound(r, app[r], air[r], signed, dsigned)
           /\ FramesSound(air[r], signed, dsigned)
BY DEF Inv, TypeOK, Honest

\* A step that sends and signs nothing.
LEMMA QuietStepKeeps ==
    ASSUME Inv, NEW r \in Honest, NEW t \in App, Step(r, t), Sound(r, t, air[r], signed, dsigned),
           UNCHANGED <<faulty, air, signed, dsigned>>
    PROVE  Inv'
BY Standing, StepKeeps DEF Step

\* Timers, counts and queues say nothing about what was perceived.
LEMMA SameEvidence ==
    ASSUME NEW r, NEW s, NEW t, NEW A, NEW S, NEW D, Sound(r, s, A, S, D),
           t.certs = s.certs, t.dist = s.dist, t.own = s.own, t.hash = s.hash,
           t.attested = s.attested, t.localCert = s.localCert, t.voters = s.voters,
           t.evidence = s.evidence, t.state = s.state, "DIST" \in t.queue => "DIST" \in s.queue
    PROVE  Sound(r, t, A, S, D)
BY DEF Sound, CertsSound, CandidateSound, OwnSound

LEMMA HandleArrivalEchoKeeps ==
    ASSUME Inv, NEW r \in R, NEW w \in R, HandleArrivalEcho(r, w)
    PROVE  Inv'
<1> DEFINE s == app[r]
           t == [s EXCEPT !.echoes = s.echoes \cup {w}]
<1>1. r \in Honest /\ Step(r, t) /\ UNCHANGED <<faulty, air, signed, dsigned>>
  BY DEF HandleArrivalEcho, Step
<1>2. s \in App /\ Sound(r, s, air[r], signed, dsigned)
  BY <1>1, Standing
<1> HIDE DEF s
<1>3. t \in App
  BY <1>2 DEF App
<1>4. Sound(r, t, air[r], signed, dsigned)
  BY <1>2, SameEvidence DEF App
<1> QED
  BY <1>1, <1>3, <1>4, QuietStepKeeps

LEMMA FinalizeArrivalCertKeeps ==
    ASSUME Inv, NEW r \in R, NEW settled, FinalizeArrivalCert(r, settled)
    PROVE  Inv'
<1> DEFINE u == finalizeArrival(app[r], r)
           t == maybeAdvance(u, r, settled)
<1>1. /\ r \in Honest /\ Step(r, t) /\ UNCHANGED <<faulty, air, signed, dsigned>>
      /\ app[r].state # "COMPLETE"
  BY DEF FinalizeArrivalCert, Step
<1>2. u \in App /\ Sound(r, u, air[r], signed, dsigned)
  BY <1>1, Standing, FinalizeArrivalKeeps
<1> HIDE DEF u
<1>3. t \in App /\ Sound(r, t, air[r], signed, dsigned)
  BY <1>1, <1>2, AdvanceKeeps
<1> QED
  BY <1>1, <1>3, QuietStepKeeps

LEMMA HandleDistanceEchoKeeps ==
    ASSUME Inv, NEW r \in R, NEW w \in R, HandleDistanceEcho(r, w)
    PROVE  Inv'
<1> DEFINE s == app[r]
           enough == s.finalize \/ Enough(s.dechoes \cup {r, w})
           t == [s EXCEPT !.dechoes = s.dechoes \cup {w}, !.finalize = enough]
<1>1. r \in Honest /\ Step(r, t) /\ UNCHANGED <<faulty, air, signed, dsigned>>
  BY DEF HandleDistanceEcho, Step
<1>2. s \in App /\ Sound(r, s, air[r], signed, dsigned)
  BY <1>1, Standing
<1> HIDE DEF s
<1>3. s.finalize \in BOOLEAN /\ Enough(s.dechoes \cup {r, w}) \in BOOLEAN
  BY <1>2 DEF App, Enough
<1>4. enough \in BOOLEAN
  BY <1>3
<1> HIDE DEF enough
<1>5. t \in App
  BY <1>2, <1>4 DEF App
<1>6. Sound(r, t, air[r], signed, dsigned)
  BY <1>2, SameEvidence DEF App
<1> QED
  BY <1>1, <1>5, <1>6, QuietStepKeeps DEF enough

LEMMA FinalizeDistanceCertKeeps ==
    ASSUME Inv, NEW r \in R, NEW settled, FinalizeDistanceCert(r, settled)
    PROVE  Inv'
<1> DEFINE u == finalizeDistance(app[r], r)
           t == maybeAdvance(u, r, settled)
<1>1. r \in Honest /\ Step(r, t) /\ UNCHANGED <<faulty, air, signed, dsigned>>
  BY DEF FinalizeDistanceCert, Step
<1>2. u \in App /\ Sound(r, u, air[r], signed, dsigned)
  BY <1>1, Standing, FinalizeDistanceKeeps
<1> HIDE DEF u
<1>3. t \in App /\ Sound(r, t, air[r], signed, dsigned)
  BY <1>1, <1>2, AdvanceKeeps
<1> QED
  BY <1>1, <1>3, QuietStepKeeps

LEMMA RetryCertKeeps ==
    ASSUME Inv, NEW r \in R, NEW last \in BOOLEAN, RetryCert(r, last)
    PROVE  Inv'
<1> DEFINE s == app[r]
           accepted == Active(s) /\ ~s.distance /\ s.state \in {"COLLECTING", "DRAINING_CERTS"}
           queue == IF accepted THEN s.queue \cup {"CERT"} ELSE s.queue
           again == ~last
           t == [s EXCEPT !.retry = again, !.queue = queue]
<1>1. r \in Honest /\ Step(r, t) /\ UNCHANGED <<faulty, air, signed, dsigned>>
  BY DEF RetryCert, Step
<1>2. s \in App /\ Sound(r, s, air[r], signed, dsigned)
  BY <1>1, Standing
<1> HIDE DEF s
<1>3. /\ queue \subseteq {"CERT", "DIST"} /\ again \in BOOLEAN
      /\ "DIST" \in queue => "DIST" \in s.queue
  BY <1>2 DEF App
<1> HIDE DEF queue, again
<1>4. t \in App
  BY <1>2, <1>3 DEF App
<1>5. Sound(r, t, air[r], signed, dsigned)
  BY <1>2, <1>3, SameEvidence DEF App
<1> QED
  BY <1>1, <1>4, <1>5, QuietStepKeeps DEF queue, again

LEMMA EnterStopZoneKeeps ==
    ASSUME Inv, NEW r \in R, NEW settled, EnterStopZone(r, settled)
    PROVE  Inv'
<1> DEFINE s == app[r]
           u == [s EXCEPT !.entered = TRUE]
           t == maybeAdvance(u, r, settled)
<1>1. r \in Honest /\ Step(r, t) /\ UNCHANGED <<faulty, air, signed, dsigned>>
  BY DEF EnterStopZone, Step
<1>2. s \in App /\ Sound(r, s, air[r], signed, dsigned)
  BY <1>1, Standing
<1> HIDE DEF s
<1>3. u \in App
  BY <1>2 DEF App
<1>4. Sound(r, u, air[r], signed, dsigned)
  BY <1>2, SameEvidence DEF App
<1> HIDE DEF u
<1>5. t \in App /\ Sound(r, t, air[r], signed, dsigned)
  BY <1>1, <1>3, <1>4, AdvanceKeeps
<1> QED
  BY <1>1, <1>5, QuietStepKeeps

LEMMA SettleKeeps ==
    ASSUME Inv, NEW r \in R, Settle(r)
    PROVE  Inv'
<1>1. /\ r \in Honest /\ Step(r, maybeAdvance(app[r], r, TRUE))
      /\ UNCHANGED <<faulty, air, signed, dsigned>>
  BY DEF Settle, Step
<1> QED
  BY <1>1, Standing, AdvanceKeeps, QuietStepKeeps

LEMMA DeadlineStepKeeps ==
    ASSUME Inv, NEW r \in R, Deadline(r)
    PROVE  Inv'
<1>1. /\ r \in Honest /\ Step(r, DeadlineReached(app[r], r))
      /\ UNCHANGED <<faulty, air, signed, dsigned>> /\ app[r].state # "COMPLETE"
  BY DEF Deadline, Step, Collecting
<1> QED
  BY <1>1, Standing, DeadlineKeeps, QuietStepKeeps

LEMMA OrderAppliedKeeps ==
    ASSUME Inv, NEW r \in R, OrderApplied(r)
    PROVE  Inv'
<1> DEFINE s == app[r]
           t == [s EXCEPT !.applied = TRUE, !.state = "INACTIVE", !.distance = FALSE,
                          !.retry = FALSE, !.finalize = FALSE, !.queue = {}]
<1>1. r \in Honest /\ Step(r, t) /\ UNCHANGED <<faulty, air, signed, dsigned>>
  BY DEF OrderApplied, Step
<1>2. s \in App /\ Sound(r, s, air[r], signed, dsigned)
  BY <1>1, Standing
<1> HIDE DEF s
<1>3. t \in App
  BY <1>2 DEF App, State
<1>4. /\ t.certs = s.certs /\ t.dist = s.dist /\ t.own = s.own /\ t.hash = s.hash
      /\ t.attested = s.attested /\ t.localCert = s.localCert /\ t.voters = s.voters
      /\ t.evidence = s.evidence /\ t.state = "INACTIVE"
      /\ t.queue = {}
  BY <1>2 DEF App
<1> HIDE DEF t
<1>5. Sound(r, t, air[r], signed, dsigned)
  BY <1>2, <1>4 DEF Sound, CertsSound, CandidateSound, OwnSound
<1> QED
  BY <1>1, <1>3, <1>5, QuietStepKeeps

\* A claim that is only announced is believed by nobody yet.
LEMMA AnnouncementAdds ==
    ASSUME NEW A, NEW S, NEW T, NEW D, NEW k, S \subseteq T, FramesSound(A, S, D)
    PROVE  FramesSound(A \cup {[kind |-> "ANN", of |-> k]}, T, D)
<1>1. FramesSound(A, T, D)
  BY FramesGrow
<1> QED
  BY <1>1 DEF FramesSound

LEMMA AnnounceKeeps ==
    ASSUME Inv, NEW r \in R, Announce(r)
    PROVE  Inv'
<1> DEFINE s == app[r]
           k == Own(s, r)
           A == air[r] \cup {[kind |-> "ANN", of |-> k]}
           S == signed \cup {<<r, k>>}
<1>1. /\ r \in Honest /\ app' = [app EXCEPT ![r] = announced(s, r)]
      /\ air' = [air EXCEPT ![r] = A] /\ signed' = S /\ UNCHANGED <<faulty, dsigned>>
  BY DEF Announce, Step, Send
<1>2. /\ s \in App /\ Sound(r, s, air[r], signed, dsigned) /\ air[r] \subseteq Frame
      /\ FramesSound(air[r], signed, dsigned)
      /\ signed \subseteq R \X Claim /\ dsigned \subseteq R \X Attestation
  BY <1>1, Standing
<1>3. k \in Claim /\ announced(s, r) \in App /\ Sound(r, announced(s, r), air[r], S, dsigned)
  BY <1>1, <1>2, AnnouncedKeeps
<1> HIDE DEF k
<1>4. A \subseteq Frame /\ air[r] \subseteq A /\ signed \subseteq S /\ S \subseteq R \X Claim
  BY <1>2, <1>3 DEF Frame
<1>5. FramesSound(A, S, dsigned)
  BY <1>2, <1>4, AnnouncementAdds
<1> HIDE DEF s, A, S
<1>6. Sound(r, announced(s, r), A, S, dsigned)
  BY <1>3, <1>4, SoundGrows
<1> QED
  BY <1>1, <1>2, <1>3, <1>4, <1>5, <1>6, StepKeeps

LEMMA HandleArrivalAnnouncementKeeps ==
    ASSUME Inv, NEW r \in R, NEW from \in R, NEW k \in Claim, NEW verdict,
           HandleArrivalAnnouncement(r, from, k, verdict)
    PROVE  Inv'
<1> DEFINE s == app[r]
           judged == [s EXCEPT !.variants = s.variants \cup {k}]
           known == [judged EXCEPT !.hash[k.car] = k, !.intents = judged.intents \cup {k.car}]
           A == air[r] \cup {[kind |-> "ANN", of |-> k]}
           S == signed \cup {<<r, k>>}
<1>1. /\ r \in Honest /\ UNCHANGED <<faulty, dsigned>> /\ k.car # r
      /\ Step(r, judged) \/ Step(r, known)
      /\ \/ signed' = S /\ air' = [air EXCEPT ![r] = A]
         \/ UNCHANGED <<signed, air>>
  BY DEF HandleArrivalAnnouncement, Step, Send
<1>2. /\ s \in App /\ Sound(r, s, air[r], signed, dsigned) /\ air[r] \subseteq Frame
      /\ FramesSound(air[r], signed, dsigned) /\ air = [air EXCEPT ![r] = air[r]]
      /\ signed \subseteq R \X Claim /\ dsigned \subseteq R \X Attestation
  BY <1>1, Standing
<1> HIDE DEF s
<1>3. k.car \in R
  BY DEF Claim
<1>4. judged \in App /\ known \in App
  BY <1>2, <1>3 DEF App
<1>5. Sound(r, judged, air[r], signed, dsigned)
  BY <1>2, SameEvidence DEF App
<1>6. /\ known.hash = [s.hash EXCEPT ![k.car] = k] /\ s.hash \in [R -> Claim \cup {None}]
      /\ known.certs = s.certs /\ known.dist = s.dist /\ known.own = s.own
      /\ known.attested = s.attested /\ known.localCert = s.localCert
      /\ known.voters = s.voters /\ known.evidence = s.evidence /\ known.state = s.state
      /\ known.queue = s.queue
  BY <1>2 DEF App
<1> HIDE DEF judged, known
<1>7. Sound(r, known, air[r], signed, dsigned)
  BY <1>1, <1>2, <1>6 DEF Sound, CertsSound, CandidateSound, OwnSound
<1>8. /\ A \subseteq Frame /\ air[r] \subseteq A /\ signed \subseteq S /\ S \subseteq R \X Claim
  BY <1>2 DEF Frame
<1>9. FramesSound(A, S, dsigned)
  BY <1>2, <1>8, AnnouncementAdds
<1> HIDE DEF A, S
<1>10. PICK t \in {judged, known} : app' = [app EXCEPT ![r] = t]
  BY <1>1 DEF Step
<1>11. t \in App /\ Sound(r, t, air[r], signed, dsigned)
  BY <1>4, <1>5, <1>7
<1>12. CASE signed' = S /\ air' = [air EXCEPT ![r] = A]
  <2>1. Sound(r, t, A, S, dsigned)
    BY <1>8, <1>11, SoundGrows
  <2> QED
    BY <1>1, <1>2, <1>8, <1>9, <1>10, <1>11, <1>12, <2>1, StepKeeps
<1>13. CASE UNCHANGED <<signed, air>>
  BY <1>1, <1>2, <1>10, <1>11, <1>13, StepKeeps
<1> QED
  BY <1>1, <1>12, <1>13

LEMMA HandleArrivalCertKeeps ==
    ASSUME Inv, NEW r \in R, NEW from \in R, NEW k \in Claim, NEW settled, NEW accepts \in BOOLEAN,
           HandleArrivalCert(r, from, k, settled, accepts)
    PROVE  Inv'
<1> DEFINE s == app[r]
           certs == [s.certs EXCEPT ![k.car] = k]
           stored == [s EXCEPT !.certs[k.car] = k, !.hash[k.car] = k,
                               !.intents = s.intents \cup {k.car}]
           due == {a \in s.pending : a.claim = k} \ s.sampled
           waiting == {a \in stored.pending : a.claim # k}
           sampled == IF Active(s) THEN stored.sampled \cup due ELSE stored.sampled
           u == [stored EXCEPT !.pending = waiting, !.sampled = sampled]
           t == maybeAdvance(u, r, settled)
           frames == {k} \cup IF s.entered /\ CertPrimary(stored) = r
                              THEN {stored.certs[v] : v \in R} \ {None} ELSE {}
           A == air[r] \cup [kind : {"CERT"}, of : frames]
           D == dsigned \cup IF Active(s) THEN Echoes(r, due, accepts) ELSE {}
<1>1. /\ r \in Honest /\ UNCHANGED <<faulty, signed>>
      /\ Heard(from, "CERT", k) /\ s.certs[k.car] = None
      /\ app' = [app EXCEPT ![r] = t] /\ dsigned' = D
      /\ air' = [air EXCEPT ![r] = A] \/ UNCHANGED air
  BY DEF HandleArrivalCert, Step, Send
<1>2. /\ s \in App /\ Sound(r, s, air[r], signed, dsigned) /\ air[r] \subseteq Frame
      /\ FramesSound(air[r], signed, dsigned) /\ air = [air EXCEPT ![r] = air[r]]
      /\ signed \subseteq R \X Claim /\ dsigned \subseteq R \X Attestation
  BY <1>1, Standing
<1>3. k.car \in R /\ Perceived(k, signed)
  BY <1>1, CertHeard DEF Claim
<1>4. s.certs[k.car] = None
  BY <1>1
<1> HIDE DEF s
<1>5. stored \in App /\ stored.certs = certs /\ stored.pending = s.pending /\ stored.sampled = s.sampled
  BY <1>2, <1>3 DEF App
<1>6. /\ stored.hash = [s.hash EXCEPT ![k.car] = k] /\ s.hash \in [R -> Claim \cup {None}]
      /\ s.certs \in [R -> Claim \cup {None}]
      /\ stored.dist = s.dist /\ stored.own = s.own
      /\ stored.attested = s.attested /\ stored.localCert = s.localCert
      /\ stored.voters = s.voters /\ stored.evidence = s.evidence /\ stored.state = s.state
      /\ stored.queue = s.queue
  BY <1>2 DEF App
<1> HIDE DEF stored
<1>7. CertsSound(r, stored, signed, dsigned)
  BY <1>2, <1>3, <1>5, <1>6 DEF Sound, CertsSound
<1>8. CandidateSound(r, stored)
  <2> SUFFICES ASSUME NEW v \in R \ {r}
               PROVE  /\ stored.dist[v] # None => stored.certs[v] = stored.dist[v].claim
                      /\ v \in stored.voters =>
                            stored.dist[v] # None /\ stored.evidence[v] = stored.certs[v]
    BY DEF CandidateSound
  <2>1. CASE v = k.car
    <3>1. s.dist[v] = None
      <4>1. ASSUME s.dist[v] # None PROVE FALSE
        <5>1. s.dist[v] \in Attestation /\ s.dist[v].claim \in Claim
          BY <1>2, <4>1 DEF App, Attestation
        <5>2. s.dist[v].claim = None
          BY <1>2, <1>4, <2>1, <4>1 DEF Sound, CandidateSound
        <5> QED
          BY <5>1, <5>2, NoneIsNothing
      <4> QED
        BY <4>1
    <3>2. v \notin s.voters
      BY <1>2, <3>1 DEF Sound, CandidateSound
    <3> QED
      BY <1>6, <3>1, <3>2
  <2>2. CASE v # k.car
    BY <1>2, <1>5, <1>6, <2>2 DEF Sound, CandidateSound
  <2> QED
    BY <2>1, <2>2
<1>9. OwnSound(stored, air[r])
  BY <1>2, <1>6 DEF Sound, OwnSound
<1>10. Sound(r, stored, air[r], signed, dsigned)
  BY <1>7, <1>8, <1>9 DEF Sound
<1>11. due \subseteq Attestation
  BY <1>2 DEF App
<1>12. waiting \subseteq Attestation /\ sampled \subseteq Attestation
  BY <1>2, <1>5, <1>11 DEF App
<1>13. frames \subseteq Claim /\ \A x \in frames : Perceived(x, signed)
  <2>1. \A v \in R : stored.certs[v] # None => stored.certs[v] \in Claim /\ Perceived(stored.certs[v], signed)
    BY <1>5, <1>7 DEF App, CertsSound
  <2> QED
    BY <1>3, <2>1
<1>14. D \subseteq R \X Attestation /\ dsigned \subseteq D
  BY <1>2, <1>11 DEF Echoes
<1> HIDE DEF due, waiting, sampled, frames, D
<1>15. u \in App
  BY <1>5, <1>12 DEF App
<1>16. Sound(r, u, air[r], signed, dsigned)
  BY ZenonT(60), <1>5, <1>10, SameEvidence DEF App
<1> HIDE DEF u
<1>17. t \in App /\ Sound(r, t, air[r], signed, dsigned)
  BY <1>1, <1>15, <1>16, AdvanceKeeps
<1>18. A \subseteq Frame /\ air[r] \subseteq A
  BY <1>2, <1>13 DEF Frame
<1>19. FramesSound(A, signed, dsigned)
  BY <1>2, <1>13 DEF FramesSound
<1> HIDE DEF t, A
<1>20. /\ Sound(r, t, A, signed, D) /\ Sound(r, t, air[r], signed, D)
       /\ FramesSound(A, signed, D) /\ FramesSound(air[r], signed, D)
  BY <1>2, <1>14, <1>17, <1>18, <1>19, SoundGrows, FramesGrow
<1>21. CASE air' = [air EXCEPT ![r] = A]
  BY <1>1, <1>2, <1>14, <1>17, <1>18, <1>20, <1>21, StepKeeps
<1>22. CASE UNCHANGED air
  BY <1>1, <1>2, <1>14, <1>17, <1>20, <1>22, StepKeeps
<1> QED
  BY <1>1, <1>21, <1>22

LEMMA MaybeBroadcastAttestationKeeps ==
    ASSUME Inv, NEW r \in R, MaybeBroadcastAttestation(r)
    PROVE  Inv'
<1> DEFINE s == app[r]
           a == [car |-> r, epoch |-> s.epoch, claim |-> s.hash[r]]
           enough == Enough({r})
           t == [s EXCEPT !.attested = a, !.finalize = enough]
           A == air[r] \cup {[kind |-> "ATT", of |-> a]}
<1>1. /\ r \in Honest /\ app' = [app EXCEPT ![r] = t] /\ air' = [air EXCEPT ![r] = A]
      /\ UNCHANGED <<faulty, signed, dsigned>> /\ s.hash[r] # None
  BY DEF MaybeBroadcastAttestation, Step, Send
<1>2. /\ s \in App /\ Sound(r, s, air[r], signed, dsigned) /\ air[r] \subseteq Frame
      /\ FramesSound(air[r], signed, dsigned)
      /\ signed \subseteq R \X Claim /\ dsigned \subseteq R \X Attestation
  BY <1>1, Standing
<1>3. s.hash[r] # None
  BY <1>1
<1> HIDE DEF s
<1>4. s.hash[r] \in Claim /\ s.hash[r].car = r /\ s.epoch \in Epoch
  BY <1>2, <1>3 DEF App, Sound, CertsSound
<1>5. a \in Attestation /\ a.car = r /\ a # None
  BY <1>4, NoneIsNothing DEF Attestation
<1>6. enough \in BOOLEAN
  BY DEF Enough
<1> HIDE DEF a, enough
<1>7. t \in App
  BY <1>2, <1>5, <1>6 DEF App
<1>8. /\ t.attested = a
      /\ t.certs = s.certs /\ t.dist = s.dist /\ t.own = s.own /\ t.hash = s.hash
      /\ t.localCert = s.localCert /\ t.voters = s.voters
      /\ t.evidence = s.evidence /\ t.state = s.state
      /\ t.queue = s.queue
  BY <1>2 DEF App
<1> HIDE DEF t
<1>9. Sound(r, t, air[r], signed, dsigned)
  BY <1>2, <1>5, <1>8 DEF Sound, CertsSound, CandidateSound, OwnSound
<1>10. A \subseteq Frame /\ air[r] \subseteq A
  BY <1>2, <1>5 DEF Frame
<1>11. FramesSound(A, signed, dsigned)
  BY <1>2 DEF FramesSound
<1> HIDE DEF A
<1>12. Sound(r, t, A, signed, dsigned)
  BY <1>9, <1>10, SoundGrows
<1> QED
  BY <1>1, <1>2, <1>7, <1>10, <1>11, <1>12, StepKeeps

LEMMA HandleAttestationKeeps ==
    ASSUME Inv, NEW r \in R, NEW a \in Attestation, NEW accepts \in BOOLEAN,
           HandleAttestation(r, a, accepts)
    PROVE  Inv'
<1> DEFINE s == app[r]
           u == [s EXCEPT !.sampled = s.sampled \cup {a}]
           w == [s EXCEPT !.pending = s.pending \cup {a}]
           D == dsigned \cup Echoes(r, {a}, accepts)
<1>1. /\ r \in Honest /\ UNCHANGED <<faulty, air, signed>>
      /\ \/ app' = [app EXCEPT ![r] = u] /\ dsigned' = D
         \/ app' = [app EXCEPT ![r] = w] /\ UNCHANGED dsigned
  BY DEF HandleAttestation, Step
<1>2. /\ s \in App /\ Sound(r, s, air[r], signed, dsigned) /\ air[r] \subseteq Frame
      /\ FramesSound(air[r], signed, dsigned) /\ air = [air EXCEPT ![r] = air[r]]
      /\ signed \subseteq R \X Claim /\ dsigned \subseteq R \X Attestation
  BY <1>1, Standing
<1> HIDE DEF s
<1>3. u \in App /\ w \in App
  BY <1>2 DEF App
<1>4. Sound(r, u, air[r], signed, dsigned) /\ Sound(r, w, air[r], signed, dsigned)
  BY <1>2, SameEvidence DEF App
<1>5. D \subseteq R \X Attestation /\ dsigned \subseteq D
  BY <1>2 DEF Echoes
<1> HIDE DEF u, w, D
<1>6. Sound(r, u, air[r], signed, D) /\ FramesSound(air[r], signed, D)
  BY <1>2, <1>4, <1>5, SoundGrows, FramesGrow
<1>7. CASE app' = [app EXCEPT ![r] = u] /\ dsigned' = D
  BY <1>1, <1>2, <1>3, <1>5, <1>6, <1>7, StepKeeps
<1>8. CASE app' = [app EXCEPT ![r] = w] /\ UNCHANGED dsigned
  BY <1>1, <1>2, <1>3, <1>4, <1>8, StepKeeps
<1> QED
  BY <1>1, <1>7, <1>8

LEMMA HandleDistanceCertKeeps ==
    ASSUME Inv, NEW r \in R, NEW from \in R, NEW a \in Attestation, NEW settled,
           HandleDistanceCert(r, from, a, settled)
    PROVE  Inv'
<1> DEFINE s == app[r]
           u == [s EXCEPT !.dist[a.car] = a]
           t == maybeAdvance(u, r, settled)
           A == air[r] \cup {[kind |-> "DIST", of |-> a]}
<1>1. /\ r \in Honest /\ UNCHANGED <<faulty, signed, dsigned>>
      /\ Heard(from, "DIST", a) /\ s.dist[a.car] = None /\ s.certs[a.car] = a.claim
      /\ app' = [app EXCEPT ![r] = t]
      /\ air' = [air EXCEPT ![r] = A] \/ UNCHANGED air
  BY DEF HandleDistanceCert, DistanceBound, Step, Send
<1>2. /\ s \in App /\ Sound(r, s, air[r], signed, dsigned) /\ air[r] \subseteq Frame
      /\ FramesSound(air[r], signed, dsigned) /\ air = [air EXCEPT ![r] = air[r]]
      /\ signed \subseteq R \X Claim /\ dsigned \subseteq R \X Attestation
  BY <1>1, Standing
<1>3. a.car \in R /\ Measured(a, dsigned) /\ a # None
  BY <1>1, DistanceHeard, NoneIsNothing DEF Attestation
<1>4. s.dist[a.car] = None /\ s.certs[a.car] = a.claim
  BY <1>1
<1> HIDE DEF s
<1>5. u \in App
  BY <1>2 DEF App
<1>6. /\ u.dist = [s.dist EXCEPT ![a.car] = a] /\ s.dist \in [R -> Attestation \cup {None}]
      /\ u.certs = s.certs /\ u.own = s.own /\ u.hash = s.hash
      /\ u.attested = s.attested /\ u.localCert = s.localCert /\ u.voters = s.voters
      /\ u.evidence = s.evidence /\ u.state = s.state
      /\ u.queue = s.queue
  BY <1>2 DEF App
<1> HIDE DEF u
<1>7. Sound(r, u, air[r], signed, dsigned)
  BY <1>2, <1>3, <1>4, <1>6 DEF Sound, CertsSound, CandidateSound, OwnSound
<1>8. t \in App /\ Sound(r, t, air[r], signed, dsigned)
  BY <1>1, <1>5, <1>7, AdvanceKeeps
<1>9. A \subseteq Frame /\ air[r] \subseteq A
  BY <1>2 DEF Frame
<1>10. FramesSound(A, signed, dsigned)
  BY <1>2, <1>3 DEF FramesSound
<1> HIDE DEF t, A
<1>11. Sound(r, t, A, signed, dsigned)
  BY <1>8, <1>9, SoundGrows
<1>12. CASE air' = [air EXCEPT ![r] = A]
  BY <1>1, <1>2, <1>8, <1>9, <1>10, <1>11, <1>12, StepKeeps
<1>13. CASE UNCHANGED air
  BY <1>1, <1>2, <1>8, <1>13, StepKeeps
<1> QED
  BY <1>1, <1>12, <1>13

\* What leaves the queue of an open round is on the air, for all that follows.
LEMMA FlushKeeps ==
    ASSUME Inv, NEW r \in R, NEW due \in SUBSET {"CERT", "DIST"}, Flush(r, due)
    PROVE  Inv'
<1> DEFINE s == app[r]
           sent == IF s.state \in {"COLLECTING", "DRAINING_CERTS"} THEN due ELSE {}
           queue == s.queue \ due
           localCert == IF "CERT" \in sent THEN "AIRED" ELSE s.localCert
           localDist == IF "DIST" \in sent THEN "AIRED" ELSE s.localDistanceCert
           retry == s.retry /\ "CERT" \notin sent
           u == [s EXCEPT !.queue = queue, !.localCert = localCert,
                          !.localDistanceCert = localDist, !.retry = retry]
           t == maybeComplete(u, r)
           frames == (IF "CERT" \in sent /\ s.own # None
                      THEN {[kind |-> "CERT", of |-> s.own]} ELSE {})
                     \cup IF "DIST" \in sent THEN {[kind |-> "DIST", of |-> s.attested]} ELSE {}
           A == air[r] \cup frames
<1>1. /\ r \in Honest /\ UNCHANGED <<faulty, signed, dsigned>> /\ due \subseteq s.queue
      /\ app' = [app EXCEPT ![r] = t] /\ air' = [air EXCEPT ![r] = A]
  BY DEF Flush, Step, Send
<1>2. /\ s \in App /\ Sound(r, s, air[r], signed, dsigned) /\ air[r] \subseteq Frame
      /\ FramesSound(air[r], signed, dsigned) /\ r \notin faulty
      /\ signed \subseteq R \X Claim /\ dsigned \subseteq R \X Attestation
  BY <1>1, Standing
<1>3. sent \subseteq s.queue
  BY <1>1
<1> HIDE DEF s
<1>4. queue \subseteq {"CERT", "DIST"} /\ queue \subseteq s.queue
  BY <1>2 DEF App
<1>5. localCert \in LocalCertState /\ localDist \in LocalCertState /\ retry \in BOOLEAN
  BY <1>2 DEF App, LocalCertState
<1>6. "DIST" \in sent => s.attested \in Attestation /\ Measured(s.attested, dsigned)
  BY <1>2, <1>3 DEF Sound, CertsSound, OwnSound, Measured, App
<1>7. s.own # None => s.own \in Claim /\ Perceived(s.own, signed)
  BY <1>2 DEF Sound, CertsSound, App
<1>8. frames \subseteq Frame /\ FramesSound(frames, signed, dsigned)
  BY <1>6, <1>7 DEF Frame, FramesSound
<1>9. /\ A \subseteq Frame /\ air[r] \subseteq A /\ FramesSound(A, signed, dsigned)
  BY <1>2, <1>8 DEF FramesSound
<1>10. Sound(r, s, A, signed, dsigned)
  BY <1>2, <1>9, SoundGrows
<1>11. \/ localCert = s.localCert
       \/ /\ localCert = "AIRED"
          /\ s.own # None => [kind |-> "CERT", of |-> s.own] \in A
  OBVIOUS
<1> HIDE DEF queue, localCert, localDist, retry, A
<1>12. u \in App
  BY <1>2, <1>4, <1>5 DEF App
<1>13. /\ u.localCert = localCert /\ u.queue = queue
       /\ u.certs = s.certs /\ u.dist = s.dist /\ u.own = s.own /\ u.hash = s.hash
       /\ u.attested = s.attested /\ u.voters = s.voters
       /\ u.evidence = s.evidence /\ u.state = s.state
  BY <1>2 DEF App
<1> HIDE DEF u
<1>14. CertsSound(r, u, signed, dsigned) /\ CandidateSound(r, u)
  BY <1>10, <1>13 DEF Sound, CertsSound, CandidateSound
<1>15. OwnSound(u, A)
  BY <1>4, <1>10, <1>11, <1>13 DEF Sound, OwnSound
<1>16. t \in App /\ Sound(r, t, A, signed, dsigned)
  BY <1>12, <1>14, <1>15, MaybeCompleteKeeps DEF Sound
<1> HIDE DEF t
<1> QED
  BY <1>1, <1>2, <1>9, <1>16, StepKeeps

\* The rounds of the next epoch know nothing of the old one.
LEMMA BeginPostCancelDiscoveryKeeps ==
    ASSUME Inv, NEW r \in R, BeginPostCancelDiscovery(r)
    PROVE  Inv'
<1> DEFINE fresh == NewRound(1, app[r].entered)
           k == Own(fresh, r)
           N == {[kind |-> "ANN", of |-> k]}
           S == signed \cup {<<r, k>>}
<1>1. /\ r \in Honest /\ LastEpoch = 1 /\ UNCHANGED <<faulty, dsigned>>
      /\ \/ /\ app' = [app EXCEPT ![r] = announced(fresh, r)]
            /\ air' = [air EXCEPT ![r] = N] /\ signed' = S
         \/ /\ app' = [app EXCEPT ![r] = fresh]
            /\ air' = [air EXCEPT ![r] = {}] /\ UNCHANGED signed
  BY DEF BeginPostCancelDiscovery, Step
<1>2. /\ app[r].entered \in BOOLEAN
      /\ signed \subseteq R \X Claim /\ dsigned \subseteq R \X Attestation
  BY <1>1, Standing DEF App
<1>3. 1 \in Epoch
  BY <1>1 DEF Epoch
<1>4. /\ fresh \in App
      /\ Sound(r, fresh, N, signed, dsigned) /\ Sound(r, fresh, {}, signed, dsigned)
  BY <1>2, <1>3, NewRoundIsSound
<1>5. FramesSound({}, signed, dsigned) /\ FramesSound(N, S, dsigned)
  BY DEF FramesSound
<1> HIDE DEF fresh
<1>6. k \in Claim /\ announced(fresh, r) \in App /\ Sound(r, announced(fresh, r), N, S, dsigned)
  BY <1>1, <1>4, AnnouncedKeeps
<1> HIDE DEF k
<1>7. N \subseteq Frame /\ signed \subseteq S /\ S \subseteq R \X Claim
  BY <1>2, <1>6 DEF Frame
<1> HIDE DEF N, S
<1>8. CASE /\ app' = [app EXCEPT ![r] = announced(fresh, r)]
           /\ air' = [air EXCEPT ![r] = N] /\ signed' = S
  BY <1>1, <1>2, <1>5, <1>6, <1>7, <1>8, StepKeeps
<1>9. CASE /\ app' = [app EXCEPT ![r] = fresh]
           /\ air' = [air EXCEPT ![r] = {}] /\ UNCHANGED signed
  BY <1>1, <1>2, <1>4, <1>5, <1>9, StepKeeps
<1> QED
  BY <1>1, <1>8, <1>9

-----------------------------------------------------------------------------
(* The theorems *)

LEMMA InvInit == Init => Inv
<1> SUFFICES ASSUME Init PROVE Inv
  OBVIOUS
<1>1. 0 \in Epoch
  BY DiscoveryAssumption DEF Epoch
<1>2. \A r \in R : NewRound(0, FALSE) \in App /\ Sound(r, NewRound(0, FALSE), {}, {}, {})
  BY <1>1, NewRoundIsSound
<1>3. TypeOK
  BY <1>2 DEF Init, TypeOK
<1>4. \A r \in Honest : /\ Sound(r, app[r], air[r], signed, dsigned)
                         /\ FramesSound(air[r], signed, dsigned)
  BY <1>2 DEF Init, Honest, FramesSound
<1> QED
  BY <1>3, <1>4 DEF Inv

LEMMA InvNext == Inv /\ [Next]_vars => Inv'
<1> SUFFICES ASSUME Inv, [Next]_vars PROVE Inv'
  OBVIOUS
<1>1. CASE Next
  <2>1. PICK r \in R :
          \/ Announce(r) \/ MaybeBroadcastAttestation(r)
          \/ Settle(r) \/ OrderApplied(r) \/ BeginPostCancelDiscovery(r)
          \/ \E from \in R, k \in Claim, verdict \in Verdicts :
                 HandleArrivalAnnouncement(r, from, k, verdict)
          \/ \E w \in R : HandleArrivalEcho(r, w) \/ HandleDistanceEcho(r, w)
          \/ \E settled \in BOOLEAN :
                 \/ FinalizeArrivalCert(r, settled) \/ FinalizeDistanceCert(r, settled)
                 \/ EnterStopZone(r, settled)
                 \/ \E from \in R, k \in Claim, accepts \in BOOLEAN :
                        HandleArrivalCert(r, from, k, settled, accepts)
                 \/ \E from \in R, a \in Attestation : HandleDistanceCert(r, from, a, settled)
          \/ \E a \in Attestation, accepts \in BOOLEAN : HandleAttestation(r, a, accepts)
          \/ Deadline(r) \/ Drain(r)
    BY <1>1 DEF Next
  <2>2. CASE Drain(r)
    BY <2>2, FlushKeeps, RetryCertKeeps, DiscoveryAssumption DEF Drain
  <2> QED
    BY <2>1, <2>2, AnnounceKeeps, MaybeBroadcastAttestationKeeps, SettleKeeps,
       OrderAppliedKeeps, BeginPostCancelDiscoveryKeeps, HandleArrivalAnnouncementKeeps,
       HandleArrivalEchoKeeps, HandleDistanceEchoKeeps, FinalizeArrivalCertKeeps,
       FinalizeDistanceCertKeeps, EnterStopZoneKeeps, HandleArrivalCertKeeps,
       HandleDistanceCertKeeps, HandleAttestationKeeps, DeadlineStepKeeps
<1>2. CASE UNCHANGED vars
  <2>1. CASE Honest = {}
    BY <1>2, <2>1 DEF vars, Inv, TypeOK, Honest
  <2>2. CASE Honest # {}
    <3>1. PICK r \in Honest : TRUE
      BY <2>2
    <3>2. app' = [app EXCEPT ![r] = app[r]] /\ air' = [air EXCEPT ![r] = air[r]]
      BY <1>2 DEF vars, Inv, TypeOK
    <3> QED
      BY <1>2, <3>2, Standing, StepKeeps DEF vars
  <2> QED
    BY <2>1, <2>2
<1> QED
  BY <1>1, <1>2

LEMMA Invariance == Spec => []Inv
BY InvInit, InvNext, PTL DEF Spec

\* Every frame, signature and round has its type, in every deployment.
THEOREM TypeCorrect == Spec => []TypeOK
BY Invariance, PTL DEF Inv

\* With at most f faulty vehicles, whatever an honest vehicle has stored as
\* certified was perceived by an honest one (validateArrivalCert(),
\* validateStoppedDistanceCert()), in whatever order frames arrive.
THEOREM EvidenceIsPerceived == Spec => []EvidenceIsWitnessed
<1>1. Inv => EvidenceIsWitnessed
  BY DEF Inv, EvidenceIsWitnessed, Sound, CertsSound, Perceived, Measured
<1> QED
  BY <1>1, Invariance, PTL

\* The two stages agree in a candidate about every vehicle but its owner.
THEOREM CandidatesAreBound == Spec => []VotersAreBound
<1>1. Inv => VotersAreBound
  <2> SUFFICES ASSUME Inv, NEW r \in Honest, NEW v \in app[r].voters \ {r}
               PROVE  app[r].dist[v].claim = app[r].evidence[v]
    BY DEF VotersAreBound
  <2>1. v \in R \ {r}
    BY Standing DEF App
  <2> QED
    BY <2>1, Standing DEF Sound, CandidateSound
<1> QED
  BY <1>1, Invariance, PTL

\* Nobody completes a round before its own certificate has been on the radio,
\* although the second stage drops frames of the first.
THEOREM CompletedWereHeard == Spec => []OwnCertWasHeard
<1>1. Inv => OwnCertWasHeard
  <2> SUFFICES ASSUME Inv, NEW r \in Honest, app[r].state = "COMPLETE", app[r].own # None
               PROVE  [kind |-> "CERT", of |-> app[r].own] \in air[r]
    BY DEF OwnCertWasHeard
  <2>1. app[r].localCert \in LocalCertState
    BY Standing DEF App
  <2> QED
    BY <2>1 DEF Inv, Sound, OwnSound, LocalCertState
<1> QED
  BY <1>1, Invariance, PTL
===============================================================================
