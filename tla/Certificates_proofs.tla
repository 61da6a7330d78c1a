------------------------- MODULE Certificates_proofs -------------------------
(***************************************************************************)
(* What holds of Certificates for every road, every f with at most f       *)
(* faulty members of the view, and every number of retries: the types, and *)
(* that both certificates implement Evidence; and, when every vehicle is   *)
(* in the view and applies ORDER(0) before it is rolled back, that no      *)
(* dropped candidate silences a vehicle.                                   *)
(***************************************************************************)
EXTENDS Certificates, FiniteSetTheorems, TLAPS

-----------------------------------------------------------------------------
(* Sets of signers *)

\* f+1 signatures stay f+1 signatures when others are added.
LEMMA EnoughMonotone ==
    ASSUME NEW A, NEW B, A \subseteq B, Enough(A)
    PROVE  Enough(B)
<1>1. IsFiniteSet(B \cap Members) /\ IsFiniteSet(A \cap Members)
  BY CertificatesAssumption, FS_Intersection
<1>2. A \cap Members \subseteq B \cap Members
  OBVIOUS
<1>3. /\ Cardinality(A \cap Members) <= Cardinality(B \cap Members)
      /\ Cardinality(A \cap Members) \in Nat /\ Cardinality(B \cap Members) \in Nat
  BY <1>1, <1>2, FS_Subset, FS_CardinalityType
<1> QED
  BY <1>3, CertificatesAssumption DEF Enough

\* f+1 signers of the view are not all faulty.
LEMMA EnoughHonest ==
    ASSUME NEW A, Enough(A)
    PROVE  \E p \in A \cap Members : p \notin Faulty
<1> SUFFICES ASSUME A \cap Members \subseteq Faulty \cap Members PROVE FALSE
  OBVIOUS
<1>1. IsFiniteSet(Faulty \cap Members) /\ IsFiniteSet(A \cap Members)
  BY CertificatesAssumption, FS_Intersection
<1>2. /\ Cardinality(A \cap Members) <= Cardinality(Faulty \cap Members)
      /\ Cardinality(A \cap Members) \in Nat /\ Cardinality(Faulty \cap Members) \in Nat
  BY <1>1, FS_Subset, FS_CardinalityType
<1> QED
  BY <1>2, CertificatesAssumption DEF Enough

-----------------------------------------------------------------------------
(* Types *)

\* The initial record has the types of its fields.
LEMMA FreshType ==
    ASSUME NEW view \in BOOLEAN
    PROVE  /\ Fresh(view) \in App
           /\ Fresh(view).echoes = {} /\ Fresh(view).clear_echoes = {}
           /\ Fresh(view).candidate = {} /\ Fresh(view).phase = "NONE"
           /\ Fresh(view).incident = "NONE" /\ ~Fresh(view).submitted
           /\ ~Fresh(view).echoed
<1>1. Fresh(view) \in App
  BY CertificatesAssumption DEF Fresh, App
<1> QED
  BY <1>1 DEF Fresh

\* What signing, halting and registering keep: the evidence of CLEAR.
SameClear(s, t) == /\ t.clear_echoes = s.clear_echoes /\ t.candidate = s.candidate
                   /\ t.submitted = s.submitted

\* ... and what clearing leaves of the evidence of CANCEL.
SameCancel(s, t) == t.echoes = s.echoes /\ t.echoed = s.echoed

\* The incident is registered by whoever holds a CANCEL certificate.
Registers(s, t) == /\ s.incident = "CLEARED" <=> t.incident = "CLEARED"
                   /\ s.incident # "NONE" => t.incident # "NONE"

\* registerBlockedIncidentIfCrash() touches the incident only.
LEMMA RegisterType ==
    ASSUME NEW s \in App
    PROVE  /\ Register(s) \in App /\ SameClear(s, Register(s)) /\ Registers(s, Register(s))
           /\ SameCancel(s, Register(s)) /\ Register(s).phase = s.phase
           /\ Register(s).carriers = s.carriers
BY DEF Register, App, SameClear, SameCancel, Registers

\* handleValidCancelJustification() touches the phase only.
LEMMA HaltType ==
    ASSUME NEW s \in App
    PROVE  /\ Halt(s) \in App /\ SameClear(s, Halt(s)) /\ Halt(s).incident = s.incident
           /\ SameCancel(s, Halt(s))
           /\ Halt(s).phase = "PENDING" <=> s.phase = "PENDING"
BY DEF Halt, App, SameClear, SameCancel

\* broadcastCancelCert() signs nothing.
LEMMA BroadcastedType ==
    ASSUME NEW s \in App
    PROVE  /\ Broadcasted(s) \in App /\ SameClear(s, Broadcasted(s))
           /\ Registers(s, Broadcasted(s)) /\ SameCancel(s, Broadcasted(s))
           /\ Broadcasted(s).phase = "PENDING" <=> s.phase = "PENDING"
<1> DEFINE t == [Register(s) EXCEPT !.seen = TRUE,
                                    !.retries = IF Confirmed(s) THEN -1 ELSE 0]
<1>1. /\ t \in App /\ SameClear(s, t) /\ Registers(s, t)
      /\ SameCancel(s, t) /\ t.phase = s.phase
  <2>1. ASSUME NEW n \in -1 .. MaxRetries - 1, NEW u \in App
        PROVE  LET v == [u EXCEPT !.seen = TRUE, !.retries = n]
               IN  /\ v \in App /\ SameClear(u, v) /\ v.incident = u.incident
                   /\ SameCancel(u, v) /\ v.phase = u.phase
    BY DEF App, SameClear, SameCancel
  <2>2. (IF Confirmed(s) THEN -1 ELSE 0) \in -1 .. MaxRetries - 1
    BY CertificatesAssumption
  <2>3. /\ Register(s) \in App /\ SameClear(s, Register(s)) /\ Registers(s, Register(s))
        /\ SameCancel(s, Register(s)) /\ Register(s).phase = s.phase
    BY RegisterType
  <2> QED
    BY <2>1, <2>2, <2>3 DEF SameClear, SameCancel, Registers
<1> HIDE DEF t
<1>2. Broadcasted(s) = Halt(t)
  BY DEF Broadcasted, t
<1> QED
  BY <1>1, <1>2, HaltType DEF SameClear, SameCancel, Registers

\* beginPostCancelDiscovery() forgets the candidate and the submission.
LEMMA BeginRollbackType ==
    ASSUME NEW s \in App
    PROVE  /\ BeginRollback(s) \in App /\ BeginRollback(s).phase = "PENDING"
           /\ SameCancel(s, BeginRollback(s))
           /\ BeginRollback(s).clear_echoes = s.clear_echoes
           /\ BeginRollback(s).candidate = {} /\ ~BeginRollback(s).submitted
           /\ BeginRollback(s).incident = s.incident
BY DEF BeginRollback, App, SameCancel

\* What a certificate of CLEAR, seen by any path, may change.
ClearsOnly(s, t) ==
    /\ SameCancel(s, t) /\ t.clear_echoes = s.clear_echoes /\ t.phase = s.phase
    /\ t.candidate \subseteq s.candidate
    /\ s.incident = "CLEARED" => t.incident = "CLEARED"
    /\ s.incident # "NONE" <=> t.incident # "NONE"

\* onIncidentCleared() drops the candidate and signs nothing.
LEMMA ClearType ==
    ASSUME NEW s \in App
    PROVE  /\ Clear(s) \in App /\ ClearsOnly(s, Clear(s))
           /\ Clear(s).submitted = s.submitted
<1>1. CASE s.incident # "BLOCKING"
  BY <1>1 DEF Clear, ClearsOnly, SameCancel
<1>2. CASE s.incident = "BLOCKING"
  <2> DEFINE t == [s EXCEPT !.incident = "CLEARED", !.candidate = {}]
  <2>1. t \in App
    BY DEF App
  <2>2. /\ SameCancel(s, t) /\ t.clear_echoes = s.clear_echoes /\ t.phase = s.phase
        /\ t.candidate = {} /\ t.incident = "CLEARED" /\ t.submitted = s.submitted
    BY DEF App, SameCancel
  <2>3. Clear(s) = t
    BY <1>2 DEF Clear
  <2> QED
    BY <1>2, <2>1, <2>2, <2>3 DEF ClearsOnly
<1> QED
  BY <1>1, <1>2

\* ... and may submit the recovery ORDER.
LEMMA ClearedType ==
    ASSUME NEW s \in App, NEW submits \in BOOLEAN
    PROVE  Cleared(s, submits) \in App /\ ClearsOnly(s, Cleared(s, submits))
<1> DEFINE now == s.submitted \/ (submits /\ s.incident = "BLOCKING" /\ s.phase = "PENDING")
<1>1. now \in BOOLEAN
  BY DEF App
<1>2. ASSUME NEW u \in App, NEW b \in BOOLEAN
      PROVE  LET v == [u EXCEPT !.submitted = b] IN v \in App /\ ClearsOnly(u, v)
  BY DEF App, ClearsOnly, SameCancel
<1>3. Cleared(s, submits) = [Clear(s) EXCEPT !.submitted = now]
  BY ClearType DEF Cleared
<1> HIDE DEF now
<1>4. /\ [Clear(s) EXCEPT !.submitted = now] \in App
      /\ ClearsOnly(Clear(s), [Clear(s) EXCEPT !.submitted = now])
  BY <1>1, <1>2, ClearType
<1> QED
  BY <1>3, <1>4, ClearType DEF ClearsOnly, SameCancel

\* scheduleClearCertRelay() arms a timer, and drops nothing but it.
LEMMA ScheduleRelayType ==
    ASSUME NEW s \in App
    PROVE  /\ ScheduleRelay(s) \in App /\ ClearsOnly(s, ScheduleRelay(s))
           /\ ScheduleRelay(s).incident = s.incident
           /\ ScheduleRelay(s).submitted = s.submitted
<1>1. Ranked(s) \in BOOLEAN
  BY DEF Ranked
<1>2. ASSUME NEW b \in BOOLEAN
      PROVE  LET t == [s EXCEPT !.relay = b]
                 u == [s EXCEPT !.clear_relayed = TRUE, !.relay = b]
             IN  /\ t \in App /\ ClearsOnly(s, t) /\ t.incident = s.incident
                 /\ u \in App /\ ClearsOnly(s, u) /\ u.incident = s.incident
                 /\ t.submitted = s.submitted /\ u.submitted = s.submitted
  BY DEF App, ClearsOnly, SameCancel
<1>3. ScheduleRelay(s) \in {s, [s EXCEPT !.relay = FALSE],
                            [s EXCEPT !.clear_relayed = TRUE, !.relay = Ranked(s)]}
  BY DEF ScheduleRelay
<1>4. ClearsOnly(s, s)
  BY DEF ClearsOnly, SameCancel
<1> QED
  BY <1>1, <1>2, <1>3, <1>4

-----------------------------------------------------------------------------
(* The inductive invariant *)

Witnesses == {p \in Honest : app[p].echoed}
ClearWitnesses == {p \in Honest : p \in app[p].clear_echoes}

\* What a vehicle has collected was signed.
SignedEvidence ==
    \A r \in Honest : /\ app[r].echoes \subseteq Signed
                      /\ app[r].clear_echoes \subseteq ClearSigned
                      /\ app[r].candidate \subseteq ClearSigned

\* An echo on its way was signed, by somebody else.
SignedFrames ==
    \A r \in Honest : \A f \in inbox[r] :
        /\ f.from # r
        /\ f.kind = "CANCEL_ECHO" => f.from \in Signed
        /\ f.kind = "CLEAR_ECHO" => f.from \in ClearSigned

\* Every step from the wreck to the recovery ORDER had its certificate; the rollback
\* itself may have none.
EnoughBehind ==
    \A r \in Honest : /\ app[r].incident # "NONE" => Enough(Signed)
                      /\ app[r].incident = "CLEARED" => Enough(ClearSigned)
                      /\ app[r].submitted => Enough(ClearSigned)

\* Honest vehicles sign what they have seen.
SeenFirst == Witnesses # {} => road # "free"

Inv == TypeOK /\ SignedEvidence /\ SignedFrames /\ EnoughBehind /\ SeenFirst

\* What a step of r that makes its record t and sends frames of the kinds sent needs
\* to preserve the invariant and to be a step of both instances of Evidence.
Fits(r, t, sent) ==
    LET s == app[r] IN
    /\ t \in App /\ sent \subseteq Kind
    /\ s.echoed => t.echoed
    /\ t.echoes \subseteq Signed \cup {r} /\ (r \in t.echoes => t.echoed)
    /\ s.clear_echoes \subseteq t.clear_echoes /\ t.clear_echoes \subseteq ClearSigned \cup {r}
    /\ t.candidate \subseteq ClearSigned
    /\ "CANCEL_ECHO" \in sent => t.echoed
    /\ "CLEAR_ECHO" \in sent => r \in t.clear_echoes
    /\ t.submitted => Enough(ClearSigned)
    /\ s.incident # "NONE" => t.incident # "NONE"
    /\ s.incident = "CLEARED" => t.incident = "CLEARED"
    /\ t.echoed => s.echoed \/ (road = "wreck" /\ t.incident = s.incident)
    /\ t.incident # "NONE" => Enough(Signed)
    /\ t.incident = "CLEARED" => Enough(ClearSigned)
    /\ r \in t.clear_echoes =>
           r \in s.clear_echoes \/ (road = "towed" /\ t.incident = s.incident)

\* What a step of one vehicle leaves of the others.
LEMMA DoFacts ==
    ASSUME TypeOK, NEW r \in Honest, NEW t \in App, NEW got, NEW sent \in SUBSET Kind,
           Do(r, t, got, sent)
    PROVE  /\ TypeOK' /\ app'[r] = t /\ \A p \in Honest \ {r} : app'[p] = app[p]
           /\ \A p \in Honest : \A f \in inbox'[p] :
                  f \in inbox[p] \/ (p # r /\ f.from = r /\ f.kind \in sent)
           /\ road' = road
<1>1. Honest \subseteq R /\ r \in R
  BY DEF Honest
<1>2. [kind : sent, from : {r}] \subseteq Frame
  BY <1>1 DEF Frame
<1>3. /\ app' = [app EXCEPT ![r] = t] /\ road' = road
      /\ inbox' = [p \in R |-> IF p = r THEN inbox[p] \ got
                              ELSE IF p \in Faulty THEN {}
                              ELSE inbox[p] \cup [kind : sent, from : {r}]]
  BY DEF Do
<1>4. app' \in [R -> App] /\ app'[r] = t /\ \A p \in Honest \ {r} : app'[p] = app[p]
  BY <1>1, <1>3 DEF TypeOK
<1>5. inbox' \in [R -> SUBSET Frame]
  BY <1>2, <1>3 DEF TypeOK
<1>6. ASSUME NEW p \in Honest, NEW f \in inbox'[p]
      PROVE  f \in inbox[p] \/ (p # r /\ f.from = r /\ f.kind \in sent)
  BY <1>1, <1>3, <1>6 DEF Honest
<1> QED
  BY <1>3, <1>4, <1>5, <1>6 DEF TypeOK

\* Echoes are never taken back.
LEMMA SignedGrows ==
    ASSUME TypeOK, NEW r \in Honest, NEW t, NEW sent, NEW got, Fits(r, t, sent),
           Do(r, t, got, sent)
    PROVE  /\ Signed \subseteq Signed' /\ ClearSigned \subseteq ClearSigned'
           /\ t.echoed => r \in Signed'
           /\ r \in t.clear_echoes => r \in ClearSigned'
           /\ Witnesses' = IF t.echoed THEN Witnesses \cup {r} ELSE Witnesses
           /\ ClearWitnesses' =
                  IF r \in t.clear_echoes THEN ClearWitnesses \cup {r} ELSE ClearWitnesses
<1>1. app'[r] = t /\ \A p \in Honest \ {r} : app'[p] = app[p]
  BY DoFacts DEF Fits
<1>2. (app[r].echoed => t.echoed) /\ app[r].clear_echoes \subseteq t.clear_echoes
  BY DEF Fits
<1> QED
  BY <1>1, <1>2 DEF Signed, ClearSigned, Witnesses, ClearWitnesses, Honest

\* A step of one vehicle that fits preserves the invariant.
LEMMA FitsPreserves ==
    ASSUME Inv, NEW r \in Honest, NEW t, NEW got, NEW sent, Fits(r, t, sent),
           Do(r, t, got, sent)
    PROVE  Inv'
<1>1. TypeOK
  BY DEF Inv
<1>2. /\ TypeOK' /\ app'[r] = t /\ \A p \in Honest \ {r} : app'[p] = app[p]
      /\ \A p \in Honest : \A f \in inbox'[p] :
             f \in inbox[p] \/ (p # r /\ f.from = r /\ f.kind \in sent)
      /\ road' = road
  BY <1>1, DoFacts DEF Fits
<1>3. /\ Signed \subseteq Signed' /\ ClearSigned \subseteq ClearSigned'
      /\ t.echoed => r \in Signed'
      /\ r \in t.clear_echoes => r \in ClearSigned'
      /\ Witnesses' = IF t.echoed THEN Witnesses \cup {r} ELSE Witnesses
  BY <1>1, SignedGrows
<1>4. /\ Enough(Signed) => Enough(Signed')
      /\ Enough(ClearSigned) => Enough(ClearSigned')
  BY <1>3, EnoughMonotone
<1>5. SignedEvidence'
  <2>1. ASSUME NEW p \in Honest
        PROVE  /\ app'[p].echoes \subseteq Signed'
               /\ app'[p].clear_echoes \subseteq ClearSigned'
               /\ app'[p].candidate \subseteq ClearSigned'
    <3>1. CASE p = r
      <4>1. /\ t.echoes \subseteq Signed \cup {r} /\ (r \in t.echoes => t.echoed)
            /\ t.clear_echoes \subseteq ClearSigned \cup {r}
            /\ t.candidate \subseteq ClearSigned
        BY DEF Fits
      <4> QED
        BY <1>2, <1>3, <3>1, <4>1
    <3>2. CASE p # r
      BY <1>2, <1>3, <3>2 DEF Inv, SignedEvidence
    <3> QED
      BY <3>1, <3>2
  <2> QED
    BY <2>1 DEF SignedEvidence, Honest
<1>6. SignedFrames'
  <2>1. ASSUME NEW p \in Honest, NEW f \in inbox'[p]
        PROVE  /\ f.from # p
               /\ f.kind = "CANCEL_ECHO" => f.from \in Signed'
               /\ f.kind = "CLEAR_ECHO" => f.from \in ClearSigned'
    <3>1. CASE f \in inbox[p]
      BY <1>3, <3>1 DEF Inv, SignedFrames
    <3>2. CASE p # r /\ f.from = r /\ f.kind \in sent
      BY <1>3, <3>2 DEF Fits
    <3> QED
      BY <1>2, <2>1, <3>1, <3>2
  <2> QED
    BY <2>1 DEF SignedFrames, Honest
<1>7. EnoughBehind'
  <2>1. ASSUME NEW p \in Honest
        PROVE  /\ app'[p].incident # "NONE" => Enough(Signed')
               /\ app'[p].incident = "CLEARED" => Enough(ClearSigned')
               /\ app'[p].submitted => Enough(ClearSigned')
    <3>1. CASE p = r
      BY <1>2, <1>4, <3>1 DEF Fits
    <3>2. CASE p # r
      BY <1>2, <1>4, <3>2 DEF Inv, EnoughBehind
    <3> QED
      BY <3>1, <3>2
  <2> QED
    BY <2>1 DEF EnoughBehind, Honest, Enough
<1>8. SeenFirst'
  <2>1. CASE t.echoed /\ ~app[r].echoed
    BY <1>2, <2>1 DEF SeenFirst, Fits
  <2>2. CASE ~t.echoed \/ app[r].echoed
    <3>1. Witnesses' = Witnesses
      BY <1>3, <2>2 DEF Witnesses
    <3> QED
      BY <1>2, <3>1 DEF Inv, SeenFirst
  <2> QED
    BY <2>1, <2>2
<1> QED
  BY <1>2, <1>5, <1>6, <1>7, <1>8 DEF Inv

\* ... and is a step of the abstract CANCEL certificate or a stutter.
LEMMA FitsBlocked ==
    ASSUME TypeOK, NEW r \in Honest, NEW t, NEW got, NEW sent, Fits(r, t, sent),
           Do(r, t, got, sent)
    PROVE  [Blocked!Next]_(Blocked!vars)
<1> DEFINE Accepted == {p \in Honest : app[p].incident # "NONE"}
<1>1. app'[r] = t /\ (\A p \in Honest \ {r} : app'[p] = app[p]) /\ road' = road
  BY DoFacts DEF Fits
<1>2. Witnesses' = IF t.echoed THEN Witnesses \cup {r} ELSE Witnesses
  BY SignedGrows
<1>3. Accepted' = IF t.incident # "NONE" THEN Accepted \cup {r} ELSE Accepted
  BY <1>1 DEF Honest, Fits
<1>4. Signed = Witnesses \cup Faulty
  BY DEF Signed, Witnesses
<1>5. r \in R /\ r \notin Faulty
  BY DEF Honest
<1>6. CASE t.echoed /\ ~app[r].echoed
  <2>1. road = "wreck" /\ t.incident = app[r].incident
    BY <1>6 DEF Fits
  <2>2. Accepted' = Accepted
    BY <1>3, <2>1
  <2>3. Witnesses' = Witnesses \cup {r}
    BY <1>2, <1>6
  <2>4. Blocked!Witness(r)
    BY <1>1, <1>5, <2>1, <2>2, <2>3 DEF Blocked!Witness, Witnesses
  <2> QED
    BY <1>5, <2>4 DEF Blocked!Next
<1>7. CASE t.echoed => app[r].echoed
  <2>1. Witnesses' = Witnesses
    BY <1>2, <1>7 DEF Witnesses
  <2>2. CASE t.incident # "NONE" /\ app[r].incident = "NONE"
    <3>1. Witnesses \cup Faulty \in Sufficient
      BY <1>4, <2>2, CertificatesAssumption DEF Fits, Enough, Sufficient, Witnesses, Honest
    <3>2. Accepted' = Accepted \cup {r}
      BY <1>3, <2>2
    <3>3. Blocked!Accept(r)
      BY <1>1, <2>1, <3>1, <3>2 DEF Blocked!Accept, Witnesses
    <3> QED
      BY <1>5, <3>3 DEF Blocked!Next
  <2>3. CASE ~(t.incident # "NONE" /\ app[r].incident = "NONE")
    <3>1. Accepted' = Accepted
      BY <1>3, <2>3
    <3> QED
      BY <1>1, <2>1, <3>1 DEF Blocked!vars, Witnesses
  <2> QED
    BY <2>2, <2>3
<1> QED
  BY <1>6, <1>7

\* The same for the CLEAR certificate.
LEMMA FitsEmptied ==
    ASSUME TypeOK, NEW r \in Honest, NEW t, NEW got, NEW sent, Fits(r, t, sent),
           Do(r, t, got, sent)
    PROVE  [Emptied!Next]_(Emptied!vars)
<1> DEFINE Accepted == {p \in Honest : app[p].incident = "CLEARED"}
<1>1. app'[r] = t /\ (\A p \in Honest \ {r} : app'[p] = app[p]) /\ road' = road
  BY DoFacts DEF Fits
<1>2. ClearWitnesses' =
         IF r \in t.clear_echoes THEN ClearWitnesses \cup {r} ELSE ClearWitnesses
  BY SignedGrows
<1>3. Accepted' = IF t.incident = "CLEARED" THEN Accepted \cup {r} ELSE Accepted
  BY <1>1 DEF Honest, Fits
<1>4. ClearSigned = ClearWitnesses \cup Faulty
  BY DEF ClearSigned, ClearWitnesses
<1>5. r \in R /\ r \notin Faulty
  BY DEF Honest
<1>6. CASE r \in t.clear_echoes /\ r \notin app[r].clear_echoes
  <2>1. road = "towed" /\ t.incident = app[r].incident
    BY <1>6 DEF Fits
  <2>2. Accepted' = Accepted
    BY <1>3, <2>1
  <2>3. ClearWitnesses' = ClearWitnesses \cup {r}
    BY <1>2, <1>6
  <2>4. Emptied!Witness(r)
    BY <1>1, <1>5, <2>1, <2>2, <2>3 DEF Emptied!Witness, ClearWitnesses
  <2> QED
    BY <1>5, <2>4 DEF Emptied!Next
<1>7. CASE r \in t.clear_echoes => r \in app[r].clear_echoes
  <2>1. ClearWitnesses' = ClearWitnesses
    BY <1>2, <1>7 DEF ClearWitnesses
  <2>2. CASE t.incident = "CLEARED" /\ app[r].incident # "CLEARED"
    <3>1. ClearWitnesses \cup Faulty \in Sufficient
      BY <1>4, <2>2, CertificatesAssumption DEF Fits, Enough, Sufficient, ClearWitnesses, Honest
    <3>2. Accepted' = Accepted \cup {r}
      BY <1>3, <2>2
    <3>3. Emptied!Accept(r)
      BY <1>1, <2>1, <3>1, <3>2 DEF Emptied!Accept, ClearWitnesses
    <3> QED
      BY <1>5, <3>3 DEF Emptied!Next
  <2>3. CASE ~(t.incident = "CLEARED" /\ app[r].incident # "CLEARED")
    <3>1. Accepted' = Accepted
      BY <1>3, <2>3
    <3> QED
      BY <1>1, <2>1, <3>1 DEF Emptied!vars, ClearWitnesses
  <2> QED
    BY <2>2, <2>3
<1> QED
  BY <1>6, <1>7

-----------------------------------------------------------------------------
(* Every action of a vehicle fits *)

SomeFits(r) == \E t, got, sent : Fits(r, t, sent) /\ Do(r, t, got, sent)

\* Nothing about evidence changes, but a candidate may be dropped.
SameEvidence(s, t) ==
    /\ SameCancel(s, t) /\ t.clear_echoes = s.clear_echoes
    /\ t.candidate \subseteq s.candidate /\ t.incident = s.incident
    /\ t.submitted => s.submitted

Certs == {"CANCEL_CERT", "CLEAR_CERT"}

\* Timers, rounds and repeated certificates leave the evidence alone.
LEMMA SameFits ==
    ASSUME Inv, NEW r \in Honest, NEW t \in App, NEW sent \in SUBSET Certs,
           SameEvidence(app[r], t)
    PROVE  Fits(r, t, sent)
<1>1. sent \subseteq Kind /\ "CANCEL_ECHO" \notin sent /\ "CLEAR_ECHO" \notin sent
  BY DEF Certs, Kind
<1>2. /\ app[r].echoes \subseteq Signed /\ app[r].clear_echoes \subseteq ClearSigned
      /\ app[r].candidate \subseteq ClearSigned
  BY DEF Inv, SignedEvidence
<1>3. /\ app[r].incident # "NONE" => Enough(Signed)
      /\ app[r].incident = "CLEARED" => Enough(ClearSigned)
      /\ app[r].submitted => Enough(ClearSigned)
  BY DEF Inv, EnoughBehind
<1>4. r \in app[r].echoes => app[r].echoed
  BY <1>2 DEF Signed, Honest
<1> QED
  BY <1>1, <1>2, <1>3, <1>4 DEF Fits, SameEvidence, SameCancel

\* The record of an honest vehicle.
LEMMA AppIsTyped == TypeOK => \A r \in Honest : r \in R /\ app[r] \in App
BY DEF TypeOK, Honest

\* An echo that arrives was signed by another vehicle.
Arrives(r, f) == f \in inbox[r] \/ FaultyFrame(r, f)

LEMMA ArrivesSigned ==
    ASSUME Inv, NEW r \in Honest, NEW f \in Frame, Arrives(r, f)
    PROVE  /\ f.from \in R /\ f.from # r
           /\ f.kind = "CANCEL_ECHO" => f.from \in Signed
           /\ f.kind = "CLEAR_ECHO" => f.from \in ClearSigned
<1>1. CASE f \in inbox[r]
  BY <1>1 DEF Inv, SignedFrames, Frame
<1>2. CASE f.from \in Faulty
  BY <1>2 DEF Honest, Signed, ClearSigned, Frame
<1>3. CASE f.kind = "CANCEL_CERT" /\ f.from # r
  BY <1>3 DEF Frame
<1> QED
  BY <1>1, <1>2, <1>3 DEF Arrives, FaultyFrame

\* The poll signs a CANCEL echo of a wreck it sees.
LEMMA CrashDwellFits == ASSUME Inv, NEW r \in Honest, CrashDwell(r) PROVE SomeFits(r)
<1> DEFINE s == app[r]
           own == {r} \ s.unmatched
           t == [s EXCEPT !.echoed = TRUE, !.echoes = @ \cup own]
<1>1. r \in R /\ s \in App
  BY AppIsTyped DEF Inv
<1>2. own \subseteq {r}
  OBVIOUS
<1>3. Do(r, t, {}, {"CANCEL_ECHO"}) /\ road = "wreck" /\ ~s.echoed
  BY DEF CrashDwell
<1> HIDE DEF own
<1>4. t \in App
  BY <1>1, <1>2 DEF App
<1>5. /\ t.echoes = s.echoes \cup own /\ t.echoed
      /\ SameClear(s, t) /\ t.incident = s.incident /\ t.phase = s.phase
  BY <1>1 DEF App, SameClear
<1>6. Fits(r, s, {})
  BY <1>1, SameFits DEF SameEvidence, SameCancel
<1> HIDE DEF t
<1>7. Fits(r, t, {"CANCEL_ECHO"})
  BY <1>2, <1>3, <1>4, <1>5, <1>6 DEF Fits, SameClear, Kind
<1> QED
  BY <1>3, <1>7 DEF SomeFits

\* The poll signs a CLEAR echo of a box it sees empty, after the wreck.
LEMMA ClearDwellFits == ASSUME Inv, NEW r \in Honest, ClearDwell(r) PROVE SomeFits(r)
<1> DEFINE s == app[r]
           t == [s EXCEPT !.dwelt = TRUE]
           u == [t EXCEPT !.clear_echoes = @ \cup {r}]
<1>1. r \in R /\ s \in App
  BY AppIsTyped DEF Inv
<1>2. /\ t \in App /\ SameEvidence(s, t)
  BY <1>1 DEF App, SameEvidence, SameCancel
<1>3. u \in App
  BY <1>1 DEF App
<1>4. /\ u.clear_echoes = s.clear_echoes \cup {r} /\ SameCancel(s, u)
      /\ u.candidate = s.candidate /\ u.incident = s.incident /\ u.phase = s.phase
      /\ u.submitted = s.submitted
  BY <1>1 DEF App, SameCancel
<1>5. road = "towed"
  <2>1. Enough(Signed)
    BY DEF ClearDwell, Inv, EnoughBehind
  <2>2. Witnesses # {}
    BY <2>1, EnoughHonest DEF Signed, Witnesses
  <2> QED
    BY <2>2 DEF ClearDwell, Inv, SeenFirst, TypeOK
<1>6. Fits(r, s, {}) /\ Fits(r, t, {})
  BY <1>1, <1>2, SameFits DEF SameEvidence, SameCancel
<1>7. Do(r, t, {}, {}) \/ Do(r, u, {}, {"CLEAR_ECHO"})
  BY DEF ClearDwell
<1> HIDE DEF t, u
<1>8. Fits(r, u, {"CLEAR_ECHO"})
  BY <1>3, <1>4, <1>5, <1>6 DEF Fits, SameCancel, Kind
<1> QED
  BY <1>6, <1>7, <1>8 DEF SomeFits

\* A collected echo that completes f+1 of the view is broadcast.
LEMMA CollectFits ==
    ASSUME Inv, NEW r \in Honest, NEW t, NEW got, Fits(r, t, {}), SameClear(app[r], t),
           t.echoed => app[r].echoed, Collect(r, t, got)
    PROVE  SomeFits(r)
<1>1. t \in App /\ t.echoes \subseteq Signed \cup {r} /\ (r \in t.echoes => t.echoed)
  BY DEF Fits
<1>2. \/ Do(r, t, got, {})
      \/ Enough(t.echoes) /\ Do(r, Broadcasted(t), got, {"CANCEL_CERT"})
  BY DEF Collect
<1>3. CASE Do(r, t, got, {})
  BY <1>3 DEF SomeFits
<1>4. CASE Enough(t.echoes) /\ Do(r, Broadcasted(t), got, {"CANCEL_CERT"})
  <2>1. r \in t.echoes => r \in Signed
    BY <1>1 DEF Signed
  <2>2. Enough(Signed)
    BY <1>1, <1>4, <2>1, EnoughMonotone
  <2>3. /\ Broadcasted(t) \in App /\ SameClear(t, Broadcasted(t))
        /\ Registers(t, Broadcasted(t)) /\ SameCancel(t, Broadcasted(t))
    BY <1>1, BroadcastedType
  <2>4. Fits(r, Broadcasted(t), {"CANCEL_CERT"})
    BY <2>2, <2>3 DEF Fits, SameClear, SameCancel, Registers, Kind
  <2> QED
    BY <1>4, <2>4 DEF SomeFits
<1> QED
  BY <1>2, <1>3, <1>4

\* An echo is collected under its name.
LEMMA HandleCancelEchoFits ==
    ASSUME Inv, NEW r \in Honest, NEW f \in Frame, Arrives(r, f), HandleCancelEcho(r, f)
    PROVE  SomeFits(r)
<1> DEFINE s == app[r]
           new == {f.from} \ s.unmatched
           t == [s EXCEPT !.echoes = @ \cup new]
<1>1. r \in R /\ s \in App /\ f.from \in R /\ f.from # r /\ f.from \in Signed
  BY AppIsTyped, ArrivesSigned DEF Inv, HandleCancelEcho
<1>2. new \subseteq R \cap Signed /\ r \notin new
  BY <1>1
<1>3. Collect(r, t, {f})
  BY DEF HandleCancelEcho
<1> HIDE DEF new
<1>4. t \in App /\ t.echoes = s.echoes \cup new /\ t.echoed = s.echoed
  BY <1>1, <1>2 DEF App
<1>5. SameClear(s, t) /\ t.incident = s.incident
  BY <1>1 DEF App, SameClear
<1>6. Fits(r, s, {})
  BY <1>1, SameFits DEF SameEvidence, SameCancel
<1> HIDE DEF t
<1>7. Fits(r, t, {}) /\ (t.echoed => s.echoed)
  BY <1>2, <1>4, <1>5, <1>6 DEF Fits, SameClear
<1> QED
  BY <1>3, <1>5, <1>7, CollectFits

\* An echo under another name is no evidence.
LEMMA HandleUnmatchedEchoFits ==
    ASSUME Inv, NEW r \in Honest, NEW p \in R, HandleUnmatchedEcho(r, p)
    PROVE  SomeFits(r)
<1> DEFINE s == app[r]
           t == [s EXCEPT !.unmatched = @ \cup {p}]
<1>1. r \in R /\ s \in App
  BY AppIsTyped DEF Inv
<1>2. t \in App /\ SameEvidence(s, t) /\ SameClear(s, t)
  BY <1>1 DEF App, SameEvidence, SameCancel, SameClear
<1>3. Collect(r, t, {})
  BY DEF HandleUnmatchedEcho
<1> HIDE DEF t
<1>4. Fits(r, t, {}) /\ (t.echoed => s.echoed)
  BY <1>2, SameFits DEF SameEvidence, SameCancel
<1> QED
  BY <1>2, <1>3, <1>4, CollectFits

\* A CANCEL certificate is registered and relayed.
LEMMA HandleCancelCertFits ==
    ASSUME Inv, NEW r \in Honest, NEW f \in Frame, Arrives(r, f), HandleCancelCert(r, f)
    PROVE  SomeFits(r)
<1> DEFINE s == app[r]
           t == [Register(s) EXCEPT !.carriers = @ \cup {f.from}, !.seen = TRUE,
                                    !.relayed = TRUE]
           sent == IF s.relayed THEN {} ELSE {"CANCEL_CERT"}
<1>1. r \in R /\ s \in App /\ f.from \in R
  BY AppIsTyped, ArrivesSigned DEF Inv
<1>2. /\ Register(s) \in App /\ SameClear(s, Register(s)) /\ Registers(s, Register(s))
      /\ SameCancel(s, Register(s)) /\ Register(s).phase = s.phase
  BY <1>1, RegisterType
<1>3. ASSUME NEW u \in App
      PROVE  LET v == [u EXCEPT !.carriers = @ \cup {f.from}, !.seen = TRUE, !.relayed = TRUE]
             IN  /\ v \in App /\ SameClear(u, v) /\ v.incident = u.incident
                 /\ SameCancel(u, v) /\ v.phase = u.phase
  BY <1>1 DEF App, SameClear, SameCancel
<1>4. /\ t \in App /\ SameClear(s, t) /\ Registers(s, t)
      /\ SameCancel(s, t) /\ t.phase = s.phase
  BY <1>2, <1>3 DEF SameClear, SameCancel, Registers
<1>5. Fits(r, s, {})
  BY <1>1, SameFits DEF SameEvidence, SameCancel
<1>6. Do(r, s, {f}, {}) \/ (Enough(Signed) /\ Do(r, Halt(t), {f}, sent))
  BY DEF HandleCancelCert
<1> HIDE DEF t
<1>7. /\ Halt(t) \in App /\ SameClear(t, Halt(t)) /\ Halt(t).incident = t.incident
      /\ SameCancel(t, Halt(t))
      /\ Halt(t).phase = "PENDING" <=> t.phase = "PENDING"
  BY <1>4, HaltType
<1>8. sent \subseteq {"CANCEL_CERT"}
  OBVIOUS
<1> HIDE DEF sent
<1>9. ASSUME Enough(Signed)
      PROVE  Fits(r, Halt(t), sent)
  <2>1. /\ sent \subseteq Kind /\ "CANCEL_ECHO" \notin sent /\ "CLEAR_ECHO" \notin sent
    BY <1>8 DEF Kind
  <2> QED
    BY <1>4, <1>5, <1>7, <1>9, <2>1 DEF Fits, SameClear, SameCancel, Registers
<1> QED
  BY <1>5, <1>6, <1>9 DEF SomeFits

\* A repeated certificate is nothing new.
LEMMA RetryCancelCertFits ==
    ASSUME Inv, NEW r \in Honest, RetryCancelCert(r) PROVE SomeFits(r)
<1> DEFINE s == app[r]
           next == IF s.retries + 1 = MaxRetries THEN -1 ELSE s.retries + 1
<1>1. r \in R /\ s \in App
  BY AppIsTyped DEF Inv
<1>2. s.retries \in -1 .. MaxRetries - 1 /\ s.retries >= 0
  BY <1>1 DEF App, RetryCancelCert
<1>3. next \in -1 .. MaxRetries - 1 /\ -1 \in -1 .. MaxRetries - 1
  BY <1>2, CertificatesAssumption
<1> HIDE DEF next
<1>4. ASSUME NEW n \in -1 .. MaxRetries - 1
      PROVE  LET t == [s EXCEPT !.retries = n] IN t \in App /\ SameEvidence(s, t)
  BY <1>1 DEF App, SameEvidence, SameCancel
<1>5. /\ Fits(r, [s EXCEPT !.retries = -1], {})
      /\ Fits(r, [s EXCEPT !.retries = next], {"CANCEL_CERT"})
  BY <1>3, <1>4, SameFits DEF Certs
<1>6. \/ Do(r, [s EXCEPT !.retries = -1], {}, {})
      \/ Do(r, [s EXCEPT !.retries = next], {}, {"CANCEL_CERT"})
  BY DEF RetryCancelCert, next
<1> QED
  BY <1>5, <1>6 DEF SomeFits

\* The rollback keeps the evidence of CANCEL and starts without any of CLEAR.
LEMMA CommitCancelFits ==
    ASSUME Inv, NEW r \in Honest, NEW decided \in BOOLEAN, CommitCancel(r, decided)
    PROVE  SomeFits(r)
<1> DEFINE s == app[r]
           t == BeginRollback(s)
           n == IF decided THEN -1 ELSE t.retries
           u == [t EXCEPT !.retries = n]
<1>1. r \in R /\ s \in App
  BY AppIsTyped DEF Inv
<1>2. /\ t \in App /\ t.phase = "PENDING"
      /\ SameCancel(s, t) /\ t.clear_echoes = s.clear_echoes
      /\ t.candidate = {} /\ ~t.submitted /\ t.incident = s.incident
  BY <1>1, BeginRollbackType
<1>3. Do(r, u, {}, {})
  BY DEF CommitCancel
<1> HIDE DEF t
<1>4. n \in -1 .. MaxRetries - 1
  BY <1>2, CertificatesAssumption DEF App
<1> HIDE DEF n
<1>5. /\ u \in App /\ u.phase = "PENDING"
      /\ SameCancel(s, u) /\ u.clear_echoes = s.clear_echoes
      /\ u.candidate = {} /\ ~u.submitted /\ u.incident = s.incident
  BY <1>2, <1>4 DEF App, SameCancel
<1>6. Fits(r, s, {})
  BY <1>1, SameFits DEF SameEvidence, SameCancel
<1> HIDE DEF u
<1>7. Fits(r, u, {})
  BY <1>5, <1>6 DEF Fits, SameCancel
<1> QED
  BY <1>3, <1>7 DEF SomeFits

\* What changes when a valid CLEAR certificate is at hand fits.
LEMMA ClearsFits ==
    ASSUME Inv, NEW r \in Honest, NEW t \in App, NEW sent \in SUBSET Certs,
           ClearsOnly(app[r], t), Enough(ClearSigned)
    PROVE  Fits(r, t, sent)
<1>1. r \in R /\ app[r] \in App
  BY AppIsTyped DEF Inv
<1>2. Fits(r, app[r], {})
  BY <1>1, SameFits DEF SameEvidence, SameCancel
<1>3. sent \subseteq Kind /\ "CANCEL_ECHO" \notin sent /\ "CLEAR_ECHO" \notin sent
  BY DEF Certs, Kind
<1> QED
  BY <1>2, <1>3 DEF Fits, ClearsOnly, SameCancel

\* An echo is collected, and f+1 become a candidate.
LEMMA HandleClearEchoFits ==
    ASSUME Inv, NEW r \in Honest, NEW f \in Frame, Arrives(r, f), HandleClearEcho(r, f)
    PROVE  SomeFits(r)
<1> DEFINE s == app[r]
           t == [s EXCEPT !.clear_echoes = @ \cup {f.from}]
           u == [t EXCEPT !.key = TRUE, !.candidate = t.clear_echoes]
<1>1. r \in R /\ s \in App /\ f.from \in R /\ f.from # r /\ f.from \in ClearSigned
  BY AppIsTyped, ArrivesSigned DEF Inv, HandleClearEcho
<1>2. t \in App /\ u \in App
  BY <1>1 DEF App
<1>3. /\ t.clear_echoes = s.clear_echoes \cup {f.from} /\ SameCancel(s, t)
      /\ t.candidate = s.candidate
      /\ t.submitted = s.submitted /\ t.incident = s.incident /\ t.phase = s.phase
  BY <1>1 DEF App, SameCancel
<1>4. /\ u.clear_echoes = t.clear_echoes /\ SameCancel(t, u)
      /\ u.candidate = t.clear_echoes
      /\ u.submitted = t.submitted /\ u.incident = t.incident /\ u.phase = t.phase
  BY <1>1 DEF App, SameCancel
<1>5. Do(r, s, {f}, {}) \/ Do(r, t, {f}, {}) \/ Do(r, u, {f}, {})
  BY DEF HandleClearEcho, Candidate
<1> HIDE DEF t, u
<1>6. Fits(r, s, {})
  BY <1>1, SameFits DEF SameEvidence, SameCancel
<1>7. Fits(r, t, {})
  BY <1>1, <1>2, <1>3, <1>6 DEF Fits, SameCancel
<1>8. u.candidate \subseteq ClearSigned
  BY <1>1, <1>3, <1>4 DEF Inv, SignedEvidence
<1>9. Fits(r, u, {})
  BY <1>2, <1>4, <1>7, <1>8 DEF Fits, SameCancel
<1> QED
  BY <1>5, <1>6, <1>7, <1>9 DEF SomeFits

\* A candidate whose turn has come is a certificate, or is dropped.
LEMMA CandidateFiresFits ==
    ASSUME Inv, NEW r \in Honest, NEW submits \in BOOLEAN, CandidateFires(r, submits)
    PROVE  SomeFits(r)
<1> DEFINE s == app[r]
           t == [s EXCEPT !.candidate = {}]
           u == [t EXCEPT !.clear_seen = TRUE, !.tracker = @ \cup {r}]
<1>1. r \in R /\ s \in App
  BY AppIsTyped DEF Inv
<1>2. t \in App /\ SameEvidence(s, t)
  BY <1>1 DEF App, SameEvidence, SameCancel
<1>3. u \in App /\ ClearsOnly(s, u)
  BY <1>1 DEF App, ClearsOnly, SameCancel
<1>4. \/ Do(r, t, {}, {})
      \/ Enough(s.candidate) /\ Do(r, Cleared(u, submits), {}, {"CLEAR_CERT"})
  BY DEF CandidateFires
<1> HIDE DEF t, u
<1>5. Fits(r, t, {})
  BY <1>2, SameFits
<1>6. ASSUME Enough(s.candidate)
      PROVE  Fits(r, Cleared(u, submits), {"CLEAR_CERT"})
  <2>1. Enough(ClearSigned)
    BY <1>6, EnoughMonotone DEF Inv, SignedEvidence
  <2>2. Cleared(u, submits) \in App /\ ClearsOnly(s, Cleared(u, submits))
    BY <1>3, ClearedType DEF ClearsOnly, SameCancel
  <2> QED
    BY <2>1, <2>2, ClearsFits DEF Certs
<1> QED
  BY <1>4, <1>5, <1>6 DEF SomeFits

\* A CLEAR certificate that is received.
LEMMA HandleClearCertFits ==
    ASSUME Inv, NEW r \in Honest, NEW f \in Frame, NEW submits \in BOOLEAN, Arrives(r, f),
           HandleClearCert(r, f, submits)
    PROVE  SomeFits(r)
<1> DEFINE s == app[r]
           t == [s EXCEPT !.tracker = @ \cup {f.from}, !.clear_seen = TRUE, !.candidate = {}]
           u == Cleared(t, submits)
<1>1. r \in R /\ s \in App /\ f.from \in R
  BY AppIsTyped, ArrivesSigned DEF Inv
<1>2. t \in App /\ ClearsOnly(s, t)
  BY <1>1 DEF App, ClearsOnly, SameCancel
<1>3. Do(r, s, {f}, {}) \/ (Enough(ClearSigned) /\ Do(r, ScheduleRelay(u), {f}, {}))
  BY DEF HandleClearCert
<1> HIDE DEF t
<1>4. u \in App /\ ClearsOnly(s, u)
  BY <1>2, ClearedType DEF ClearsOnly, SameCancel
<1> HIDE DEF u
<1>5. ScheduleRelay(u) \in App /\ ClearsOnly(s, ScheduleRelay(u))
  BY <1>4, ScheduleRelayType DEF ClearsOnly, SameCancel
<1>6. Fits(r, s, {})
  BY <1>1, SameFits DEF SameEvidence, SameCancel
<1>7. Enough(ClearSigned) => Fits(r, ScheduleRelay(u), {})
  BY <1>5, ClearsFits
<1> QED
  BY <1>3, <1>6, <1>7 DEF SomeFits

\* A relayed certificate is nothing new.
LEMMA RelayFiresFits == ASSUME Inv, NEW r \in Honest, RelayFires(r) PROVE SomeFits(r)
<1> DEFINE s == app[r]
           t == [s EXCEPT !.relay = FALSE]
           u == [t EXCEPT !.tracker = @ \cup {r}]
<1>1. r \in R /\ s \in App
  BY AppIsTyped DEF Inv
<1>2. /\ t \in App /\ SameEvidence(s, t)
      /\ u \in App /\ SameEvidence(s, u)
  BY <1>1 DEF App, SameEvidence, SameCancel
<1>3. Do(r, t, {}, {}) \/ Do(r, u, {}, {"CLEAR_CERT"})
  BY DEF RelayFires
<1> HIDE DEF t, u
<1>4. Fits(r, t, {}) /\ Fits(r, u, {"CLEAR_CERT"})
  BY <1>2, SameFits DEF Certs
<1> QED
  BY <1>3, <1>4 DEF SomeFits

\* ORDER(0) reaches a late vehicle.
LEMMA LearnOrderFits == ASSUME Inv, NEW r \in Honest, LearnOrder(r) PROVE SomeFits(r)
<1> DEFINE s == app[r]
           t == [s EXCEPT !.view = TRUE, !.applied = s.phase = "NONE"]
<1>1. r \in R /\ s \in App
  BY AppIsTyped DEF Inv
<1>2. ASSUME NEW b \in BOOLEAN
      PROVE  LET u == [s EXCEPT !.view = TRUE, !.applied = b] IN u \in App /\ SameEvidence(s, u)
  BY <1>1 DEF App, SameEvidence, SameCancel
<1>3. t \in App /\ SameEvidence(s, t)
  BY <1>2
<1>4. Do(r, t, {}, {})
  BY DEF LearnOrder
<1> HIDE DEF t
<1>5. Fits(r, t, {})
  BY <1>3, SameFits DEF Certs
<1> QED
  BY <1>4, <1>5 DEF SomeFits

\* A new round finds a certificate.
LEMMA DiscoverFits ==
    ASSUME Inv, NEW r \in Honest, NEW own \in BOOLEAN, Discover(r, own) PROVE SomeFits(r)
<1> DEFINE s == app[r]
           t == [s EXCEPT !.certs = IF own THEN "OWN" ELSE "OTHERS"]
<1>1. r \in R /\ s \in App
  BY AppIsTyped DEF Inv
<1>2. t \in App /\ SameEvidence(s, t)
  BY <1>1 DEF App, SameEvidence, SameCancel
<1>3. Do(r, t, {}, {})
  BY DEF Discover
<1> HIDE DEF t
<1>4. Fits(r, t, {})
  BY <1>2, SameFits DEF Certs
<1> QED
  BY <1>3, <1>4 DEF SomeFits

\* A recovery ORDER is submitted only with the incident cleared.
LEMMA ProposeFits == ASSUME Inv, NEW r \in Honest, Propose(r) PROVE SomeFits(r)
<1> DEFINE s == app[r]
           t == [s EXCEPT !.submitted = TRUE]
<1>1. r \in R /\ s \in App
  BY AppIsTyped DEF Inv
<1>2. t \in App /\ ClearsOnly(s, t)
  BY <1>1 DEF App, ClearsOnly, SameCancel
<1>3. Do(r, t, {}, {}) /\ s.incident = "CLEARED"
  BY DEF Propose
<1> HIDE DEF t
<1>4. Enough(ClearSigned)
  BY <1>3 DEF Inv, EnoughBehind
<1>5. Fits(r, t, {})
  BY <1>2, <1>4, ClearsFits DEF Certs
<1> QED
  BY <1>3, <1>5 DEF SomeFits

\* The recovery ORDER carries a CLEAR certificate.
LEMMA RecoveryOrderFits == ASSUME Inv, NEW r \in Honest, RecoveryOrder(r) PROVE SomeFits(r)
<1> DEFINE s == app[r]
           t == [Clear(s) EXCEPT !.phase = "OVER", !.applied = TRUE, !.retries = -1,
                                 !.candidate = {}, !.relay = FALSE]
<1>1. r \in R /\ s \in App
  BY AppIsTyped DEF Inv
<1>2. Do(r, t, {}, {})
  BY DEF RecoveryOrder
<1>3. Enough(ClearSigned)
  <2>1. Enough(ClearSigned) \/ \E p \in Honest : app[p].submitted
    BY DEF RecoveryOrder
  <2> QED
    BY <2>1 DEF Inv, EnoughBehind
<1>4. Clear(s) \in App /\ ClearsOnly(s, Clear(s)) /\ Clear(s).submitted = s.submitted
  BY <1>1, ClearType
<1>5. ASSUME NEW u \in App
      PROVE  LET v == [u EXCEPT !.phase = "OVER", !.applied = TRUE, !.retries = -1,
                                !.candidate = {}, !.relay = FALSE]
             IN  /\ v \in App /\ v.phase = "OVER" /\ v.candidate = {} /\ SameCancel(u, v)
                 /\ v.clear_echoes = u.clear_echoes /\ v.incident = u.incident
                 /\ v.submitted = u.submitted
  <2>1. -1 \in -1 .. MaxRetries - 1
    BY CertificatesAssumption
  <2>2. ASSUME NEW n \in -1 .. MaxRetries - 1
        PROVE  [u EXCEPT !.phase = "OVER", !.applied = TRUE, !.retries = n,
                         !.candidate = {}, !.relay = FALSE] \in App
    BY DEF App
  <2> QED
    BY ZenonT(60), <2>1, <2>2 DEF App, SameCancel
<1>6. /\ t \in App /\ t.phase = "OVER" /\ t.candidate = {} /\ SameCancel(Clear(s), t)
      /\ t.clear_echoes = Clear(s).clear_echoes /\ t.incident = Clear(s).incident
      /\ t.submitted = Clear(s).submitted
  BY <1>4, <1>5
<1>7. Fits(r, s, {})
  BY <1>1, SameFits DEF SameEvidence, SameCancel
<1> HIDE DEF t
<1>8. Fits(r, t, {})
  BY <1>3, <1>4, <1>6, <1>7 DEF Fits, ClearsOnly, SameCancel
<1> QED
  BY <1>2, <1>8 DEF SomeFits

\* Every step is the road's or fits.
LEMMA NextFits ==
    ASSUME Inv, Next
    PROVE  Crash \/ Tow \/ \E r \in Honest : SomeFits(r)
<1> SUFFICES ASSUME NEW r \in Honest,
                    \/ Receive(r) \/ ReceiveFaulty(r) \/ Timers(r) \/ CrashDwell(r) \/ ClearDwell(r)
                    \/ \E decided \in BOOLEAN : CommitCancel(r, decided)
                    \/ LearnOrder(r) \/ Propose(r) \/ RecoveryOrder(r)
                    \/ \E own \in BOOLEAN : Discover(r, own)
             PROVE  SomeFits(r)
  BY DEF Next
<1>1. CASE Receive(r) \/ ReceiveFaulty(r)
  <2>1. ASSUME NEW f \in Frame, Arrives(r, f), Handle(r, f) PROVE SomeFits(r)
    BY <2>1, HandleCancelEchoFits, HandleCancelCertFits, HandleClearEchoFits,
       HandleClearCertFits DEF Handle
  <2>2. inbox[r] \subseteq Frame
    BY DEF Inv, TypeOK, Honest
  <2> QED
    BY <1>1, <2>1, <2>2, HandleUnmatchedEchoFits DEF Receive, ReceiveFaulty, Arrives
<1>2. CASE Timers(r)
  BY <1>2, RetryCancelCertFits, RelayFiresFits, CandidateFiresFits DEF Timers
<1>3. CASE CrashDwell(r) \/ ClearDwell(r)
  BY <1>3, CrashDwellFits, ClearDwellFits
<1>4. CASE \E decided \in BOOLEAN : CommitCancel(r, decided)
  BY <1>4, CommitCancelFits
<1>5. CASE LearnOrder(r) \/ Propose(r) \/ RecoveryOrder(r)
  BY <1>5, LearnOrderFits, ProposeFits, RecoveryOrderFits
<1>6. CASE \E own \in BOOLEAN : Discover(r, own)
  BY <1>6, DiscoverFits
<1> QED
  BY <1>1, <1>2, <1>3, <1>4, <1>5, <1>6

-----------------------------------------------------------------------------
(* The theorems *)

\* A wreck and its tow change nothing but the road.
LEMMA RoadPreserves ==
    ASSUME Inv, Crash \/ Tow
    PROVE  Inv'
<1>1. /\ app' = app /\ inbox' = inbox
      /\ road \in {"free", "wreck"} /\ road' \in {"wreck", "towed"}
  BY DEF Crash, Tow
<1>2. TypeOK'
  BY <1>1 DEF Inv, TypeOK
<1>3. SignedEvidence' /\ SignedFrames'
  BY <1>1 DEF Inv, SignedEvidence, SignedFrames, Signed, ClearSigned
<1>4. EnoughBehind'
  BY <1>1 DEF Inv, EnoughBehind, Signed, ClearSigned, Enough
<1>5. SeenFirst'
  BY <1>1 DEF SeenFirst
<1> QED
  BY <1>2, <1>3, <1>4, <1>5 DEF Inv

LEMMA InvInit == Init => Inv
<1> SUFFICES ASSUME Init PROVE Inv
  OBVIOUS
<1>1. \A r \in R : app[r] = Fresh(r \notin Late)
  BY DEF Init
<1>2. \A r \in R : /\ app[r] \in App /\ app[r].echoes = {} /\ app[r].clear_echoes = {}
                   /\ app[r].candidate = {} /\ app[r].phase = "NONE"
                   /\ app[r].incident = "NONE" /\ ~app[r].submitted /\ ~app[r].echoed
  <2>1. \A r \in R : (r \notin Late) \in BOOLEAN
    OBVIOUS
  <2> QED
    BY <1>1, <2>1, FreshType
<1>3. TypeOK
  BY <1>2 DEF TypeOK, Init, Frame
<1>4. SignedEvidence /\ EnoughBehind /\ Witnesses = {}
  BY <1>2 DEF SignedEvidence, EnoughBehind, Witnesses, Honest
<1>5. SignedFrames
  BY DEF Init, SignedFrames, Honest
<1> QED
  BY <1>3, <1>4, <1>5 DEF Inv, SeenFirst

LEMMA InvNext == Inv /\ [Next]_vars => Inv'
<1> SUFFICES ASSUME Inv, [Next]_vars PROVE Inv'
  OBVIOUS
<1>1. CASE UNCHANGED vars
  BY <1>1 DEF vars, Inv, TypeOK, SignedEvidence, SignedFrames, EnoughBehind, SeenFirst,
              Witnesses, Signed, ClearSigned, Enough
<1>2. CASE Next
  <2>1. CASE Crash \/ Tow
    BY <2>1, RoadPreserves
  <2>2. CASE \E r \in Honest : SomeFits(r)
    BY <2>2, FitsPreserves DEF SomeFits
  <2> QED
    BY <1>2, <2>1, <2>2, NextFits
<1> QED
  BY <1>1, <1>2

LEMMA Invariance == Spec => []Inv
BY InvInit, InvNext, PTL DEF Spec

\* The fields of every app, the frames and the road keep their domains, whatever the
\* vehicles, the view, the faulty ones and the number of retries.
THEOREM TypeCorrect == Spec => []TypeOK
<1>1. Inv => TypeOK
  BY DEF Inv
<1> QED
  BY <1>1, Invariance, PTL

\* Both certificates implement Evidence: broadcastCancelCert(), handleCancelCert(),
\* broadcastClearCert(), handleClearCert() and the recovery ORDER accept nothing that f+1
\* members have not signed, and honest vehicles sign what they see; whatever name a CANCEL
\* echo or a carrier has, and also when a faulty primary proposes the CANCEL or the ORDER.
THEOREM CertificatesAreEvidence == Spec => ImplementsEvidence
<1>1. Init => Blocked!Init /\ Emptied!Init
  <2> SUFFICES ASSUME Init PROVE Blocked!Init /\ Emptied!Init
    OBVIOUS
  <2>1. \A r \in Honest : /\ ~app[r].echoed /\ app[r].clear_echoes = {}
                          /\ app[r].incident = "NONE"
    BY DEF Init, Fresh, Honest
  <2>2. (road = "wreck") = FALSE /\ (road = "towed") = FALSE
    BY DEF Init
  <2> QED
    BY <2>1, <2>2 DEF Blocked!Init, Emptied!Init
<1>2. Inv /\ [Next]_vars => [Blocked!Next]_(Blocked!vars) /\ [Emptied!Next]_(Emptied!vars)
  <2> SUFFICES ASSUME Inv, [Next]_vars
               PROVE  [Blocked!Next]_(Blocked!vars) /\ [Emptied!Next]_(Emptied!vars)
    OBVIOUS
  <2>1. CASE UNCHANGED vars
    BY <2>1 DEF vars, Blocked!vars, Emptied!vars
  <2>2. CASE Crash \/ Tow
    <3>1. app' = app /\ (road' = "wreck") \in BOOLEAN /\ (road' = "towed") \in BOOLEAN
      BY <2>2 DEF Crash, Tow
    <3>2. Blocked!Change /\ Emptied!Change
      BY <3>1 DEF Blocked!Change, Emptied!Change
    <3> QED
      BY <3>2 DEF Blocked!Next, Emptied!Next
  <2>3. CASE \E r \in Honest : SomeFits(r)
    BY <2>3, FitsBlocked, FitsEmptied DEF SomeFits, Inv
  <2> QED
    BY <2>1, <2>2, <2>3, NextFits
<1> QED
  BY <1>1, <1>2, Invariance, PTL DEF Spec, ImplementsEvidence, Blocked!Spec, Emptied!Spec
-----------------------------------------------------------------------------
(* Nobody is hushed by a candidate that was dropped *)

\* The candidate of a vehicle that has a key in the rollback is still there with f+1
\* signers, or has been overtaken by a certificate.
Waiting(s) ==
    /\ s.phase = "PENDING" => ~s.applied
    /\ s.incident = "CLEARED" => s.clear_seen \/ s.phase = "OVER"
    /\ s.phase = "PENDING" /\ s.key => s.clear_seen \/ Reached(s.candidate)

HushInv == \A r \in Honest : Waiting(app[r])

\* Whoever rolls ORDER(0) back has applied it, and so knows the view.
ViewFirst == \A r \in Honest : app[r].phase = "PENDING" => app[r].view

\* When every vehicle is in the view, the collector and the validator count alike.
LEMMA AllSignersCount ==
    ASSUME R \subseteq Members, NEW s \in App
    PROVE  Reached(s.candidate) => Enough(s.candidate) /\ s.candidate # {}
<1>1. s.candidate \subseteq Members
  BY DEF App
<1>2. s.candidate \cap Members = s.candidate
  BY <1>1
<1>3. Cardinality({}) = 0
  BY FS_EmptySet
<1>4. ASSUME s.candidate = {} PROVE ~Reached(s.candidate)
  BY <1>3, <1>4, CertificatesAssumption DEF Reached
<1> QED
  BY <1>2, <1>4 DEF Reached, Enough

\* What most steps leave alone: the candidate and what it waits for.
Leaves(s, t) ==
    /\ t.view = s.view /\ t.applied = s.applied /\ t.candidate = s.candidate
    /\ t.key = s.key /\ t.clear_seen = s.clear_seen
    /\ t.incident = "CLEARED" <=> s.incident = "CLEARED"
    /\ t.phase = "PENDING" <=> s.phase = "PENDING"
    /\ t.phase = "OVER" <=> s.phase = "OVER"

\* So it still waits.
LEMMA LeavesWaiting ==
    ASSUME NEW s, NEW t, Leaves(s, t), Waiting(s)
    PROVE  Waiting(t)
BY DEF Leaves, Waiting

\* ... in more than one assignment.
LEMMA LeavesComposes ==
    ASSUME NEW s, NEW t, NEW u, Leaves(s, t), Leaves(t, u)
    PROVE  Leaves(s, u)
BY DEF Leaves

\* The helpers of the CANCEL certificate, and the relay of the CLEAR certificate.
LEMMA HelpersLeave ==
    ASSUME NEW s \in App
    PROVE  /\ Leaves(s, Register(s)) /\ Leaves(s, Halt(s)) /\ Leaves(s, Broadcasted(s))
           /\ Leaves(s, ScheduleRelay(s))
<1>1. Leaves(s, Register(s))
  BY DEF Register, App, Leaves
<1>2. ASSUME NEW u \in App PROVE Leaves(u, Halt(u))
  BY DEF Halt, App, Leaves
<1>3. Leaves(s, Broadcasted(s))
  <2> DEFINE t == [Register(s) EXCEPT !.seen = TRUE,
                                      !.retries = IF Confirmed(s) THEN -1 ELSE 0]
  <2>1. Register(s) \in App
    BY RegisterType
  <2>2. (IF Confirmed(s) THEN -1 ELSE 0) \in -1 .. MaxRetries - 1
    BY CertificatesAssumption
  <2>3. ASSUME NEW n \in -1 .. MaxRetries - 1, NEW u \in App
        PROVE  LET v == [u EXCEPT !.seen = TRUE, !.retries = n] IN v \in App /\ Leaves(u, v)
    BY DEF App, Leaves
  <2>4. t \in App /\ Leaves(Register(s), t)
    BY <2>1, <2>2, <2>3
  <2> HIDE DEF t
  <2>5. Broadcasted(s) = Halt(t)
    BY DEF Broadcasted, t
  <2> QED
    BY <1>1, <1>2, <2>4, <2>5, LeavesComposes
<1>4. ASSUME NEW b \in BOOLEAN
      PROVE  /\ Leaves(s, [s EXCEPT !.relay = b])
             /\ Leaves(s, [s EXCEPT !.clear_relayed = TRUE, !.relay = b])
  BY DEF App, Leaves
<1>5. Ranked(s) \in BOOLEAN /\ Leaves(s, s)
  BY DEF Ranked, Leaves
<1>6. ScheduleRelay(s) \in {s, [s EXCEPT !.relay = FALSE],
                            [s EXCEPT !.clear_relayed = TRUE, !.relay = Ranked(s)]}
  BY DEF ScheduleRelay
<1> QED
  BY <1>1, <1>2, <1>3, <1>4, <1>5, <1>6

\* onIncidentCleared() behind a certificate that is known.
LEMMA ClearedWaits ==
    ASSUME NEW s \in App, NEW submits \in BOOLEAN, Waiting(s), s.clear_seen
    PROVE  Waiting(Cleared(s, submits)) /\ Cleared(s, submits).clear_seen
<1> DEFINE now == s.submitted \/ (submits /\ s.incident = "BLOCKING" /\ s.phase = "PENDING")
           u == Clear(s)
<1>1. /\ u.view = s.view /\ u.applied = s.applied /\ u.phase = s.phase
      /\ u.clear_seen = s.clear_seen /\ u.submitted = s.submitted
  BY DEF Clear, App
<1>2. u \in App
  BY ClearType
<1> HIDE DEF u, now
<1>3. LET t == [u EXCEPT !.submitted = now]
      IN  /\ t.view = s.view /\ t.applied = s.applied /\ t.phase = s.phase
          /\ t.clear_seen = s.clear_seen
  BY <1>1, <1>2 DEF App
<1>4. Cleared(s, submits) = [u EXCEPT !.submitted = now]
  BY <1>1 DEF Cleared, now, u
<1> QED
  BY <1>3, <1>4 DEF Waiting

\* r alone changes, and what it waits for remains.
Keeps(r) == \E t : app' = [app EXCEPT ![r] = t] /\ (Waiting(app[r]) => Waiting(t))

\* A step written with Do().
LEMMA DoKeeps ==
    ASSUME NEW r, NEW t, NEW got, NEW sent, Do(r, t, got, sent), Waiting(app[r]) => Waiting(t)
    PROVE  Keeps(r)
BY DEF Keeps, Do

\* Steps that do not touch the candidate.
LEMMA OtherStepsKeep ==
    ASSUME TypeOK, NEW r \in Honest,
           \/ CrashDwell(r) \/ RetryCancelCert(r) \/ ClearDwell(r) \/ RelayFires(r)
           \/ Propose(r) \/ \E own \in BOOLEAN : Discover(r, own)
           \/ \E p \in R : HandleUnmatchedEcho(r, p)
           \/ \E f \in Frame : HandleCancelEcho(r, f) \/ HandleCancelCert(r, f)
    PROVE  Keeps(r)
<1> DEFINE s == app[r]
<1>1. s \in App /\ r \in R
  BY AppIsTyped
<1>2. ASSUME NEW t, NEW got, NEW sent, Do(r, t, got, sent), Leaves(s, t)
      PROVE  Keeps(r)
  BY <1>2, DoKeeps, LeavesWaiting
<1>3. Leaves(s, s)
  BY DEF Leaves
<1>4. ASSUME CrashDwell(r) PROVE Keeps(r)
  <2>1. Leaves(s, [s EXCEPT !.echoed = TRUE, !.echoes = @ \cup ({r} \ s.unmatched)])
    BY <1>1 DEF App, Leaves
  <2> QED
    BY <1>2, <1>4, <2>1 DEF CrashDwell
<1>5. ASSUME RetryCancelCert(r) PROVE Keeps(r)
  <2>1. ASSUME NEW n PROVE Leaves(s, [s EXCEPT !.retries = n])
    BY <1>1 DEF App, Leaves
  <2> QED
    BY <1>2, <1>5, <2>1 DEF RetryCancelCert
<1>6. ASSUME ClearDwell(r) PROVE Keeps(r)
  <2> DEFINE t == [s EXCEPT !.dwelt = TRUE]
             u == [t EXCEPT !.clear_echoes = @ \cup {r}]
  <2>1. Leaves(s, t) /\ Leaves(s, u)
    BY <1>1 DEF App, Leaves
  <2>2. \E sent : Do(r, t, {}, sent) \/ Do(r, u, {}, sent)
    BY <1>6 DEF ClearDwell
  <2> QED
    BY <1>2, <2>1, <2>2
<1>7. ASSUME RelayFires(r) PROVE Keeps(r)
  <2> DEFINE t == [s EXCEPT !.relay = FALSE]
             u == [t EXCEPT !.tracker = @ \cup {r}]
  <2>1. Leaves(s, t) /\ Leaves(s, u)
    BY <1>1 DEF App, Leaves
  <2>2. \E sent : Do(r, t, {}, sent) \/ Do(r, u, {}, sent)
    BY <1>7 DEF RelayFires
  <2> QED
    BY <1>2, <2>1, <2>2
<1>8. ASSUME Propose(r) PROVE Keeps(r)
  <2>1. Leaves(s, [s EXCEPT !.submitted = TRUE])
    BY <1>1 DEF App, Leaves
  <2> QED
    BY <1>2, <1>8, <2>1 DEF Propose
<1>9. ASSUME NEW own \in BOOLEAN, Discover(r, own) PROVE Keeps(r)
  <2>1. Leaves(s, [s EXCEPT !.certs = IF own THEN "OWN" ELSE "OTHERS"])
    BY <1>1 DEF App, Leaves
  <2> QED
    BY <1>2, <1>9, <2>1 DEF Discover
<1>10. ASSUME NEW t \in App, NEW got, Leaves(s, t), Collect(r, t, got) PROVE Keeps(r)
  <2>1. Leaves(s, Broadcasted(t))
    BY <1>10, HelpersLeave, LeavesComposes
  <2>2. \E sent : Do(r, t, got, sent) \/ Do(r, Broadcasted(t), got, sent)
    BY <1>10 DEF Collect
  <2> QED
    BY <1>2, <1>10, <2>1, <2>2
<1>12. ASSUME NEW f \in Frame, HandleCancelEcho(r, f) PROVE Keeps(r)
  <2> DEFINE t == [s EXCEPT !.echoes = @ \cup ({f.from} \ s.unmatched)]
  <2>1. t \in App /\ Leaves(s, t)
    <3>1. f.from \in R
      BY DEF Frame
    <3> QED
      BY <1>1, <3>1 DEF App, Leaves
  <2>2. Collect(r, t, {f})
    BY <1>12 DEF HandleCancelEcho
  <2> QED
    BY <1>10, <2>1, <2>2
<1>13. ASSUME NEW p \in R, HandleUnmatchedEcho(r, p) PROVE Keeps(r)
  <2> DEFINE t == [s EXCEPT !.unmatched = @ \cup {p}]
  <2>1. t \in App /\ Leaves(s, t)
    BY <1>1 DEF App, Leaves
  <2>2. Collect(r, t, {})
    BY <1>13 DEF HandleUnmatchedEcho
  <2> QED
    BY <1>10, <2>1, <2>2
<1>11. ASSUME NEW f \in Frame, HandleCancelCert(r, f) PROVE Keeps(r)
  <2> DEFINE t == [Register(s) EXCEPT !.carriers = @ \cup {f.from}, !.seen = TRUE,
                                      !.relayed = TRUE]
  <2>1. ASSUME NEW u \in App
        PROVE  LET v == [u EXCEPT !.carriers = @ \cup {f.from}, !.seen = TRUE,
                                  !.relayed = TRUE]
               IN  v \in App /\ Leaves(u, v)
    <3>1. f.from \in R
      BY DEF Frame
    <3> QED
      BY <3>1 DEF App, Leaves
  <2>2. Register(s) \in App /\ Leaves(s, Register(s))
    BY <1>1, RegisterType, HelpersLeave
  <2>3. t \in App /\ Leaves(Register(s), t)
    BY <2>1, <2>2
  <2> HIDE DEF t
  <2>4. Leaves(s, Halt(t))
    BY <2>2, <2>3, HelpersLeave, LeavesComposes
  <2>5. \E sent : Do(r, Halt(t), {f}, sent) \/ Do(r, s, {f}, sent)
    BY <1>11 DEF HandleCancelCert, t
  <2> QED
    BY <1>2, <1>3, <2>4, <2>5
<1> QED
  BY <1>4, <1>5, <1>6, <1>7, <1>8, <1>9, <1>11, <1>12, <1>13

\* The rollback starts with no key and no order applied, and ends out of PENDING.
LEMMA RollbackKeeps ==
    ASSUME TypeOK, NEW r \in Honest,
           \/ \E decided \in BOOLEAN : CommitCancel(r, decided)
           \/ RecoveryOrder(r) \/ LearnOrder(r)
    PROVE  Keeps(r)
<1> DEFINE s == app[r]
<1>1. s \in App
  BY AppIsTyped
<1>2. ASSUME NEW decided \in BOOLEAN, CommitCancel(r, decided) PROVE Keeps(r)
  <2>1. ASSUME NEW n
        PROVE  LET t == [BeginRollback(s) EXCEPT !.retries = n]
               IN  /\ t.view = s.view /\ ~t.applied /\ ~t.key
                   /\ t.incident = s.incident /\ t.clear_seen = s.clear_seen
    BY <1>1 DEF BeginRollback, App
  <2>2. s.phase # "OVER"
    BY <1>2 DEF CommitCancel
  <2>3. \E n : Do(r, [BeginRollback(s) EXCEPT !.retries = n], {}, {})
    <3>1. Do(r, [BeginRollback(s) EXCEPT !.retries = IF decided THEN -1 ELSE @], {}, {})
      BY <1>2 DEF CommitCancel
    <3> QED
      BY <3>1
  <2> QED
    BY <2>1, <2>2, <2>3, DoKeeps DEF Waiting
<1>3. ASSUME RecoveryOrder(r) PROVE Keeps(r)
  <2> DEFINE t == [Clear(s) EXCEPT !.phase = "OVER", !.applied = TRUE, !.retries = -1,
                                   !.candidate = {}, !.relay = FALSE]
  <2>1. t.phase = "OVER" /\ t.view = s.view
    BY <1>1 DEF Clear, App
  <2>2. Do(r, t, {}, {})
    BY <1>3 DEF RecoveryOrder
  <2> HIDE DEF t
  <2> QED
    BY <2>1, <2>2, DoKeeps DEF Waiting
<1>4. ASSUME LearnOrder(r) PROVE Keeps(r)
  <2> DEFINE t == [s EXCEPT !.view = TRUE, !.applied = s.phase = "NONE"]
  <2>1. /\ t.phase = s.phase /\ t.applied = (s.phase = "NONE") /\ t.key = s.key
        /\ t.incident = s.incident /\ t.clear_seen = s.clear_seen
        /\ t.candidate = s.candidate
    BY <1>1 DEF App
  <2>2. Do(r, t, {}, {})
    BY <1>4 DEF LearnOrder
  <2> HIDE DEF t
  <2> QED
    BY <2>1, <2>2, DoKeeps DEF Waiting
<1> QED
  BY <1>2, <1>3, <1>4

\* The key comes with the candidate.
LEMMA ClearEchoKeeps ==
    ASSUME TypeOK, NEW r \in Honest, NEW f \in Frame, HandleClearEcho(r, f)
    PROVE  Keeps(r)
<1> DEFINE s == app[r]
           t == [s EXCEPT !.clear_echoes = @ \cup {f.from}]
<1>1. s \in App /\ f.from \in R
  BY AppIsTyped DEF Frame
<1>2. t \in App /\ Leaves(s, t)
  BY <1>1 DEF App, Leaves
<1> HIDE DEF t
<1>3. ASSUME Waiting(s), Reached(t.clear_echoes) PROVE Waiting(Candidate(t))
  <2> DEFINE u == [t EXCEPT !.key = TRUE, !.candidate = t.clear_echoes]
  <2>1. /\ u.view = t.view /\ u.applied = t.applied /\ u.phase = t.phase
        /\ u.incident = t.incident /\ u.clear_seen = t.clear_seen
        /\ u.candidate = t.clear_echoes
    BY <1>2 DEF App
  <2>2. Candidate(t) \in {t, u}
    BY DEF Candidate
  <2>3. Waiting(t)
    BY <1>2, <1>3, LeavesWaiting
  <2> HIDE DEF u
  <2>4. Waiting(u)
    BY <1>3, <2>1, <2>3 DEF Waiting
  <2> QED
    BY <2>2, <2>3, <2>4
<1>4. \/ Do(r, s, {f}, {}) \/ Do(r, t, {f}, {})
      \/ Reached(t.clear_echoes) /\ Do(r, Candidate(t), {f}, {})
  BY DEF HandleClearEcho, t
<1> QED
  BY <1>2, <1>3, <1>4, LeavesWaiting, DoKeeps

\* A candidate that fires has f+1 signers of the view: it becomes a certificate.
LEMMA CandidateKeeps ==
    ASSUME TypeOK, R \subseteq Members, NEW r \in Honest, NEW submits \in BOOLEAN,
           app[r].phase = "PENDING" => app[r].view, CandidateFires(r, submits)
    PROVE  Keeps(r)
<1> DEFINE s == app[r]
           t == [s EXCEPT !.candidate = {}]
           u == [t EXCEPT !.clear_seen = TRUE, !.tracker = @ \cup {r}]
<1>1. s \in App /\ r \in R
  BY AppIsTyped
<1>2. /\ t \in App /\ t.view = s.view /\ t.applied = s.applied /\ t.phase = s.phase
      /\ t.incident = s.incident /\ t.clear_seen = s.clear_seen /\ t.key = s.key
  BY <1>1 DEF App
<1>3. /\ u \in App /\ u.view = s.view /\ u.applied = s.applied /\ u.phase = s.phase
      /\ u.incident = s.incident /\ u.clear_seen
  BY <1>1 DEF App
<1>4. CASE /\ s.incident = "CLEARED" \/ s.applied \/ ~s.view \/ ~Enough(s.candidate)
           /\ Do(r, t, {}, {})
  <2>1. ASSUME Waiting(s) PROVE Waiting(t)
    <3>1. s.phase = "PENDING" /\ s.key => s.clear_seen
      BY <1>1, <1>4, <2>1, AllSignersCount DEF Waiting
    <3> QED
      BY <1>2, <2>1, <3>1 DEF Waiting
  <2> QED
    BY <1>4, <2>1, DoKeeps
<1>5. CASE Do(r, Cleared(u, submits), {}, {"CLEAR_CERT"})
  <2> HIDE DEF u
  <2>1. ASSUME Waiting(s) PROVE Waiting(Cleared(u, submits))
    <3>1. Waiting(u)
      BY <1>3, <2>1 DEF Waiting
    <3> QED
      BY <1>3, <3>1, ClearedWaits
  <2> QED
    BY <1>5, <2>1, DoKeeps
<1> QED
  BY <1>4, <1>5 DEF CandidateFires

\* A certificate that overtakes the candidate is known from then on.
LEMMA ClearCertKeeps ==
    ASSUME TypeOK, NEW r \in Honest, NEW f \in Frame, NEW submits \in BOOLEAN,
           HandleClearCert(r, f, submits)
    PROVE  Keeps(r)
<1> DEFINE s == app[r]
           t == [s EXCEPT !.tracker = @ \cup {f.from}, !.clear_seen = TRUE, !.candidate = {}]
<1>1. s \in App /\ f.from \in R
  BY AppIsTyped DEF Frame
<1>2. /\ t \in App /\ t.view = s.view /\ t.applied = s.applied /\ t.phase = s.phase
      /\ t.incident = s.incident /\ t.clear_seen
  BY <1>1 DEF App
<1>3. Do(r, s, {f}, {}) \/ Do(r, ScheduleRelay(Cleared(t, submits)), {f}, {})
  BY DEF HandleClearCert
<1> HIDE DEF t
<1>4. ASSUME Waiting(s) PROVE Waiting(ScheduleRelay(Cleared(t, submits)))
  <2>1. Waiting(t)
    BY <1>2, <1>4 DEF Waiting
  <2>2. Waiting(Cleared(t, submits)) /\ Cleared(t, submits) \in App
    BY <1>2, <2>1, ClearedWaits, ClearedType
  <2> QED
    BY <2>2, HelpersLeave, LeavesWaiting
<1> QED
  BY <1>3, <1>4, DoKeeps

\* Every step keeps all of them waiting.
LEMMA HushNext ==
    ASSUME R \subseteq Members
    PROVE  TypeOK /\ ViewFirst /\ HushInv /\ [Next]_vars => HushInv'
<1> SUFFICES ASSUME TypeOK, ViewFirst, HushInv, [Next]_vars PROVE HushInv'
  OBVIOUS
<1>1. CASE app' = app
  BY <1>1 DEF HushInv
<1>2. CASE \E r \in Honest : Keeps(r)
  <2>1. PICK r \in Honest : Keeps(r)
    BY <1>2
  <2>2. PICK t : app' = [app EXCEPT ![r] = t] /\ (Waiting(app[r]) => Waiting(t))
    BY <2>1 DEF Keeps
  <2>3. ASSUME NEW p \in Honest PROVE Waiting(app'[p])
    <3>1. app'[p] = IF p = r THEN t ELSE app[p]
      BY <2>2 DEF TypeOK, Honest
    <3> QED
      BY <2>2, <3>1 DEF HushInv
  <2> QED
    BY <2>3 DEF HushInv, Waiting
<1> QED
  <2>1. CASE UNCHANGED vars \/ Crash \/ Tow
    BY <1>1, <2>1 DEF vars, Crash, Tow
  <2>2. ASSUME NEW r \in Honest, NEW f \in Frame, Handle(r, f)
        PROVE  Keeps(r)
    BY <2>2, OtherStepsKeep, ClearEchoKeeps, ClearCertKeeps DEF Handle
  <2>3. \A r \in Honest : inbox[r] \subseteq Frame
    BY DEF TypeOK, Honest
  <2>4. ASSUME NEW r \in Honest,
               \/ Receive(r) \/ ReceiveFaulty(r) \/ Timers(r) \/ CrashDwell(r) \/ ClearDwell(r)
               \/ \E decided \in BOOLEAN : CommitCancel(r, decided)
               \/ LearnOrder(r) \/ Propose(r) \/ RecoveryOrder(r)
               \/ \E own \in BOOLEAN : Discover(r, own)
        PROVE  Keeps(r)
    BY <2>2, <2>3, <2>4, OtherStepsKeep, RollbackKeeps, CandidateKeeps
       DEF Receive, ReceiveFaulty, Timers, ViewFirst
  <2> QED
    BY <1>2, <2>1, <2>4 DEF Next

\* At first nobody has a key.
LEMMA HushInit == Init => HushInv
<1> SUFFICES ASSUME Init, NEW r \in Honest PROVE Waiting(app[r])
  BY DEF HushInv
<1>1. app[r] = Fresh(r \notin Late)
  BY DEF Init, Honest
<1> QED
  BY <1>1 DEF Fresh, Waiting

\* When all vehicles are in the view, and none rolls ORDER(0) back before it has applied
\* it, no vehicle is silenced by a candidate that was dropped
\* (scheduleClearCertCandidate(), handleClearEcho()): whoever suppresses CLEAR echoes
\* waits for its turn with f+1 signers of the view, or knows a certificate.
THEOREM HushIsFounded ==
    ASSUME R \subseteq Members
    PROVE  Spec /\ []ViewFirst => []HushHasReason
<1>1. TypeOK /\ HushInv => HushHasReason
  <2> SUFFICES ASSUME TypeOK, HushInv, NEW r \in Honest,
                      app[r].phase = "PENDING", app[r].key
               PROVE  app[r].candidate # {} \/ app[r].clear_seen
    BY DEF HushHasReason
  <2>1. Waiting(app[r]) /\ app[r] \in App
    BY AppIsTyped DEF HushInv
  <2> QED
    BY <2>1, AllSignersCount DEF Waiting
<1>2. TypeOK /\ ViewFirst /\ HushInv /\ [Next]_vars => HushInv'
  BY HushNext
<1> QED
  BY <1>1, <1>2, HushInit, TypeCorrect, PTL DEF Spec
=============================================================================
