----------------------------- MODULE Pbft_proofs -----------------------------
(***************************************************************************)
(* Why servers agree although the primary changes without a view change:   *)
(* not by the intersection of quorums, which two proposers at one number   *)
(* would defeat, but because the application lets a vehicle propose only   *)
(* after it has executed what was proposed before, so that no number is    *)
(* ever given to two requests.  That argument needs every vehicle that     *)
(* proposes to run this code, and Checked states it.                       *)
(***************************************************************************)
EXTENDS Pbft, FiniteSetTheorems, TLAPS

Node ==
    [primary : Replicas, next_seq : 1..(MaxSeq + 1), asked : SUBSET Requests,
     proposed : SUBSET Requests, views : SUBSET Requests,
     early : [Requests -> SUBSET Replicas], got : SUBSET Message,
     status : [Seqs -> {"None", "READY_PREPARE", "READY_COMMIT", "EXECUTED"}],
     main : [Seqs -> Requests \cup {None}], ledger : Seq(Requests)]

\* What a server has committed has a main request, and it has executed no
\* more numbers than there are.
Numbered ==
    \A r \in Honest :
        /\ \A s \in Seqs : node[r].status[s] # "None" => node[r].main[s] \in Requests
        /\ Len(node[r].ledger) <= MaxSeq

TypeInv == TypeOK /\ Numbered

\* The larger of two numbers is one of them, and not below the other.
LEMMA MaxOfTwo ==
    ASSUME NEW a \in Nat, NEW b \in Nat
    PROVE  Max({a, b}) \in {a, b} /\ Max({a, b}) >= a /\ Max({a, b}) >= b
<1>1. \E x \in {a, b} : \A y \in {a, b} : x >= y
  BY a \in Nat, b \in Nat
<1> QED
  BY <1>1 DEF Max

LEMMA MsgType ==
    ASSUME NEW t \in {"PRE_PREPARE", "PREPARE", "COMMIT"}, NEW s \in Seqs,
           NEW q \in Requests, NEW r \in Replicas
    PROVE  Msg(t, s, q, r) \in Message
BY DEF Msg, Message

\* EnsureNextSeqAheadOfExecuted() leaves everything else alone.
LEMMA EnsureNextSeqType ==
    ASSUME TypeInv, NEW r \in Honest
    PROVE  /\ EnsureNextSeq(node[r]) \in Node
           /\ EnsureNextSeq(node[r]).next_seq >= node[r].next_seq
           /\ EnsureNextSeq(node[r]).next_seq > Len(node[r].ledger)
           /\ EnsureNextSeq(node[r]) = [node[r] EXCEPT !.next_seq = EnsureNextSeq(node[r]).next_seq]
<1>1. node[r] \in Node /\ Len(node[r].ledger) \in Nat /\ Len(node[r].ledger) <= MaxSeq
  BY DEF TypeInv, TypeOK, Node, Numbered
<1>2. node[r].next_seq \in 1..(MaxSeq + 1)
  BY <1>1 DEF Node
<1>3. Len(node[r].ledger) + 1 \in 1..(MaxSeq + 1)
  BY <1>1, PbftAssumption
<1>4. node[r].next_seq \in Nat /\ Len(node[r].ledger) + 1 \in Nat
  BY <1>1, <1>2, PbftAssumption
<1> DEFINE x == Max({node[r].next_seq, Len(node[r].ledger) + 1})
<1>5. x \in 1..(MaxSeq + 1) /\ x >= node[r].next_seq /\ x >= Len(node[r].ledger) + 1
  BY <1>2, <1>3, <1>4, MaxOfTwo
<1>6. EnsureNextSeq(node[r]) = [node[r] EXCEPT !.next_seq = x]
  BY DEF EnsureNextSeq, MaxExecuted
<1> HIDE DEF x
<1> QED
  BY SMTT(30), <1>1, <1>5, <1>6 DEF Node

\* Installing a view.
LEMMA InstallViewType ==
    ASSUME NEW p \in Node, NEW q \in Requests, NEW S \in SUBSET Replicas
    PROVE  /\ InstallView(p, q, S) \in Node
           /\ InstallView(p, q, S).primary = Proposer[q]
           /\ \A field \in {"next_seq", "asked", "proposed", "got", "status", "main", "ledger"} :
                 InstallView(p, q, S)[field] = p[field]
<1>1. Proposer[q] \in Replicas
  BY PbftAssumption
<1>2. [p.early EXCEPT ![q] = IF q \in p.views THEN @ ELSE S] \in [Requests -> SUBSET Replicas]
  BY DEF Node
<1> QED
  BY <1>1, <1>2 DEF InstallView, Node

LEMMA StrangersType ==
    ASSUME TypeOK, NEW q \in Requests
    PROVE  Strangers(q) \subseteq Replicas
BY DEF TypeOK, Strangers, Message

-----------------------------------------------------------------------------
(* Types *)

LEMMA TypeInvInit == Init => TypeInv
<1> SUFFICES ASSUME Init PROVE TypeInv
  OBVIOUS
<1>1. 1 \in 1..(MaxSeq + 1)
  BY PbftAssumption
<1>2. ASSUME NEW r \in Honest PROVE (CHOOSE p \in Replicas : TRUE) \in Replicas
  BY <1>2 DEF Honest
<1>3. node \in [Honest -> Node]
  BY <1>1, <1>2 DEF Init, Node
<1>4. /\ inbox \subseteq Honest \X Requests /\ msgs \subseteq Message
      /\ repeats \in BOOLEAN /\ unchecked \subseteq Message
  BY PbftAssumption DEF Init
<1>5. Numbered
  BY PbftAssumption DEF Init, Numbered
<1> QED
  BY <1>3, <1>4, <1>5 DEF TypeInv, TypeOK, Node

\* Fields that a step leaves alone, for Numbered.
LEMMA NumberedKept ==
    ASSUME TypeInv, node' \in [Honest -> Node],
           \A r \in Honest : /\ node'[r].status = node[r].status
                             /\ node'[r].main = node[r].main
                             /\ node'[r].ledger = node[r].ledger
    PROVE  Numbered'
BY DEF TypeInv, Numbered

LEMMA TypeTrigger ==
    ASSUME TypeInv, NEW r \in Honest, NEW q \in Requests, TriggerConsensus(r, q),
           UNCHANGED <<repeats, unchecked>>
    PROVE  TypeInv'
<1>1. r \in Replicas
  BY DEF Honest
<1> DEFINE e == EnsureNextSeq(node[r])
<1>2. e \in Node /\ e = [node[r] EXCEPT !.next_seq = e.next_seq]
  BY EnsureNextSeqType
<1>3. node' = [node EXCEPT ![r] = [e EXCEPT !.primary = r, !.asked = @ \cup {q}]]
  BY DEF TriggerConsensus
<1> HIDE DEF e
<1>4. node \in [Honest -> Node]
  BY DEF TypeInv, TypeOK, Node
<1>5. node' \in [Honest -> Node]
  <2>1. e \in Node
    BY <1>2
  <2>2. [e EXCEPT !.primary = r, !.asked = @ \cup {q}] \in Node
    BY <1>1, <2>1 DEF Node
  <2> QED
    BY <1>3, <1>4, <2>2
<1>6. ASSUME NEW x \in Honest
      PROVE  /\ node'[x].status = node[x].status /\ node'[x].main = node[x].main
             /\ node'[x].ledger = node[x].ledger
  BY <1>2, <1>3, <1>4 DEF Node
<1>7. Numbered'
  BY <1>5, <1>6, NumberedKept
<1>8. inbox' \subseteq Honest \X Requests /\ UNCHANGED <<msgs, repeats>>
  BY DEF TypeInv, TypeOK, TriggerConsensus
<1> QED
  BY <1>5, <1>7, <1>8 DEF TypeInv, TypeOK, Node

\* What a server does with a request from its input queue.
LEMMA TypeNewRequest ==
    ASSUME TypeInv, NEW r \in Honest, NEW q \in Requests, ProcessNewRequest(r, q),
           UNCHANGED <<repeats, unchecked>>
    PROVE  TypeInv'
<1> USE DEF Honest
<1>1. node \in [Honest -> Node] /\ node[r] \in Node /\ r \in Replicas
  BY DEF TypeInv, TypeOK, Node
<1>2. inbox' \subseteq Honest \X Requests
  <2>1. inbox \subseteq Honest \X Requests
    BY DEF TypeInv, TypeOK
  <2>2. \/ inbox' = inbox \ {<<r, q>>}
        \/ \E x \in Honest : inbox' = (inbox \ {<<r, q>>}) \cup {<<x, q>>}
    <3>1. inbox' = inbox \ {<<r, q>>}
          \/ inbox' = (inbox \ {<<r, q>>}) \cup
                (IF node[r].primary \in Honest THEN {<<node[r].primary, q>>} ELSE {})
      BY DEF ProcessNewRequest
    <3> QED
      BY <3>1
  <2> QED
    BY <2>1, <2>2
<1>3. CASE UNCHANGED <<node, msgs>>
  BY <1>2, <1>3 DEF TypeInv, TypeOK, Numbered
<1>4. ASSUME NEW S \in SUBSET Strangers(q),
             \/ /\ SeqAssigned(node[r])
                /\ node' = [node EXCEPT ![r] = [InstallView(node[r], q, S) EXCEPT
                               !.proposed = @ \cup {q}, !.next_seq = @ + 1]]
                /\ msgs' = msgs \cup {Msg("PRE_PREPARE", node[r].next_seq, q, r)}
             \/ /\ node' = [node EXCEPT ![r] = InstallView(node[r], q, S)]
                /\ UNCHANGED msgs
      PROVE  TypeInv'
  <2> DEFINE w == InstallView(node[r], q, S)
  <2>1. S \in SUBSET Replicas
    BY <1>4, StrangersType DEF TypeInv
  <2>2. /\ w \in Node /\ w.status = node[r].status /\ w.main = node[r].main
        /\ w.ledger = node[r].ledger /\ w.next_seq = node[r].next_seq
    BY <1>1, <2>1, InstallViewType
  <2> HIDE DEF w
  <2>3. CASE /\ SeqAssigned(node[r])
             /\ node' = [node EXCEPT ![r] = [w EXCEPT !.proposed = @ \cup {q}, !.next_seq = @ + 1]]
             /\ msgs' = msgs \cup {Msg("PRE_PREPARE", node[r].next_seq, q, r)}
    <3>1. node[r].next_seq \in Seqs /\ node[r].next_seq + 1 \in 1..(MaxSeq + 1)
      BY <1>1, <2>3, PbftAssumption DEF Node, SeqAssigned, Seqs
    <3>2. node' \in [Honest -> Node]
      BY <1>1, <2>2, <2>3, <3>1 DEF Node
    <3>3. msgs' \subseteq Message
      BY <1>1, <2>3, <3>1, MsgType DEF TypeInv, TypeOK
    <3>4. ASSUME NEW x \in Honest
          PROVE  /\ node'[x].status = node[x].status /\ node'[x].main = node[x].main
                 /\ node'[x].ledger = node[x].ledger
      BY <1>1, <2>2, <2>3 DEF Node
    <3>5. Numbered'
      BY <3>2, <3>4, NumberedKept
    <3> QED
      BY <1>2, <3>2, <3>3, <3>5 DEF TypeInv, TypeOK, Node
  <2>4. CASE node' = [node EXCEPT ![r] = w] /\ UNCHANGED msgs
    <3>1. node' \in [Honest -> Node]
      BY <1>1, <2>2, <2>4
    <3>2. ASSUME NEW x \in Honest
          PROVE  /\ node'[x].status = node[x].status /\ node'[x].main = node[x].main
                 /\ node'[x].ledger = node[x].ledger
      BY <1>1, <2>2, <2>4
    <3>3. Numbered'
      BY <3>1, <3>2, NumberedKept
    <3> QED
      BY <1>2, <2>4, <3>1, <3>3 DEF TypeInv, TypeOK, Node
  <2> QED
    BY <1>4, <2>3, <2>4 DEF w
<1> QED
  BY <1>3, <1>4 DEF ProcessNewRequest

\* What ProcessProposeMsg() leaves of the record of r: S is what was counted
\* before the view came, and the collector of m.seq may take m as its main.
Proposed(r, m, n) ==
    /\ n \in Node
    /\ n.asked = node[r].asked /\ n.next_seq = node[r].next_seq /\ n.ledger = node[r].ledger
    /\ n.got = node[r].got \cup {m}
    /\ \/ n.primary = node[r].primary
       \/ m.from # r /\ m.from = Proposer[m.hash] /\ n.primary = m.from
    /\ \/ n.main = node[r].main /\ n.status = node[r].status
       \/ /\ node[r].main[m.seq] = None /\ m.from = n.primary
          /\ m.from = r => n.primary = node[r].primary
          /\ m.from # r => m.from = Proposer[m.hash]
          /\ n.main = [node[r].main EXCEPT ![m.seq] = m.hash]
          /\ n.status = [node[r].status EXCEPT ![m.seq] = "READY_PREPARE"]

LEMMA ProposeStep ==
    ASSUME TypeInv, NEW r \in Honest, NEW m \in msgs, ProcessProposeMsg(r, m)
    PROVE  /\ m \in Message /\ m.type = "PRE_PREPARE" /\ inbox' = inbox
           /\ m \in node[r].got => m.from # r
           /\ msgs' \in {msgs, msgs \cup {Msg("PREPARE", m.seq, m.hash, r)}}
           /\ \E n \in Node : Proposed(r, m, n) /\ node' = [node EXCEPT ![r] = n]
<1>1. /\ m \in Message /\ m.hash \in Requests /\ m.seq \in Seqs /\ m.from \in Replicas
      /\ node[r] \in Node
  BY DEF TypeInv, TypeOK, Message, Node
<1>2. PICK S \in SUBSET Strangers(m.hash) :
        LET verified == m.from = Proposer[m.hash]
            p == IF m.from # r /\ verified THEN InstallView(node[r], m.hash, S) ELSE node[r]
            passed == /\ m.from = r \/ verified
                      /\ m.from = p.primary
                      /\ r \in Members[m.hash]
                      /\ m.from = r \/ m.hash \notin p.proposed
            first == p.main[m.seq] = None
            w == IF passed THEN [p EXCEPT !.proposed = @ \cup {m.hash}] ELSE p
            g == [w EXCEPT !.got = @ \cup {m}]
        IN  IF ~passed \/ ~Accepts(p, m.seq, m.hash, m.from)
            THEN node' = [node EXCEPT ![r] = g] /\ UNCHANGED msgs
            ELSE /\ node' = [node EXCEPT ![r] =
                        IF first THEN [g EXCEPT !.main[m.seq] = m.hash,
                                                !.status[m.seq] = "READY_PREPARE"]
                        ELSE g]
                 /\ msgs' = IF first \/ Committed(p, m.seq)
                            THEN msgs \cup {Msg("PREPARE", m.seq, m.hash, r)}
                            ELSE msgs
  BY DEF ProcessProposeMsg
<1> DEFINE verified == m.from = Proposer[m.hash]
           p == IF m.from # r /\ verified THEN InstallView(node[r], m.hash, S) ELSE node[r]
           passed == /\ m.from = r \/ verified
                     /\ m.from = p.primary
                     /\ r \in Members[m.hash]
                     /\ m.from = r \/ m.hash \notin p.proposed
           w == IF passed THEN [p EXCEPT !.proposed = @ \cup {m.hash}] ELSE p
           g == [w EXCEPT !.got = @ \cup {m}]
           h == [g EXCEPT !.main[m.seq] = m.hash, !.status[m.seq] = "READY_PREPARE"]
<1>3. S \in SUBSET Replicas
  BY StrangersType, <1>1 DEF TypeInv
<1>4. /\ p \in Node /\ p.asked = node[r].asked /\ p.next_seq = node[r].next_seq
      /\ p.ledger = node[r].ledger /\ p.got = node[r].got
      /\ p.main = node[r].main /\ p.status = node[r].status
      /\ \/ p.primary = node[r].primary
         \/ m.from # r /\ verified /\ p.primary = m.from
      /\ m.from = r => p.primary = node[r].primary
  BY <1>1, <1>3, InstallViewType
<1>5. /\ m \in node[r].got => m.from # r
      /\ m.type = "PRE_PREPARE" /\ inbox' = inbox
  BY DEF ProcessProposeMsg
<1>6. /\ passed => (m.from = r \/ verified) /\ m.from = p.primary
      /\ msgs' \in {msgs, msgs \cup {Msg("PREPARE", m.seq, m.hash, r)}}
      /\ \/ node' = [node EXCEPT ![r] = g]
         \/ passed /\ p.main[m.seq] = None /\ node' = [node EXCEPT ![r] = h]
  BY <1>2
<1> HIDE DEF p, passed
<1>7. g \in Node /\ Proposed(r, m, g)
  BY <1>1, <1>4 DEF Node, Proposed
<1>8. ASSUME passed, p.main[m.seq] = None
      PROVE  h \in Node /\ Proposed(r, m, h)
  BY ZenonT(60), <1>1, <1>4, <1>6, <1>8 DEF Node, Proposed
<1> QED
  BY <1>1, <1>5, <1>6, <1>7, <1>8

LEMMA TypePropose ==
    ASSUME TypeInv, NEW r \in Honest, NEW m \in msgs, ProcessProposeMsg(r, m),
           UNCHANGED <<repeats, unchecked>>
    PROVE  TypeInv'
<1>1. PICK n \in Node : Proposed(r, m, n) /\ node' = [node EXCEPT ![r] = n]
  BY ProposeStep
<1>2. /\ m \in Message /\ m.hash \in Requests /\ m.seq \in Seqs /\ r \in Replicas
      /\ inbox' = inbox
  BY ProposeStep DEF Message, Honest
<1>3. msgs' \subseteq Message
  <2>1. Msg("PREPARE", m.seq, m.hash, r) \in Message
    BY <1>2, MsgType
  <2> QED
    BY <2>1, ProposeStep DEF TypeInv, TypeOK
<1>4. node \in [Honest -> Node] /\ node' \in [Honest -> Node]
  BY <1>1 DEF TypeInv, TypeOK, Node
<1>5. Numbered'
  <2> SUFFICES ASSUME NEW x \in Honest
               PROVE  /\ \A s \in Seqs : node'[x].status[s] # "None" => node'[x].main[s] \in Requests
                      /\ Len(node'[x].ledger) <= MaxSeq
    BY DEF Numbered
  <2>1. CASE x # r
    BY <1>1, <1>4, <2>1 DEF TypeInv, Numbered
  <2>2. CASE x = r
    <3>1. node'[x] = n
      BY <1>1, <1>4, <2>2
    <3>2. Len(n.ledger) <= MaxSeq
      BY <1>1 DEF Proposed, TypeInv, Numbered
    <3>3. ASSUME NEW s \in Seqs, n.status[s] # "None" PROVE n.main[s] \in Requests
      <4>1. node[r].status[s] # "None" => node[r].main[s] \in Requests
        BY DEF TypeInv, Numbered
      <4>2. node[r].status \in [Seqs -> {"None", "READY_PREPARE", "READY_COMMIT", "EXECUTED"}]
            /\ node[r].main \in [Seqs -> Requests \cup {None}]
        BY <1>4 DEF Node
      <4> QED
        BY <1>1, <1>2, <3>3, <4>1, <4>2 DEF Proposed
    <3> QED
      BY <3>1, <3>2, <3>3
  <2> QED
    BY <2>1, <2>2
<1> QED
  BY <1>2, <1>3, <1>4, <1>5 DEF TypeInv, TypeOK, Node

\* The votes: the status of one number moves on, or a COMMIT is sent again.
Voting(r, s, q) ==
    /\ inbox' = inbox
    /\ msgs' \in {msgs, msgs \cup {Msg("COMMIT", s, q, r)}}
    /\ \/ node' = node
       \/ /\ node[r].status[s] # "None"
          /\ \E x \in {"READY_COMMIT", "EXECUTED"} : node' = [node EXCEPT ![r].status[s] = x]

LEMMA VotingStep ==
    ASSUME NEW r \in Honest, NEW s \in Seqs, NEW q \in Requests,
           ProcessPrepareMsg(r, s, q) \/ ProcessCommitMsg(r, s, q)
    PROVE  Voting(r, s, q)
<1>1. CASE ProcessPrepareMsg(r, s, q)
  <2>1. \/ node' = node
        \/ node[r].status[s] = "READY_PREPARE"
           /\ node' = [node EXCEPT ![r].status[s] = "READY_COMMIT"]
    BY <1>1 DEF ProcessPrepareMsg
  <2> QED
    BY <1>1, <2>1 DEF ProcessPrepareMsg, Voting
<1>2. CASE ProcessCommitMsg(r, s, q)
  BY <1>2 DEF ProcessCommitMsg, Voting
<1> QED
  BY <1>1, <1>2

LEMMA TypeVoting ==
    ASSUME TypeInv, NEW r \in Honest, NEW s \in Seqs, NEW q \in Requests, Voting(r, s, q),
           UNCHANGED <<repeats, unchecked>>
    PROVE  TypeInv'
<1>1. node \in [Honest -> Node] /\ r \in Replicas
  BY DEF TypeInv, TypeOK, Node, Honest
<1>2. msgs' \subseteq Message
  BY <1>1, MsgType DEF Voting, TypeInv, TypeOK
<1>3. node' \in [Honest -> Node]
  <2>1. CASE node' = node
    BY <1>1, <2>1
  <2>2. ASSUME NEW x \in {"READY_COMMIT", "EXECUTED"}, node' = [node EXCEPT ![r].status[s] = x]
        PROVE  node' \in [Honest -> Node]
    <3>1. [node[r] EXCEPT !.status[s] = x] \in Node
      BY <1>1 DEF Node
    <3> QED
      BY <1>1, <2>2, <3>1
  <2> QED
    BY <2>1, <2>2 DEF Voting
<1>4. ASSUME NEW x \in Honest
      PROVE  /\ node'[x].main = node[x].main /\ node'[x].ledger = node[x].ledger
             /\ \A i \in Seqs : node[x].status[i] = "None" => node'[x].status[i] = "None"
  <2>1. CASE node' = node
    BY <2>1
  <2>2. ASSUME NEW y \in {"READY_COMMIT", "EXECUTED"}, node[r].status[s] # "None",
               node' = [node EXCEPT ![r].status[s] = y]
        PROVE  /\ node'[x].main = node[x].main /\ node'[x].ledger = node[x].ledger
               /\ \A i \in Seqs : node[x].status[i] = "None" => node'[x].status[i] = "None"
    <3>1. CASE x # r
      BY <1>1, <2>2, <3>1
    <3>2. CASE x = r
      <4>1. node'[x] = [node[r] EXCEPT !.status = [node[r].status EXCEPT ![s] = y]]
        BY <1>1, <2>2, <3>2
      <4>2. node[r].status \in [Seqs -> {"None", "READY_PREPARE", "READY_COMMIT", "EXECUTED"}]
            /\ node[r] \in Node
        BY <1>1 DEF Node
      <4> QED
        BY <2>2, <3>2, <4>1, <4>2 DEF Node
    <3> QED
      BY <3>1, <3>2
  <2> QED
    BY <2>1, <2>2 DEF Voting
<1>5. Numbered'
  BY <1>4 DEF TypeInv, Numbered
<1> QED
  BY <1>2, <1>3, <1>5 DEF Voting, TypeInv, TypeOK, Node

LEMMA ExecuteStep ==
    ASSUME TypeInv, NEW r \in Honest, Execute(r)
    PROVE  /\ Len(node[r].ledger) + 1 \in Seqs
           /\ node[r].main[Len(node[r].ledger) + 1] \in Requests
           /\ node' = [node EXCEPT ![r].ledger =
                          Append(@, node[r].main[Len(node[r].ledger) + 1])]
           /\ UNCHANGED <<inbox, msgs>>
BY DEF Execute, MaxExecuted, Committed, TypeInv, Numbered

LEMMA TypeExecute ==
    ASSUME TypeInv, NEW r \in Honest, Execute(r), UNCHANGED <<repeats, unchecked>>
    PROVE  TypeInv'
<1>1. node \in [Honest -> Node] /\ node[r].ledger \in Seq(Requests)
  BY DEF TypeInv, TypeOK, Node
<1> DEFINE q == node[r].main[Len(node[r].ledger) + 1]
<1>2. /\ q \in Requests /\ Len(node[r].ledger) + 1 \in Seqs
      /\ node' = [node EXCEPT ![r].ledger = Append(@, q)]
      /\ UNCHANGED <<inbox, msgs>>
  BY ExecuteStep
<1> HIDE DEF q
<1>3. Append(node[r].ledger, q) \in Seq(Requests)
      /\ Len(Append(node[r].ledger, q)) = Len(node[r].ledger) + 1
  BY <1>1, <1>2
<1>4. [node[r] EXCEPT !.ledger = Append(node[r].ledger, q)] \in Node
  BY <1>1, <1>3 DEF Node
<1>5. node' \in [Honest -> Node]
  BY <1>1, <1>2, <1>4
<1>6. Numbered'
  <2> SUFFICES ASSUME NEW x \in Honest
               PROVE  /\ \A s \in Seqs : node'[x].status[s] # "None" => node'[x].main[s] \in Requests
                      /\ Len(node'[x].ledger) <= MaxSeq
    BY DEF Numbered
  <2>1. node'[x].status = node[x].status /\ node'[x].main = node[x].main
    BY <1>1, <1>2 DEF Node
  <2>2. CASE x # r
    BY <1>1, <1>2, <2>1, <2>2 DEF TypeInv, Numbered
  <2>3. CASE x = r
    <3>1. node'[x].ledger = Append(node[r].ledger, q)
      BY <1>1, <1>2, <2>3 DEF Node
    <3>2. Len(node'[x].ledger) <= MaxSeq
      BY <1>2, <1>3, <3>1, PbftAssumption DEF Seqs
    <3> QED
      BY <2>1, <3>2 DEF TypeInv, Numbered
  <2> QED
    BY <2>2, <2>3
<1> QED
  BY <1>2, <1>5, <1>6 DEF TypeInv, TypeOK, Node

LEMMA TypeInvNext == TypeInv /\ [Next]_vars => TypeInv'
<1> SUFFICES ASSUME TypeInv, [Next]_vars PROVE TypeInv'
  OBVIOUS
<1>1. CASE UNCHANGED vars
  BY <1>1 DEF vars, TypeInv, TypeOK, Numbered
<1>2. ASSUME NEW r \in Honest, Submit(r), UNCHANGED <<repeats, unchecked>> PROVE TypeInv'
  BY <1>2, TypeTrigger, TypeNewRequest DEF Submit
<1>3. ASSUME NEW r \in Honest, Receive(r), UNCHANGED <<repeats, unchecked>> PROVE TypeInv'
  BY <1>3, TypePropose, VotingStep, TypeVoting DEF Receive
<1>4. ASSUME NEW m \in Message, SendUnchecked(m) PROVE TypeInv'
  BY <1>4 DEF SendUnchecked, TypeInv, TypeOK, Numbered
<1> QED
  BY <1>1, <1>2, <1>3, <1>4, TypeExecute DEF Next

\* The servers, their input queues and the packets keep their domains.
THEOREM TypeCorrect == Spec => []TypeOK
<1>1. TypeInv => TypeOK
  BY DEF TypeInv
<1> QED
  BY <1>1, TypeInvInit, TypeInvNext, PTL DEF Spec

-----------------------------------------------------------------------------
(* Agreement *)

\* A faulty replica that led a request or voted under another name has done so for good.
LEMMA CheckedBefore ==
    /\ [Next]_vars /\ Checked' => UNCHANGED unchecked
    /\ [Next]_vars /\ Checked' => Checked
<1>1. [Next]_vars /\ Checked' => UNCHANGED unchecked
  BY DEF Next, vars, SendUnchecked, Checked
<1> QED
  BY <1>1 DEF Checked

\* Requests are proposed one after the other.
Chain == \A q1, q2 \in Requests : q1 # q2 => q1 \in After[q2] \/ q2 \in After[q1]

PrePrepares == {m \in msgs : m.type = "PRE_PREPARE"}
ByProposer(m) == m.from = Proposer[m.hash]

\* A request is submitted by its proposer, waits in one input queue, and is
\* given one number, although it may be sent on to another primary.
OneRoute ==
    /\ \A r \in Honest : \A q \in node[r].asked : r = Proposer[q]
    /\ \A t \in inbox : Proposer[t[2]] \in Honest /\ t[2] \in node[Proposer[t[2]]].asked
    /\ \A t \in inbox : \A m \in PrePrepares : m.hash # t[2]
    /\ \A t, u \in inbox : t[2] = u[2] => t = u
    /\ \A m \in PrePrepares : /\ m.from \in Honest /\ Proposer[m.hash] \in Honest
                             /\ m.hash \in node[Proposer[m.hash]].asked
    /\ \A m, n \in PrePrepares : m.hash = n.hash => m = n

\* What a collector holds was proposed for its number by the right vehicle.
Proposals ==
    \A r \in Honest : \A s \in Seqs :
        node[r].main[s] # None =>
            \E m \in PrePrepares : ByProposer(m) /\ m.seq = s /\ m.hash = node[r].main[s]

Executions ==
    \A r \in Honest : \A i \in 1..Len(node[r].ledger) :
        i \in Seqs /\ node[r].main[i] # None /\ node[r].ledger[i] = node[r].main[i]

\* Who has submitted a request counts past what the request follows.
Follows ==
    \A r \in Honest : \A q \in node[r].asked : \A p \in After[q] :
        /\ \E m \in PrePrepares : m.hash = p
        /\ \A m \in PrePrepares : m.hash = p => m.seq < node[r].next_seq

\* A request that was sent on is refused by its sender too.
Refused ==
    \A m \in PrePrepares :
        ~ByProposer(m) /\ m \notin node[m.from].got => node[m.from].primary # m.from

Ordered ==
    \A m, n \in PrePrepares :
        ByProposer(m) /\ ByProposer(n) /\ m.hash \in After[n.hash] => m.seq < n.seq

AgreeInv == TypeInv /\ OneRoute /\ Proposals /\ Executions /\ Follows /\ Refused /\ Ordered

LEMMA InvAgrees ==
    ASSUME Chain, AgreeInv
    PROVE  Agreement
<1> SUFFICES ASSUME NEW r1 \in Honest, NEW r2 \in Honest, NEW s \in Seqs,
                    Committed(node[r1], s), Committed(node[r2], s)
             PROVE  node[r1].main[s] = node[r2].main[s]
  BY DEF Agreement
<1>1. /\ node[r1].main[s] \in Requests /\ node[r2].main[s] \in Requests
      /\ node[r1].main[s] # None /\ node[r2].main[s] # None
  BY PbftAssumption DEF Committed, AgreeInv, TypeInv, Numbered
<1>2. PICK m \in PrePrepares : ByProposer(m) /\ m.seq = s /\ m.hash = node[r1].main[s]
  BY <1>1 DEF AgreeInv, Proposals
<1>3. PICK n \in PrePrepares : ByProposer(n) /\ n.seq = s /\ n.hash = node[r2].main[s]
  BY <1>1 DEF AgreeInv, Proposals
<1>4. s \in Nat
  BY PbftAssumption DEF Seqs
<1>5. m.hash \notin After[n.hash] /\ n.hash \notin After[m.hash]
  BY <1>2, <1>3, <1>4 DEF AgreeInv, Ordered
<1> QED
  BY <1>1, <1>2, <1>3, <1>5 DEF Chain

LEMMA AgreeInit == Init => AgreeInv
<1> SUFFICES ASSUME Init PROVE AgreeInv
  OBVIOUS
<1>1. PrePrepares = {}
  BY DEF Init, PrePrepares
<1>2. ASSUME NEW r \in Honest
      PROVE  /\ node[r].asked = {} /\ node[r].ledger = <<>>
             /\ \A s \in Seqs : node[r].main[s] = None
  BY DEF Init
<1>3. OneRoute /\ Proposals /\ Executions /\ Follows /\ Refused /\ Ordered
  BY <1>1, <1>2 DEF Init, OneRoute, Proposals, Executions, Follows, Refused, Ordered
<1> QED
  BY <1>3, TypeInvInit DEF AgreeInv

\* An executed request was proposed for its place by the right vehicle.
LEMMA ExecutedWasProposed ==
    ASSUME AgreeInv, NEW r \in Honest, NEW q \in Requests, q \in Range(node[r].ledger)
    PROVE  \E m \in PrePrepares : /\ ByProposer(m) /\ m.hash = q
                                  /\ m.seq <= Len(node[r].ledger)
<1>1. node[r].ledger \in Seq(Requests)
  BY DEF AgreeInv, TypeInv, TypeOK
<1>2. PICK i \in 1..Len(node[r].ledger) : node[r].ledger[i] = q
  BY <1>1 DEF Range
<1>3. i \in Seqs /\ node[r].main[i] = q /\ node[r].main[i] # None
  BY <1>2 DEF AgreeInv, Executions
<1>4. PICK m \in PrePrepares : ByProposer(m) /\ m.seq = i /\ m.hash = q
  BY <1>3 DEF AgreeInv, Proposals
<1> QED
  BY <1>1, <1>2, <1>4

\* A step that proposes nothing.
LEMMA RouteKept ==
    ASSUME AgreeInv, inbox' = inbox, PrePrepares' = PrePrepares,
           \A r \in Honest : /\ node'[r].asked = node[r].asked
                             /\ node'[r].next_seq = node[r].next_seq
    PROVE  OneRoute' /\ Follows' /\ Ordered'
<1>1. OneRoute'
  BY DEF AgreeInv, OneRoute
<1>2. Follows' /\ Ordered'
  BY DEF AgreeInv, Follows, Ordered, ByProposer
<1> QED
  BY <1>1, <1>2

LEMMA VotingAgrees ==
    ASSUME AgreeInv, NEW r \in Honest, NEW s \in Seqs, NEW q \in Requests, Voting(r, s, q),
           UNCHANGED <<repeats, unchecked>>
    PROVE  AgreeInv'
<1>1. PrePrepares' = PrePrepares /\ inbox' = inbox
  BY DEF Voting, PrePrepares, Msg
<1>2. node \in [Honest -> Node]
  BY DEF AgreeInv, TypeInv, TypeOK, Node
<1>3. ASSUME NEW x \in Honest
      PROVE  /\ node'[x].asked = node[x].asked /\ node'[x].next_seq = node[x].next_seq
             /\ node'[x].main = node[x].main /\ node'[x].ledger = node[x].ledger
             /\ node'[x].got = node[x].got /\ node'[x].primary = node[x].primary
  <2>1. CASE node' = node
    BY <2>1
  <2>2. ASSUME NEW y, node' = [node EXCEPT ![r].status[s] = y]
        PROVE  \E st : node'[x] = IF x = r THEN [node[x] EXCEPT !.status = st] ELSE node[x]
    BY <1>2, <2>2
  <2>3. node[x] \in Node
    BY <1>2
  <2> QED
    BY <2>1, <2>2, <2>3 DEF Voting, Node
<1>4. \A m \in PrePrepares : m.from \in Honest
  BY DEF AgreeInv, OneRoute
<1>5. Proposals' /\ Executions' /\ Refused'
  BY <1>1, <1>3, <1>4 DEF AgreeInv, Proposals, Executions, Refused, ByProposer
<1> QED
  BY <1>1, <1>3, <1>5, RouteKept, TypeVoting DEF AgreeInv

LEMMA ExecuteAgrees ==
    ASSUME AgreeInv, NEW r \in Honest, Execute(r), UNCHANGED <<repeats, unchecked>>
    PROVE  AgreeInv'
<1>1. node \in [Honest -> Node] /\ node[r].ledger \in Seq(Requests)
  BY DEF AgreeInv, TypeInv, TypeOK, Node
<1> DEFINE q == node[r].main[Len(node[r].ledger) + 1]
<1>2. /\ q \in Requests /\ q # None /\ Len(node[r].ledger) + 1 \in Seqs
      /\ node' = [node EXCEPT ![r].ledger = Append(@, q)]
      /\ UNCHANGED <<inbox, msgs>>
  BY ExecuteStep, PbftAssumption DEF AgreeInv
<1>3. PrePrepares' = PrePrepares
  BY <1>2 DEF PrePrepares
<1>4. ASSUME NEW x \in Honest
      PROVE  /\ node'[x].asked = node[x].asked /\ node'[x].next_seq = node[x].next_seq
             /\ node'[x].main = node[x].main
             /\ x # r => node'[x].ledger = node[x].ledger
             /\ node'[x].got = node[x].got /\ node'[x].primary = node[x].primary
  BY <1>1, <1>2 DEF Node
<1>5. node'[r].ledger = Append(node[r].ledger, q)
  BY <1>1, <1>2 DEF Node
<1>6. Executions'
  <2> SUFFICES ASSUME NEW x \in Honest, NEW i \in 1..Len(node'[x].ledger)
               PROVE  /\ i \in Seqs /\ node'[x].main[i] # None
                      /\ node'[x].ledger[i] = node'[x].main[i]
    BY DEF Executions
  <2>1. CASE x # r
    BY <1>4, <2>1 DEF AgreeInv, Executions
  <2>2. CASE x = r /\ i <= Len(node[r].ledger)
    <3>1. i \in 1..Len(node[r].ledger)
      BY <1>1, <2>2
    <3>2. Append(node[r].ledger, q)[i] = node[r].ledger[i]
      BY <1>1, <1>2, <3>1
    <3> QED
      BY <1>4, <1>5, <2>2, <3>1, <3>2 DEF AgreeInv, Executions
  <2>3. CASE x = r /\ i = Len(node[r].ledger) + 1
    <3>1. Append(node[r].ledger, q)[i] = q
      BY <1>1, <1>2, <2>3
    <3> QED
      BY <1>2, <1>4, <1>5, <2>3, <3>1 DEF q
  <2> QED
    BY <1>1, <1>2, <1>5, <2>1, <2>2, <2>3
<1>7. \A m \in PrePrepares : m.from \in Honest
  BY DEF AgreeInv, OneRoute
<1>8. Proposals' /\ Refused'
  BY <1>3, <1>4, <1>7 DEF AgreeInv, Proposals, Refused, ByProposer
<1> QED
  BY <1>2, <1>3, <1>4, <1>6, <1>8, RouteKept, TypeExecute DEF AgreeInv

LEMMA ProposeAgrees ==
    ASSUME AgreeInv, NEW r \in Honest, NEW m \in msgs, ProcessProposeMsg(r, m),
           UNCHANGED <<repeats, unchecked>>
    PROVE  AgreeInv'
<1>1. PICK n \in Node : Proposed(r, m, n) /\ node' = [node EXCEPT ![r] = n]
  BY ProposeStep DEF AgreeInv
<1>2. /\ m \in PrePrepares /\ m.seq \in Seqs /\ m.hash \in Requests
      /\ m \in node[r].got => m.from # r
      /\ inbox' = inbox
  BY ProposeStep DEF AgreeInv, PrePrepares, Message
<1>3. PrePrepares' = PrePrepares
  BY ProposeStep DEF AgreeInv, PrePrepares, Msg
<1>4. node \in [Honest -> Node]
  BY DEF AgreeInv, TypeInv, TypeOK, Node
<1>5. ASSUME NEW x \in Honest
      PROVE  node'[x] = IF x = r THEN n ELSE node[x]
  BY <1>1, <1>4
<1>6. n.main = node[r].main \/ ( /\ node[r].main[m.seq] = None /\ ByProposer(m)
                                /\ n.main = [node[r].main EXCEPT ![m.seq] = m.hash])
  <2>1. CASE m.from = r /\ m.from = n.primary /\ n.primary = node[r].primary
    BY <1>1, <1>2, <2>1 DEF AgreeInv, Refused, Proposed
  <2>2. CASE m.from # r
    BY <1>1, <2>2 DEF Proposed, ByProposer
  <2> QED
    BY <1>1, <2>1, <2>2 DEF Proposed
<1>7. node[r].main \in [Seqs -> Requests \cup {None}]
  BY <1>4 DEF Node
<1>8. Proposals'
  <2>1. \A s \in Seqs : n.main[s] # None =>
            \E x \in PrePrepares : ByProposer(x) /\ x.seq = s /\ x.hash = n.main[s]
    BY <1>2, <1>6, <1>7 DEF AgreeInv, Proposals
  <2> QED
    BY <1>3, <1>5, <2>1 DEF AgreeInv, Proposals, ByProposer
<1>9. Executions'
  <2>1. n.ledger = node[r].ledger
    BY <1>1 DEF Proposed
  <2>2. \A i \in 1..Len(n.ledger) : i \in Seqs /\ n.main[i] # None /\ n.ledger[i] = n.main[i]
    BY <1>6, <1>7, <2>1 DEF AgreeInv, Executions
  <2> QED
    BY <1>5, <2>2 DEF AgreeInv, Executions
<1>10. Refused'
  <2> SUFFICES ASSUME NEW x \in PrePrepares, ~ByProposer(x), x \notin node'[x.from].got
               PROVE  node'[x.from].primary # x.from
    BY <1>3 DEF Refused, ByProposer
  <2>1. x.from \in Honest
    BY DEF AgreeInv, OneRoute
  <2>2. CASE x.from # r
    BY <1>5, <2>1, <2>2 DEF AgreeInv, Refused
  <2>3. CASE x.from = r
    <3>1. x \notin node[r].got
      BY <1>1, <1>5, <2>3 DEF Proposed
    <3>2. node[r].primary # r
      BY <2>3, <3>1 DEF AgreeInv, Refused
    <3> QED
      BY <1>1, <1>5, <2>3, <3>2 DEF Proposed
  <2> QED
    BY <2>2, <2>3
<1>11. \A x \in Honest : node'[x].asked = node[x].asked /\ node'[x].next_seq = node[x].next_seq
  BY <1>1, <1>5 DEF Proposed
<1> QED
  BY <1>2, <1>3, <1>8, <1>9, <1>10, <1>11, RouteKept, TypePropose DEF AgreeInv

\* Who is about to submit q has refused, or accepted, all it sent on before.
LEMMA NothingSentOn ==
    ASSUME Chain, AgreeInv, NEW q \in Requests, NEW r \in Honest, r = Proposer[q],
           q \notin node[r].asked, After[q] \subseteq Range(node[r].ledger),
           NEW m \in PrePrepares, m.from = r
    PROVE  ByProposer(m)
<1> SUFFICES ASSUME ~ByProposer(m) PROVE FALSE
  OBVIOUS
<1>1. m.hash \in Requests /\ m.hash # q
  BY DEF AgreeInv, TypeInv, TypeOK, PrePrepares, Message, ByProposer
<1>2. CASE m.hash \in After[q]
  <2>1. PICK n \in PrePrepares : ByProposer(n) /\ n.hash = m.hash
    BY <1>1, <1>2, ExecutedWasProposed
  <2> QED
    BY <2>1 DEF AgreeInv, OneRoute
<1>3. CASE q \in After[m.hash]
  <2>1. m.hash \in node[Proposer[m.hash]].asked /\ Proposer[m.hash] \in Honest
    BY DEF AgreeInv, OneRoute
  <2>2. PICK n \in PrePrepares : n.hash = q
    BY <1>3, <2>1 DEF AgreeInv, Follows
  <2> QED
    BY <2>2 DEF AgreeInv, OneRoute
<1> QED
  BY <1>1, <1>2, <1>3 DEF Chain

LEMMA TriggerAgrees ==
    ASSUME Chain, AgreeInv, NEW r \in Honest, NEW q \in Requests, TriggerConsensus(r, q),
           UNCHANGED <<repeats, unchecked>>
    PROVE  AgreeInv'
<1> DEFINE e == EnsureNextSeq(node[r])
<1>1. /\ e.next_seq >= node[r].next_seq /\ e.next_seq > Len(node[r].ledger)
      /\ e \in Node /\ e = [node[r] EXCEPT !.next_seq = e.next_seq]
  BY EnsureNextSeqType DEF AgreeInv
<1>2. node' = [node EXCEPT ![r] = [e EXCEPT !.primary = r, !.asked = @ \cup {q}]]
  BY DEF TriggerConsensus
<1>3. /\ r = Proposer[q] /\ q \notin node[r].asked /\ After[q] \subseteq Range(node[r].ledger)
      /\ inbox' = inbox \cup {<<r, q>>} /\ PrePrepares' = PrePrepares
  BY DEF TriggerConsensus, PrePrepares
<1> HIDE DEF e
<1>4. node \in [Honest -> Node]
  BY DEF AgreeInv, TypeInv, TypeOK, Node
<1>5. /\ node'[r].asked = node[r].asked \cup {q} /\ node'[r].primary = r
      /\ node'[r].next_seq = e.next_seq
  BY <1>1, <1>2, <1>4 DEF Node
<1>6. ASSUME NEW x \in Honest
      PROVE  /\ node'[x].main = node[x].main /\ node'[x].ledger = node[x].ledger
             /\ node'[x].got = node[x].got
             /\ x # r => node'[x] = node[x]
  <2>1. CASE x # r
    BY <1>2, <1>4, <2>1
  <2>2. CASE x = r
    <3>1. node'[r] = [e EXCEPT !.primary = r, !.asked = @ \cup {q}]
      BY <1>2, <1>4
    <3> QED
      BY <1>1, <1>4, <2>2, <3>1 DEF Node
  <2> QED
    BY <2>1, <2>2
<1>7. /\ \A m \in PrePrepares : /\ m.from \in Honest /\ m.hash \in Requests /\ m.seq \in Nat
                               /\ Proposer[m.hash] \in Honest
      /\ \A t \in inbox : t[2] \in Requests /\ Proposer[t[2]] \in Honest
  BY PbftAssumption DEF AgreeInv, OneRoute, TypeInv, TypeOK, PrePrepares, Message, Honest, Seqs
<1>8. OneRoute'
  <2>1. \A x \in Honest : \A p \in node'[x].asked : x = Proposer[p]
    BY <1>3, <1>5, <1>6 DEF AgreeInv, OneRoute
  <2>2. \A t \in inbox' : Proposer[t[2]] \in Honest /\ t[2] \in node'[Proposer[t[2]]].asked
    BY <1>3, <1>5, <1>6, <1>7 DEF AgreeInv, OneRoute
  <2>3. \A m \in PrePrepares : /\ m.from \in Honest /\ Proposer[m.hash] \in Honest
                              /\ m.hash \in node'[Proposer[m.hash]].asked
    BY <1>5, <1>6, <1>7 DEF AgreeInv, OneRoute
  <2>4. \A m \in PrePrepares : m.hash # q
    BY <1>3 DEF AgreeInv, OneRoute
  <2>5. \A t \in inbox : t[2] # q
    BY <1>3 DEF AgreeInv, OneRoute
  <2>6. \A t \in inbox' : \A m \in PrePrepares : m.hash # t[2]
    BY <1>3, <2>4 DEF AgreeInv, OneRoute
  <2>7. \A t, u \in inbox' : t[2] = u[2] => t = u
    BY <1>3, <2>5 DEF AgreeInv, OneRoute
  <2>8. \A m, n \in PrePrepares : m.hash = n.hash => m = n
    BY DEF AgreeInv, OneRoute
  <2> QED
    BY <1>3, <2>1, <2>2, <2>3, <2>6, <2>7, <2>8 DEF OneRoute
<1>9. Follows'
  <2> SUFFICES ASSUME NEW x \in Honest, NEW p \in node'[x].asked, NEW o \in After[p]
               PROVE  /\ \E m \in PrePrepares : m.hash = o
                      /\ \A m \in PrePrepares : m.hash = o => m.seq < node'[x].next_seq
    BY <1>3 DEF Follows
  <2>1. CASE x = r /\ p = q
    <3>1. o \in Requests /\ o \in Range(node[r].ledger)
      BY <1>3, <2>1, PbftAssumption
    <3>2. PICK m \in PrePrepares : m.hash = o /\ m.seq <= Len(node[r].ledger)
      BY <3>1, ExecutedWasProposed
    <3>3. m.seq < e.next_seq
      BY <1>1, <1>4, <1>7, <3>2 DEF Node
    <3> QED
      BY <1>5, <2>1, <3>2, <3>3 DEF AgreeInv, OneRoute
  <2>2. CASE x = r /\ p \in node[r].asked
    <3>1. e.next_seq \in Nat /\ node[r].next_seq \in Nat
      BY <1>1, <1>4, PbftAssumption DEF Node
    <3> QED
      BY <1>1, <1>5, <1>7, <2>2, <3>1 DEF AgreeInv, Follows
  <2>3. CASE x # r
    BY <1>6, <2>3 DEF AgreeInv, Follows
  <2> QED
    BY <1>5, <2>1, <2>2, <2>3
<1>10. Refused'
  <2>1. ASSUME NEW m \in PrePrepares, ~ByProposer(m), m \notin node'[m.from].got
        PROVE  node'[m.from].primary # m.from
    <3>1. m.from # r
      BY <1>3, <2>1, NothingSentOn
    <3> QED
      BY <1>6, <1>7, <2>1, <3>1 DEF AgreeInv, Refused
  <2> QED
    BY <1>3, <2>1 DEF Refused, ByProposer
<1>11. Proposals' /\ Executions' /\ Ordered'
  BY <1>3, <1>6 DEF AgreeInv, Proposals, Executions, Ordered, ByProposer
<1> QED
  BY <1>8, <1>9, <1>10, <1>11, TypeTrigger DEF AgreeInv

\* A request leaves the input queue of r, and r is the primary of it.
LEMMA NewRequestAgrees ==
    ASSUME AgreeInv, NEW r \in Honest, NEW q \in Requests, ProcessNewRequest(r, q),
           UNCHANGED <<repeats, unchecked>>
    PROVE  AgreeInv'
<1>1. node \in [Honest -> Node]
  BY DEF AgreeInv, TypeInv, TypeOK, Node
<1>2. /\ \A m \in PrePrepares : /\ m.from \in Honest /\ m.hash \in Requests /\ m.seq \in Nat
                               /\ Proposer[m.hash] \in Honest
      /\ \A t \in inbox : /\ t[2] \in Requests /\ <<t[1], t[2]>> = t
                         /\ Proposer[t[2]] \in Honest
  BY PbftAssumption DEF AgreeInv, OneRoute, TypeInv, TypeOK, PrePrepares, Message, Honest, Seqs
<1>3. /\ <<r, q>> \in inbox /\ Proposer[q] \in Honest /\ q \in node[Proposer[q]].asked
      /\ \A m \in PrePrepares : m.hash # q
      /\ \A t \in inbox : t[2] = q => t = <<r, q>>
  BY ZenonT(60) DEF ProcessNewRequest, AgreeInv, OneRoute
<1>4. TypeInv'
  BY TypeNewRequest DEF AgreeInv
<1>5. CASE UNCHANGED <<node, msgs>>
  <2>1. \/ inbox' = inbox \ {<<r, q>>}
        \/ \E x \in Honest : inbox' = (inbox \ {<<r, q>>}) \cup {<<x, q>>}
    <3>1. inbox' = inbox \ {<<r, q>>}
          \/ inbox' = (inbox \ {<<r, q>>}) \cup
                (IF node[r].primary \in Honest THEN {<<node[r].primary, q>>} ELSE {})
      BY DEF ProcessNewRequest
    <3> QED
      BY <3>1
  <2>2. PrePrepares' = PrePrepares
    BY <1>5 DEF PrePrepares
  <2>3. \A t \in inbox' : t \in inbox \/ t[2] = q
    BY <2>1
  <2>4. \A t, u \in inbox' : t[2] = u[2] => t = u
    BY <1>3, <2>1 DEF AgreeInv, OneRoute
  <2>5. OneRoute'
    BY <1>3, <1>5, <2>2, <2>3, <2>4 DEF AgreeInv, OneRoute
  <2>6. Proposals' /\ Executions' /\ Follows' /\ Refused' /\ Ordered'
    BY <1>5, <2>2 DEF AgreeInv, Proposals, Executions, Follows, Refused, Ordered, ByProposer
  <2> QED
    BY <1>4, <2>5, <2>6 DEF AgreeInv
<1>6. ASSUME NEW S \in SUBSET Strangers(q), NEW M,
             node[r].primary = r, inbox' = inbox \ {<<r, q>>}, PrePrepares' = PrePrepares \cup M,
             \/ /\ M = {} /\ node' = [node EXCEPT ![r] = InstallView(node[r], q, S)]
             \/ /\ M = {Msg("PRE_PREPARE", node[r].next_seq, q, r)}
                /\ node' = [node EXCEPT ![r] = [InstallView(node[r], q, S) EXCEPT
                               !.proposed = @ \cup {q}, !.next_seq = @ + 1]]
      PROVE  AgreeInv'
  <2> DEFINE w == InstallView(node[r], q, S)
  <2>1. S \in SUBSET Replicas
    BY <1>6, StrangersType DEF AgreeInv, TypeInv
  <2>2. /\ w \in Node /\ w.main = node[r].main /\ w.ledger = node[r].ledger
        /\ w.got = node[r].got /\ w.asked = node[r].asked
        /\ w.next_seq = node[r].next_seq /\ w.primary = Proposer[q]
    BY <1>1, <2>1, InstallViewType
  <2>3. node[r].next_seq \in Nat
    BY <1>1, PbftAssumption DEF Node
  <2> HIDE DEF w
  <2>4. ASSUME NEW x \in Honest
        PROVE  /\ node'[x].main = node[x].main /\ node'[x].ledger = node[x].ledger
               /\ node'[x].got = node[x].got /\ node'[x].asked = node[x].asked
               /\ x # r => node'[x] = node[x]
               /\ node'[x].next_seq >= node[x].next_seq
               /\ x = r => node'[x].primary = Proposer[q]
    <3>1. CASE x # r
      <4>1. node'[x] = node[x] /\ node[x].next_seq \in Nat
        BY <1>1, <1>6, <3>1, PbftAssumption DEF Node
      <4> QED
        BY <3>1, <4>1
    <3>2. CASE x = r /\ node' = [node EXCEPT ![r] = w]
      <4>1. node'[x] = w
        BY <1>1, <3>2
      <4> QED
        BY <2>2, <2>3, <3>2, <4>1
    <3>3. CASE x = r /\ node' = [node EXCEPT ![r] = [w EXCEPT !.proposed = @ \cup {q},
                                                           !.next_seq = @ + 1]]
      <4>1. node'[x] = [w EXCEPT !.proposed = @ \cup {q}, !.next_seq = @ + 1]
        BY <1>1, <3>3
      <4>2. /\ node'[x].main = w.main /\ node'[x].ledger = w.ledger /\ node'[x].got = w.got
            /\ node'[x].asked = w.asked /\ node'[x].primary = w.primary
            /\ node'[x].next_seq = w.next_seq + 1
        BY <2>2, <4>1 DEF Node
      <4> QED
        BY <2>2, <2>3, <3>3, <4>2
    <3> QED
      BY <1>6, <3>1, <3>2, <3>3 DEF w
  <2>5. ASSUME NEW m \in M
        PROVE  m.hash = q /\ m.from = r /\ m.seq = node[r].next_seq /\ m = Msg("PRE_PREPARE", node[r].next_seq, q, r)
    BY <1>6 DEF Msg
  <2>6. ASSUME NEW x \in Honest, NEW p \in node[x].asked
        PROVE  q \notin After[p]
    BY <1>3, <2>6 DEF AgreeInv, Follows
  <2>7. OneRoute'
    <3>1. \A x \in Honest : \A p \in node'[x].asked : x = Proposer[p]
      BY <2>4 DEF AgreeInv, OneRoute
    <3>2. \A t \in inbox' : Proposer[t[2]] \in Honest /\ t[2] \in node'[Proposer[t[2]]].asked
      BY <1>2, <1>6, <2>4 DEF AgreeInv, OneRoute
    <3>3. \A m \in PrePrepares' : /\ m.from \in Honest /\ Proposer[m.hash] \in Honest
                                 /\ m.hash \in node'[Proposer[m.hash]].asked
      BY <1>2, <1>3, <1>6, <2>4, <2>5 DEF AgreeInv, OneRoute
    <3>4. \A t \in inbox' : \A m \in PrePrepares' : m.hash # t[2]
      BY <1>3, <1>6, <2>5 DEF AgreeInv, OneRoute
    <3>5. \A t, u \in inbox' : t[2] = u[2] => t = u
      BY <1>6 DEF AgreeInv, OneRoute
    <3>6. \A m, n \in PrePrepares' : m.hash = n.hash => m = n
      BY <1>3, <1>6, <2>5 DEF AgreeInv, OneRoute
    <3> QED
      BY <3>1, <3>2, <3>3, <3>4, <3>5, <3>6 DEF OneRoute
  <2>8. Proposals' /\ Executions'
    BY <1>6, <2>4 DEF AgreeInv, Proposals, Executions, ByProposer
  <2>9. Follows'
    <3> SUFFICES ASSUME NEW x \in Honest, NEW p \in node'[x].asked, NEW o \in After[p]
                 PROVE  /\ \E m \in PrePrepares' : m.hash = o
                        /\ \A m \in PrePrepares' : m.hash = o => m.seq < node'[x].next_seq
      BY DEF Follows
    <3>1. p \in node[x].asked /\ node'[x].next_seq >= node[x].next_seq
      BY <2>4
    <3>2. node[x].next_seq \in Nat /\ node'[x].next_seq \in Nat
      BY <1>1, <1>4, PbftAssumption DEF Node, TypeInv, TypeOK
    <3>3. o # q
      BY <2>6, <3>1
    <3> QED
      BY <1>2, <1>6, <2>5, <3>1, <3>2, <3>3 DEF AgreeInv, Follows
  <2>10. Refused'
    <3> SUFFICES ASSUME NEW m \in PrePrepares', ~ByProposer(m), m \notin node'[m.from].got
                 PROVE  node'[m.from].primary # m.from
      BY DEF Refused, ByProposer
    <3>1. CASE m \in M
      BY <2>4, <2>5, <3>1 DEF ByProposer
    <3>2. CASE m \in PrePrepares
      <4>1. node[m.from].primary # m.from /\ m.from # r
        BY <1>2, <1>6, <2>4, <3>2 DEF AgreeInv, Refused
      <4> QED
        BY <1>2, <2>4, <3>2, <4>1
    <3> QED
      BY <1>6, <3>1, <3>2
  <2>11. Ordered'
    <3> SUFFICES ASSUME NEW m \in PrePrepares', NEW n \in PrePrepares',
                        ByProposer(m), ByProposer(n), m.hash \in After[n.hash]
                 PROVE  m.seq < n.seq
      BY DEF Ordered, ByProposer
    <3>1. n.from \in Honest /\ n.hash \in node[n.from].asked
      BY <1>2, <1>3, <1>6, <2>5 DEF AgreeInv, OneRoute, ByProposer
    <3>2. m.hash # q
      BY <2>6, <3>1
    <3>3. m \in PrePrepares
      BY <1>6, <2>5, <3>2
    <3>4. CASE n \in PrePrepares
      BY <3>3, <3>4 DEF AgreeInv, Ordered
    <3>5. CASE n \in M
      BY <2>5, <3>1, <3>3, <3>5 DEF AgreeInv, Follows
    <3> QED
      BY <1>6, <3>4, <3>5
  <2> QED
    BY <1>4, <2>7, <2>8, <2>9, <2>10, <2>11 DEF AgreeInv
<1>7. CASE ~UNCHANGED <<node, msgs>>
  <2>1. PICK S \in SUBSET Strangers(q) :
           \/ /\ node' = [node EXCEPT ![r] = [InstallView(node[r], q, S) EXCEPT
                               !.proposed = @ \cup {q}, !.next_seq = @ + 1]]
              /\ msgs' = msgs \cup {Msg("PRE_PREPARE", node[r].next_seq, q, r)}
           \/ node' = [node EXCEPT ![r] = InstallView(node[r], q, S)] /\ UNCHANGED msgs
    BY <1>7 DEF ProcessNewRequest
  <2>2. node[r].primary = r /\ inbox' = inbox \ {<<r, q>>}
    BY <1>7 DEF ProcessNewRequest
  <2>3. CASE msgs' = msgs \cup {Msg("PRE_PREPARE", node[r].next_seq, q, r)}
             /\ node' = [node EXCEPT ![r] = [InstallView(node[r], q, S) EXCEPT
                               !.proposed = @ \cup {q}, !.next_seq = @ + 1]]
    <3>1. PrePrepares' = PrePrepares \cup {Msg("PRE_PREPARE", node[r].next_seq, q, r)}
      BY <2>3 DEF PrePrepares, Msg
    <3> QED
      BY <1>6, <2>2, <2>3, <3>1
  <2>4. CASE node' = [node EXCEPT ![r] = InstallView(node[r], q, S)] /\ UNCHANGED msgs
    <3>1. PrePrepares' = PrePrepares \cup {}
      BY <2>4 DEF PrePrepares
    <3> QED
      BY <1>6, <2>2, <2>4, <3>1
  <2> QED
    BY <2>1, <2>3, <2>4
<1> QED
  BY <1>5, <1>7

LEMMA AgreeNext ==
    ASSUME Chain
    PROVE  AgreeInv /\ Checked' /\ [Next]_vars => AgreeInv'
<1> SUFFICES ASSUME AgreeInv, Checked', [Next]_vars PROVE AgreeInv'
  OBVIOUS
<1>1. CASE UNCHANGED vars
  <2>1. PrePrepares' = PrePrepares /\ TypeInv'
    BY <1>1, TypeInvNext DEF vars, PrePrepares, AgreeInv
  <2> QED
    BY <1>1, <2>1 DEF vars, AgreeInv, OneRoute, Proposals, Executions, Follows, Refused, Ordered,
                      ByProposer
<1>2. ASSUME NEW r \in Honest, Submit(r), UNCHANGED <<repeats, unchecked>> PROVE AgreeInv'
  BY <1>2, TriggerAgrees, NewRequestAgrees DEF Submit
<1>3. ASSUME NEW r \in Honest, Receive(r), UNCHANGED <<repeats, unchecked>> PROVE AgreeInv'
  BY <1>3, ProposeAgrees, VotingStep, VotingAgrees DEF Receive
<1>4. ASSUME NEW m \in Message, SendUnchecked(m) PROVE FALSE
  BY <1>4 DEF SendUnchecked, Checked
<1> QED
  BY <1>1, <1>2, <1>3, <1>4, ExecuteAgrees DEF Next

\* So it holds in every execution, as long as only vehicles that run the code propose.
LEMMA AgreeInvariant ==
    ASSUME Chain
    PROVE  Spec => [](Checked => AgreeInv)
<1>1. Init => (Checked => AgreeInv)
  BY AgreeInit
<1>2. (Checked => AgreeInv) /\ [Next]_vars => (Checked => AgreeInv)'
  BY CheckedBefore, AgreeNext
<1> QED
  BY <1>1, <1>2, PTL DEF Spec

\* Where every request waits until what was proposed before it has executed
\* at its proposer, no two servers commit different requests at a number,
\* whatever is repeated or sent on and however faulty replicas vote under
\* their own names. Two hypotheses: Chain, and Checked, which is in Agreement:
\* no faulty replica has led a request or spoken under another name. The code
\* does not enforce the second (ResDBTransport.cc:704, resdb_omnet_bridge.cc:
\* 1200), and the argument, not by quorums, cannot do without it.
THEOREM AgreementOnChain ==
    ASSUME Chain
    PROVE  Spec => []Agreement
<1>1. (Checked => AgreeInv) => Agreement
  BY InvAgrees DEF Agreement
<1> QED
  BY <1>1, AgreeInvariant, PTL

-----------------------------------------------------------------------------
(* Quorums of members *)

\* No more than f vehicles are faulty, and no view leaves one of them out: a vote of a
\* vehicle outside the view counts when it precedes the view (configuration early_vote).
FaultyAreMembers ==
    /\ Cardinality(Faulty) <= tolerated_f
    /\ \A q \in Requests : Faulty \subseteq Members[q]

\* The proposer of q has given it number s.
IsProposed(s, q) == \E m \in PrePrepares : ByProposer(m) /\ m.seq = s /\ m.hash = q

\* A quorum of the members of q has voted for it at s.
Quorum(t, s, q) == Cardinality(Cast(t, s, q)) >= BftQuorumSize(Cardinality(Members[q]))

\* A server has the view of what it proposes and of what its collectors hold.
ViewsAreThere ==
    /\ \A m \in PrePrepares : m.hash \in node[m.from].views
    /\ \A r \in Honest : \A s \in Seqs : node[r].main[s] # None =>
          node[r].main[s] \in node[r].views /\ r \in Members[node[r].main[s]]

\* Members prepare what was proposed. A server sends a COMMIT for what was proposed, or for
\* any hash it got a PREPARE of once it has committed the number.
VotesAreFounded ==
    \A r \in Honest : \A s \in Seqs : \A q \in Requests :
        /\ Msg("PREPARE", s, q, r) \in msgs => IsProposed(s, q) /\ r \in Members[q]
        /\ Msg("COMMIT", s, q, r) \in msgs =>
              Committed(node[r], s) \/ (IsProposed(s, q) /\ r \in Members[q])

Quorate ==
    \A r \in Honest : \A s \in Seqs : \A q \in Requests : node[r].main[s] = q =>
        /\ node[r].status[s] \in {"READY_COMMIT", "EXECUTED"} => Quorum("PREPARE", s, q)
        /\ node[r].status[s] = "EXECUTED" => Quorum("COMMIT", s, q)

QuorumInv == AgreeInv /\ ViewsAreThere /\ VotesAreFounded /\ Quorate

\* A number is given to one request.
LEMMA OneProposal ==
    ASSUME Chain, AgreeInv, NEW s \in Seqs, NEW p \in Requests, NEW q \in Requests,
           IsProposed(s, p), IsProposed(s, q)
    PROVE  p = q
<1>1. PICK m \in PrePrepares : ByProposer(m) /\ m.seq = s /\ m.hash = p
  BY DEF IsProposed
<1>2. PICK n \in PrePrepares : ByProposer(n) /\ n.seq = s /\ n.hash = q
  BY DEF IsProposed
<1>3. s \in Nat
  BY PbftAssumption DEF Seqs
<1>4. m.hash \notin After[n.hash] /\ n.hash \notin After[m.hash]
  BY <1>1, <1>2, <1>3 DEF AgreeInv, Ordered
<1> QED
  BY <1>1, <1>2, <1>4 DEF Chain

\* What a collector holds is the request its number was given to.
LEMMA MainIsProposed ==
    ASSUME Chain, AgreeInv, NEW r \in Honest, NEW s \in Seqs, NEW q \in Requests,
           IsProposed(s, q), node[r].status[s] # "None"
    PROVE  node[r].main[s] = q
<1>1. node[r].main[s] \in Requests /\ node[r].main[s] # None
  BY PbftAssumption DEF AgreeInv, TypeInv, Numbered
<1>2. IsProposed(s, node[r].main[s])
  BY <1>1 DEF AgreeInv, Proposals, IsProposed
<1> QED
  BY <1>1, <1>2, OneProposal

\* The sets of vehicles and their sizes.
LEMMA MembersFinite ==
    ASSUME NEW q \in Requests
    PROVE  /\ Members[q] \subseteq Replicas /\ IsFiniteSet(Members[q])
           /\ Cardinality(Members[q]) \in Nat /\ Cardinality(Replicas) \in Nat
           /\ Cardinality(Members[q]) <= Cardinality(Replicas)
           /\ 3 * tolerated_f + 1 <= Cardinality(Members[q])
<1>1. Members[q] \subseteq Replicas /\ IsFiniteSet(Replicas) /\ Proposer[q] \in Members[q]
  BY PbftAssumption
<1>2. /\ IsFiniteSet(Members[q]) /\ Cardinality(Members[q]) <= Cardinality(Replicas)
      /\ Cardinality(Members[q]) \in Nat /\ Cardinality(Replicas) \in Nat
  BY <1>1, FS_Subset, FS_CardinalityType
<1>3. Cardinality(Members[q]) # 0
  BY <1>1, <1>2, FS_EmptySet
<1>4. tolerated_f \in Nat /\ tolerated_f <= (Cardinality(Members[q]) - 1) \div 3
  BY PbftAssumption DEF MaxFaults
<1> DEFINE n == Cardinality(Members[q])
<1>5. n \in Nat /\ n # 0 /\ tolerated_f <= (n - 1) \div 3
  BY <1>2, <1>3, <1>4
<1> HIDE DEF n
<1>6. 3 * tolerated_f + 1 <= n
  BY <1>4, <1>5
<1> QED
  BY <1>1, <1>2, <1>6 DEF n

\* A quorum is more than the faulty vehicles, whatever view the replica has.
LEMMA QuorumBeatsFaults ==
    ASSUME NEW p, NEW q \in Requests
    PROVE  QuorumForRequest(p, q) \in Nat /\ QuorumForRequest(p, q) > tolerated_f
<1> DEFINE n == Cardinality(Members[q])
           N == Cardinality(Replicas)
<1>1. n \in Nat /\ N \in Nat /\ n <= N /\ 3 * tolerated_f + 1 <= n /\ tolerated_f \in Nat
  BY MembersFinite, PbftAssumption
<1> HIDE DEF n, N
<1>2. (n + tolerated_f + 2) \div 2 \in Nat /\ (n + tolerated_f + 2) \div 2 > tolerated_f
  BY <1>1
<1>3. (N - 1) \div 3 \in Nat /\ (N - 1) \div 3 >= tolerated_f
  BY <1>1
<1>4. 2 * ((N - 1) \div 3) + 1 \in Nat /\ 2 * ((N - 1) \div 3) + 1 > tolerated_f
  BY <1>1, <1>3
<1>5. /\ Max({2 * ((N - 1) \div 3) + 1, 1}) \in Nat
      /\ Max({2 * ((N - 1) \div 3) + 1, 1}) > tolerated_f
  <2>1. /\ Max({2 * ((N - 1) \div 3) + 1, 1}) \in {2 * ((N - 1) \div 3) + 1, 1}
        /\ Max({2 * ((N - 1) \div 3) + 1, 1}) >= 2 * ((N - 1) \div 3) + 1
    BY <1>4, MaxOfTwo
  <2> QED
    BY <1>1, <1>4, <2>1
<1> QED
  BY <1>2, <1>5 DEF QuorumForRequest, BftQuorumSize, GetMinDataReceiveNum, MaxFaults, n, N

\* An honest vehicle is among the votes of a quorum.
LEMMA HonestVoter ==
    ASSUME FaultyAreMembers, NEW p, NEW t, NEW s, NEW q \in Requests, HasQuorum(p, t, s, q)
    PROVE  \E x \in Honest : Msg(t, s, q, x) \in msgs
<1> SUFFICES ASSUME \A x \in Honest : Msg(t, s, q, x) \notin msgs PROVE FALSE
  OBVIOUS
<1>1. Votes(p, t, s, q) \subseteq Faulty
  BY DEF Votes, Honest
<1>2. IsFiniteSet(Faulty) /\ Cardinality(Faulty) \in Nat
  BY PbftAssumption, FS_Subset, FS_CardinalityType
<1>3. /\ Cardinality(Votes(p, t, s, q)) \in Nat
      /\ Cardinality(Votes(p, t, s, q)) <= Cardinality(Faulty)
  BY <1>1, <1>2, FS_Subset, FS_CardinalityType
<1>4. tolerated_f \in Nat
  BY PbftAssumption
<1> QED
  BY <1>2, <1>3, <1>4, QuorumBeatsFaults DEF FaultyAreMembers, HasQuorum

\* A quorum that the collector counted is one of the members when only they voted.
LEMMA MembersVoted ==
    ASSUME FaultyAreMembers, NEW p, NEW t, NEW s, NEW q \in Requests, HasQuorum(p, t, s, q),
           q \in p.views, \A x \in Honest : Msg(t, s, q, x) \in msgs => x \in Members[q]
    PROVE  Quorum(t, s, q)
<1>1. Votes(p, t, s, q) \subseteq Cast(t, s, q)
  BY DEF Votes, Cast, Honest, FaultyAreMembers
<1>2. IsFiniteSet(Cast(t, s, q))
  BY MembersFinite, FS_Subset DEF Cast
<1>3. /\ Cardinality(Cast(t, s, q)) \in Nat /\ Cardinality(Votes(p, t, s, q)) \in Nat
      /\ Cardinality(Votes(p, t, s, q)) <= Cardinality(Cast(t, s, q))
  BY <1>1, <1>2, FS_Subset, FS_CardinalityType
<1>4. Cardinality(Votes(p, t, s, q)) >= BftQuorumSize(Cardinality(Members[q]))
  BY DEF HasQuorum, QuorumForRequest
<1>5. BftQuorumSize(Cardinality(Members[q])) \in Int
  BY QuorumBeatsFaults DEF QuorumForRequest
<1> QED
  BY <1>3, <1>4, <1>5 DEF Quorum

\* Votes stay, and so do quorums.
LEMMA QuorumStays ==
    ASSUME msgs \subseteq msgs', NEW t, NEW s, NEW q \in Requests, Quorum(t, s, q)
    PROVE  Quorum(t, s, q)'
<1> DEFINE old == {r \in Members[q] : Msg(t, s, q, r) \in msgs}
           new == {r \in Members[q] : Msg(t, s, q, r) \in msgs'}
<1>1. old \subseteq new /\ IsFiniteSet(new)
  BY MembersFinite, FS_Subset
<1>2. Cardinality(old) \in Nat /\ Cardinality(new) \in Nat /\ Cardinality(old) <= Cardinality(new)
  BY <1>1, FS_Subset, FS_CardinalityType
<1>3. Cardinality(old) >= BftQuorumSize(Cardinality(Members[q]))
  BY DEF Quorum, Cast
<1>4. BftQuorumSize(Cardinality(Members[q])) \in Int
  BY MembersFinite, PbftAssumption DEF BftQuorumSize
<1>5. Cardinality(new) >= BftQuorumSize(Cardinality(Members[q]))
  BY <1>2, <1>3, <1>4
<1> QED
  BY <1>5 DEF Quorum, Cast, Msg, BftQuorumSize

\* What was proposed stays proposed.
LEMMA ProposedStays ==
    ASSUME msgs \subseteq msgs', NEW s, NEW q, IsProposed(s, q)
    PROVE  IsProposed(s, q)'
BY DEF IsProposed, PrePrepares, ByProposer

\* A step that casts no vote and moves no collector.
LEMMA QuorumKept ==
    ASSUME QuorumInv, AgreeInv', msgs \subseteq msgs',
           \A m \in msgs' \ msgs :
              m.type = "PRE_PREPARE" /\ m.hash \in node'[m.from].views,
           \A x \in Honest : /\ node'[x].main = node[x].main
                             /\ node'[x].status = node[x].status
                             /\ node[x].views \subseteq node'[x].views
    PROVE  QuorumInv'
<1>1. ViewsAreThere'
  <2>1. \A m \in PrePrepares : m.from \in Honest
    BY DEF QuorumInv, AgreeInv, OneRoute
  <2>2. \A m \in PrePrepares' : m \in PrePrepares \/ m \in msgs' \ msgs
    BY DEF PrePrepares
  <2>3. \A m \in PrePrepares' : m.hash \in node'[m.from].views
    BY <2>1, <2>2 DEF QuorumInv, ViewsAreThere
  <2> QED
    BY <2>3 DEF QuorumInv, ViewsAreThere
<1>2. VotesAreFounded'
  <2> SUFFICES ASSUME NEW r \in Honest, NEW s \in Seqs, NEW q \in Requests
               PROVE  /\ Msg("PREPARE", s, q, r) \in msgs'
                            => IsProposed(s, q)' /\ r \in Members[q]
                      /\ Msg("COMMIT", s, q, r) \in msgs'
                            => Committed(node'[r], s) \/ (IsProposed(s, q)' /\ r \in Members[q])
    BY DEF VotesAreFounded, Committed, IsProposed, PrePrepares, Msg, ByProposer
  <2>1. /\ Msg("PREPARE", s, q, r) \in msgs' => Msg("PREPARE", s, q, r) \in msgs
        /\ Msg("COMMIT", s, q, r) \in msgs' => Msg("COMMIT", s, q, r) \in msgs
    BY DEF Msg
  <2>2. Committed(node[r], s) => Committed(node'[r], s)
    BY DEF Committed
  <2> QED
    BY <2>1, <2>2, ProposedStays DEF QuorumInv, VotesAreFounded
<1>3. Quorate'
  <2> SUFFICES ASSUME NEW r \in Honest, NEW s \in Seqs, NEW q \in Requests, node'[r].main[s] = q
               PROVE  /\ node'[r].status[s] \in {"READY_COMMIT", "EXECUTED"}
                            => Quorum("PREPARE", s, q)'
                      /\ node'[r].status[s] = "EXECUTED" => Quorum("COMMIT", s, q)'
    BY DEF Quorate, Quorum, Cast, Msg, BftQuorumSize
  <2> QED
    BY QuorumStays DEF QuorumInv, Quorate
<1> QED
  BY <1>1, <1>2, <1>3 DEF QuorumInv

\* Submitting a request.
LEMMA QuorumTrigger ==
    ASSUME QuorumInv, AgreeInv', NEW r \in Honest, NEW q \in Requests, TriggerConsensus(r, q)
    PROVE  QuorumInv'
<1> DEFINE e == EnsureNextSeq(node[r])
<1>1. node \in [Honest -> Node] /\ TypeInv
  BY DEF QuorumInv, AgreeInv, TypeInv, TypeOK, Node
<1>2. e \in Node /\ e = [node[r] EXCEPT !.next_seq = e.next_seq]
  BY <1>1, EnsureNextSeqType
<1>3. /\ node' = [node EXCEPT ![r] = [e EXCEPT !.primary = r, !.asked = @ \cup {q}]]
      /\ UNCHANGED msgs
  BY DEF TriggerConsensus
<1> HIDE DEF e
<1>4. /\ e.main = node[r].main /\ e.status = node[r].status /\ e.views = node[r].views
  BY <1>1, <1>2 DEF Node
<1>5. ASSUME NEW x \in Honest
      PROVE  /\ node'[x].main = node[x].main /\ node'[x].status = node[x].status
             /\ node[x].views \subseteq node'[x].views
  BY <1>1, <1>2, <1>3, <1>4 DEF Node
<1> QED
  BY <1>3, <1>5, QuorumKept

\* Proposing a request: the server has installed its view.
LEMMA QuorumNewRequest ==
    ASSUME QuorumInv, AgreeInv', NEW r \in Honest, NEW q \in Requests, ProcessNewRequest(r, q)
    PROVE  QuorumInv'
<1>1. node \in [Honest -> Node]
  BY DEF QuorumInv, AgreeInv, TypeInv, TypeOK, Node
<1>2. CASE UNCHANGED <<node, msgs>>
  BY <1>2, QuorumKept
<1>3. ASSUME NEW S \in SUBSET Strangers(q), NEW M, msgs' = msgs \cup M,
             \/ M = {} /\ node' = [node EXCEPT ![r] = InstallView(node[r], q, S)]
             \/ /\ M = {Msg("PRE_PREPARE", node[r].next_seq, q, r)}
                /\ node' = [node EXCEPT ![r] = [InstallView(node[r], q, S) EXCEPT
                               !.proposed = @ \cup {q}, !.next_seq = @ + 1]]
      PROVE  QuorumInv'
  <2> DEFINE w == InstallView(node[r], q, S)
  <2>1. S \in SUBSET Replicas
    BY StrangersType DEF QuorumInv, AgreeInv, TypeInv
  <2>2. w \in Node /\ w.main = node[r].main /\ w.status = node[r].status
    BY <1>1, <2>1, InstallViewType
  <2>3. w.views = node[r].views \cup {q}
    BY <1>1 DEF InstallView, Node
  <2> HIDE DEF w
  <2>4. /\ node'[r].main = w.main /\ node'[r].status = w.status /\ node'[r].views = w.views
        /\ \A x \in Honest \ {r} : node'[x] = node[x]
    <3>1. CASE node' = [node EXCEPT ![r] = w]
      BY <1>1, <3>1
    <3>2. CASE node' = [node EXCEPT ![r] = [w EXCEPT !.proposed = @ \cup {q},
                                                    !.next_seq = @ + 1]]
      <4>1. node'[r] = [w EXCEPT !.proposed = @ \cup {q}, !.next_seq = @ + 1]
        BY <1>1, <3>2
      <4> QED
        BY <1>1, <2>2, <3>2, <4>1 DEF Node
    <3> QED
      BY <1>3, <3>1, <3>2 DEF w
  <2>5. \A m \in M : m.type = "PRE_PREPARE" /\ m.hash = q /\ m.from = r
    BY <1>3 DEF Msg
  <2>6. \A m \in msgs' \ msgs : m.type = "PRE_PREPARE" /\ m.hash \in node'[m.from].views
    BY <1>3, <2>3, <2>4, <2>5
  <2>7. \A x \in Honest : /\ node'[x].main = node[x].main
                          /\ node'[x].status = node[x].status
                          /\ node[x].views \subseteq node'[x].views
    BY <2>2, <2>3, <2>4
  <2> QED
    BY <1>3, <2>6, <2>7, QuorumKept
<1>4. CASE ~UNCHANGED <<node, msgs>>
  <2>1. PICK S \in SUBSET Strangers(q) :
           \/ /\ node' = [node EXCEPT ![r] = [InstallView(node[r], q, S) EXCEPT
                               !.proposed = @ \cup {q}, !.next_seq = @ + 1]]
              /\ msgs' = msgs \cup {Msg("PRE_PREPARE", node[r].next_seq, q, r)}
           \/ node' = [node EXCEPT ![r] = InstallView(node[r], q, S)] /\ UNCHANGED msgs
    BY <1>4 DEF ProcessNewRequest
  <2>2. CASE /\ node' = [node EXCEPT ![r] = [InstallView(node[r], q, S) EXCEPT
                               !.proposed = @ \cup {q}, !.next_seq = @ + 1]]
             /\ msgs' = msgs \cup {Msg("PRE_PREPARE", node[r].next_seq, q, r)}
    BY <1>3, <2>2
  <2>3. CASE node' = [node EXCEPT ![r] = InstallView(node[r], q, S)] /\ UNCHANGED msgs
    <3>1. msgs' = msgs \cup {}
      BY <2>3
    <3> QED
      BY <1>3, <2>3, <3>1
  <2> QED
    BY <2>1, <2>2, <2>3
<1> QED
  BY <1>2, <1>4

\* Executing moves no collector.
LEMMA QuorumExecute ==
    ASSUME QuorumInv, AgreeInv', NEW r \in Honest, Execute(r)
    PROVE  QuorumInv'
<1>1. node \in [Honest -> Node] /\ TypeInv
  BY DEF QuorumInv, AgreeInv, TypeInv, TypeOK, Node
<1>2. /\ node' = [node EXCEPT ![r].ledger = Append(@, node[r].main[Len(node[r].ledger) + 1])]
      /\ UNCHANGED msgs
  BY <1>1, ExecuteStep
<1>3. \A x \in Honest : /\ node'[x].main = node[x].main /\ node'[x].status = node[x].status
                        /\ node'[x].views = node[x].views
  BY <1>1, <1>2 DEF Node
<1> QED
  BY <1>2, <1>3, QuorumKept

\* What a PRE_PREPARE does to the views, the collectors and the votes of r.
LEMMA ProposeVotes ==
    ASSUME AgreeInv, NEW r \in Honest, NEW m \in msgs, ProcessProposeMsg(r, m)
    PROVE  /\ m \in PrePrepares /\ m.seq \in Seqs /\ m.hash \in Requests
           /\ \/ msgs' = msgs
              \/ /\ msgs' = msgs \cup {Msg("PREPARE", m.seq, m.hash, r)}
                 /\ ByProposer(m) /\ r \in Members[m.hash]
           /\ \A x \in Honest \ {r} : node'[x] = node[x]
           /\ node[r].views \subseteq node'[r].views
           /\ \/ node'[r].main = node[r].main /\ node'[r].status = node[r].status
              \/ /\ node'[r].main = [node[r].main EXCEPT ![m.seq] = m.hash]
                 /\ node'[r].status = [node[r].status EXCEPT ![m.seq] = "READY_PREPARE"]
                 /\ r \in Members[m.hash] /\ (m.from = r \/ m.hash \in node'[r].views)
                 /\ node[r].main[m.seq] = None
<1>1. /\ m \in Message /\ m.hash \in Requests /\ m.seq \in Seqs /\ m.from \in Replicas
      /\ node \in [Honest -> Node] /\ node[r] \in Node /\ TypeInv
  BY DEF AgreeInv, TypeInv, TypeOK, Message, Node
<1>2. PICK S \in SUBSET Strangers(m.hash) :
        LET verified == m.from = Proposer[m.hash]
            p == IF m.from # r /\ verified THEN InstallView(node[r], m.hash, S) ELSE node[r]
            passed == /\ m.from = r \/ verified
                      /\ m.from = p.primary
                      /\ r \in Members[m.hash]
                      /\ m.from = r \/ m.hash \notin p.proposed
            first == p.main[m.seq] = None
            w == IF passed THEN [p EXCEPT !.proposed = @ \cup {m.hash}] ELSE p
            g == [w EXCEPT !.got = @ \cup {m}]
        IN  IF ~passed \/ ~Accepts(p, m.seq, m.hash, m.from)
            THEN node' = [node EXCEPT ![r] = g] /\ UNCHANGED msgs
            ELSE /\ node' = [node EXCEPT ![r] =
                        IF first THEN [g EXCEPT !.main[m.seq] = m.hash,
                                                !.status[m.seq] = "READY_PREPARE"]
                        ELSE g]
                 /\ msgs' = IF first \/ Committed(p, m.seq)
                            THEN msgs \cup {Msg("PREPARE", m.seq, m.hash, r)}
                            ELSE msgs
  BY DEF ProcessProposeMsg
<1> DEFINE verified == m.from = Proposer[m.hash]
           p == IF m.from # r /\ verified THEN InstallView(node[r], m.hash, S) ELSE node[r]
           passed == /\ m.from = r \/ verified
                     /\ m.from = p.primary
                     /\ r \in Members[m.hash]
                     /\ m.from = r \/ m.hash \notin p.proposed
           w == IF passed THEN [p EXCEPT !.proposed = @ \cup {m.hash}] ELSE p
           g == [w EXCEPT !.got = @ \cup {m}]
           h == [g EXCEPT !.main[m.seq] = m.hash, !.status[m.seq] = "READY_PREPARE"]
<1>3. S \in SUBSET Replicas
  BY StrangersType, <1>1 DEF TypeInv
<1>4. /\ p \in Node /\ p.main = node[r].main /\ p.status = node[r].status
      /\ m.from = r => p.primary = node[r].primary
  BY <1>1, <1>3, InstallViewType
<1>5. /\ node[r].views \subseteq p.views
      /\ m.from # r /\ verified => m.hash \in p.views
  BY <1>1 DEF InstallView, Node
<1>6. /\ m \in PrePrepares
      /\ m \in node[r].got => m.from # r
  BY DEF ProcessProposeMsg, PrePrepares
<1>7. /\ msgs' = msgs \/ (passed /\ msgs' = msgs \cup {Msg("PREPARE", m.seq, m.hash, r)})
      /\ \/ node' = [node EXCEPT ![r] = g]
         \/ passed /\ p.main[m.seq] = None /\ node' = [node EXCEPT ![r] = h]
  BY <1>2
<1>8. passed => /\ (m.from = r \/ verified) /\ m.from = p.primary /\ r \in Members[m.hash]
  OBVIOUS
<1> HIDE DEF p, passed
<1>9. g \in Node /\ g.main = node[r].main /\ g.status = node[r].status /\ g.views = p.views
  BY <1>1, <1>4 DEF Node
<1>10. /\ h.main = [node[r].main EXCEPT ![m.seq] = m.hash]
       /\ h.status = [node[r].status EXCEPT ![m.seq] = "READY_PREPARE"]
       /\ h.views = p.views
  BY <1>9 DEF Node
<1> HIDE DEF g, h
<1>11. passed => ByProposer(m) /\ r \in Members[m.hash]
  <2>1. CASE m.from = r
    BY <1>4, <1>6, <1>8, <2>1 DEF AgreeInv, Refused
  <2>2. CASE m.from # r
    BY <1>8, <2>2 DEF ByProposer
  <2> QED
    BY <2>1, <2>2
<1>12. \A x \in Honest \ {r} : node'[x] = node[x]
  BY <1>1, <1>7
<1>13. node'[r] = g \/ (passed /\ node[r].main[m.seq] = None /\ node'[r] = h)
  BY <1>1, <1>4, <1>7
<1>14. node[r].views \subseteq node'[r].views
  BY <1>5, <1>9, <1>10, <1>13
<1>15. \/ node'[r].main = node[r].main /\ node'[r].status = node[r].status
       \/ /\ node'[r].main = [node[r].main EXCEPT ![m.seq] = m.hash]
          /\ node'[r].status = [node[r].status EXCEPT ![m.seq] = "READY_PREPARE"]
          /\ r \in Members[m.hash] /\ (m.from = r \/ m.hash \in node'[r].views)
          /\ node[r].main[m.seq] = None
  <2>1. CASE node'[r] = g
    BY <1>9, <2>1
  <2>2. CASE passed /\ node[r].main[m.seq] = None /\ node'[r] = h
    BY <1>5, <1>8, <1>10, <2>2
  <2> QED
    BY <1>13, <2>1, <2>2
<1> QED
  BY <1>1, <1>6, <1>7, <1>11, <1>12, <1>14, <1>15

\* A member that accepts a PRE_PREPARE has its view and votes for it.
LEMMA QuorumPropose ==
    ASSUME QuorumInv, AgreeInv', NEW r \in Honest, NEW m \in msgs, ProcessProposeMsg(r, m)
    PROVE  QuorumInv'
<1>1. /\ AgreeInv /\ \A x \in PrePrepares : x.from \in Honest
      /\ node[r].main \in [Seqs -> Requests \cup {None}]
      /\ node[r].status \in [Seqs -> {"None", "READY_PREPARE", "READY_COMMIT", "EXECUTED"}]
  BY DEF QuorumInv, AgreeInv, OneRoute, TypeInv, TypeOK
<1>2. /\ m \in PrePrepares /\ m.seq \in Seqs /\ m.hash \in Requests
      /\ \/ msgs' = msgs
         \/ /\ msgs' = msgs \cup {Msg("PREPARE", m.seq, m.hash, r)}
            /\ ByProposer(m) /\ r \in Members[m.hash]
      /\ \A x \in Honest \ {r} : node'[x] = node[x]
      /\ node[r].views \subseteq node'[r].views
  BY <1>1, ProposeVotes
<1>3. \/ node'[r].main = node[r].main /\ node'[r].status = node[r].status
      \/ /\ node'[r].main = [node[r].main EXCEPT ![m.seq] = m.hash]
         /\ node'[r].status = [node[r].status EXCEPT ![m.seq] = "READY_PREPARE"]
         /\ r \in Members[m.hash] /\ (m.from = r \/ m.hash \in node'[r].views)
         /\ node[r].main[m.seq] = None
  BY <1>1, ProposeVotes
<1>4. msgs \subseteq msgs' /\ PrePrepares' = PrePrepares
  BY <1>2 DEF PrePrepares, Msg
<1>5. m.hash \in node[m.from].views
  BY <1>2 DEF QuorumInv, ViewsAreThere
<1>6. ViewsAreThere'
  <2>1. \A x \in PrePrepares' : x.hash \in node'[x.from].views
    BY <1>1, <1>2, <1>4 DEF QuorumInv, ViewsAreThere
  <2>2. ASSUME NEW x \in Honest, NEW s \in Seqs, node'[x].main[s] # None
        PROVE  node'[x].main[s] \in node'[x].views /\ x \in Members[node'[x].main[s]]
    <3>1. CASE x # r
      BY <1>2, <2>2, <3>1 DEF QuorumInv, ViewsAreThere
    <3>2. CASE x = r /\ node'[r].main[s] = node[r].main[s]
      BY <1>2, <2>2, <3>2 DEF QuorumInv, ViewsAreThere
    <3>3. CASE x = r /\ node'[r].main[s] # node[r].main[s]
      BY <1>1, <1>2, <1>3, <1>5, <3>3
    <3> QED
      BY <3>1, <3>2, <3>3
  <2> QED
    BY <2>1, <2>2 DEF ViewsAreThere
<1>7. \A s \in Seqs : Committed(node[r], s) => Committed(node'[r], s)
  <2>1. CASE node'[r].status = node[r].status
    BY <2>1 DEF Committed
  <2>2. CASE /\ node'[r].status = [node[r].status EXCEPT ![m.seq] = "READY_PREPARE"]
             /\ node[r].main[m.seq] = None
    <3>1. node[r].status[m.seq] = "None"
      BY <1>1, <1>2, <2>2, PbftAssumption DEF AgreeInv, TypeInv, Numbered
    <3> QED
      BY <1>1, <1>2, <2>2, <3>1 DEF Committed
  <2> QED
    BY <1>3, <2>1, <2>2
<1>8. VotesAreFounded'
  <2> SUFFICES ASSUME NEW x \in Honest, NEW s \in Seqs, NEW q \in Requests
               PROVE  /\ Msg("PREPARE", s, q, x) \in msgs'
                            => IsProposed(s, q)' /\ x \in Members[q]
                      /\ Msg("COMMIT", s, q, x) \in msgs'
                            => Committed(node'[x], s) \/ (IsProposed(s, q)' /\ x \in Members[q])
    BY DEF VotesAreFounded, Committed, IsProposed, PrePrepares, Msg, ByProposer
  <2>1. Committed(node[x], s) => Committed(node'[x], s)
    BY <1>2, <1>7
  <2>2. Msg("COMMIT", s, q, x) \in msgs' => Msg("COMMIT", s, q, x) \in msgs
    BY <1>2 DEF Msg
  <2>3. Msg("PREPARE", s, q, x) \in msgs' =>
           \/ Msg("PREPARE", s, q, x) \in msgs
           \/ /\ s = m.seq /\ q = m.hash /\ x = r
              /\ ByProposer(m) /\ r \in Members[m.hash]
    BY <1>2 DEF Msg
  <2>4. ByProposer(m) => IsProposed(m.seq, m.hash)
    BY <1>2 DEF IsProposed
  <2>5. Msg("PREPARE", s, q, x) \in msgs' => IsProposed(s, q) /\ x \in Members[q]
    BY <2>3, <2>4 DEF QuorumInv, VotesAreFounded
  <2>6. Msg("COMMIT", s, q, x) \in msgs' =>
           Committed(node'[x], s) \/ (IsProposed(s, q) /\ x \in Members[q])
    BY <2>1, <2>2 DEF QuorumInv, VotesAreFounded
  <2> QED
    BY <1>4, <2>5, <2>6, ProposedStays
<1>9. Quorate'
  <2> SUFFICES ASSUME NEW x \in Honest, NEW s \in Seqs, NEW q \in Requests, node'[x].main[s] = q
               PROVE  /\ node'[x].status[s] \in {"READY_COMMIT", "EXECUTED"}
                            => Quorum("PREPARE", s, q)'
                      /\ node'[x].status[s] = "EXECUTED" => Quorum("COMMIT", s, q)'
    BY DEF Quorate, Quorum, Cast, Msg, BftQuorumSize
  <2>1. CASE node'[x].main[s] = node[x].main[s] /\ node'[x].status[s] = node[x].status[s]
    BY <1>4, <2>1, QuorumStays DEF QuorumInv, Quorate
  <2>2. CASE x = r /\ node'[x].status[s] = "READY_PREPARE"
    BY <2>2
  <2> QED
    BY <1>1, <1>2, <1>3, <2>1, <2>2
<1> QED
  BY <1>6, <1>8, <1>9 DEF QuorumInv

\* A quorum of PREPAREs is for what the number was given to, and comes from members.
LEMMA PrepareQuorum ==
    ASSUME Chain, FaultyAreMembers, QuorumInv, NEW r \in Honest, NEW s \in Seqs,
           NEW q \in Requests, node[r].status[s] # "None", HasQuorum(node[r], "PREPARE", s, q)
    PROVE  /\ IsProposed(s, q) /\ node[r].main[s] = q /\ r \in Members[q]
           /\ Quorum("PREPARE", s, q)
<1>1. PICK x \in Honest : Msg("PREPARE", s, q, x) \in msgs
  BY HonestVoter
<1>2. IsProposed(s, q)
  BY <1>1 DEF QuorumInv, VotesAreFounded
<1>3. node[r].main[s] = q /\ q # None
  BY <1>2, MainIsProposed, PbftAssumption DEF QuorumInv
<1>4. q \in node[r].views /\ r \in Members[q]
  BY <1>3 DEF QuorumInv, ViewsAreThere
<1>5. \A v \in Honest : Msg("PREPARE", s, q, v) \in msgs => v \in Members[q]
  BY DEF QuorumInv, VotesAreFounded
<1> QED
  BY <1>2, <1>3, <1>4, <1>5, MembersVoted

\* When r commits, a quorum of members has sent COMMIT for its main request: the votes that
\* r counted, or, when those are for another hash, the votes of the server that committed
\* before and repeated a COMMIT for that hash.
LEMMA CommitQuorum ==
    ASSUME Chain, FaultyAreMembers, QuorumInv, NEW r \in Honest, NEW s \in Seqs,
           NEW q \in Requests, node[r].status[s] # "None", HasQuorum(node[r], "COMMIT", s, q)
    PROVE  Quorum("COMMIT", s, node[r].main[s])
<1> DEFINE p == node[r].main[s]
<1>1. p \in Requests /\ p # None /\ IsProposed(s, p)
  BY PbftAssumption DEF QuorumInv, AgreeInv, TypeInv, Numbered, Proposals, IsProposed
<1>2. p \in node[r].views
  BY <1>1 DEF QuorumInv, ViewsAreThere
<1>3. ASSUME NEW x \in Honest, Committed(node[x], s)
      PROVE  Quorum("COMMIT", s, p)
  <2>1. node[x].main[s] = p
    BY <1>1, <1>3, MainIsProposed DEF Committed, QuorumInv
  <2> QED
    BY <1>1, <1>3, <2>1 DEF QuorumInv, Quorate, Committed
<1>4. CASE \A x \in Honest : ~Committed(node[x], s)
  <2>1. \A x \in Honest : Msg("COMMIT", s, q, x) \in msgs =>
           IsProposed(s, q) /\ x \in Members[q]
    BY <1>4 DEF QuorumInv, VotesAreFounded
  <2>2. PICK x \in Honest : Msg("COMMIT", s, q, x) \in msgs
    BY HonestVoter
  <2>3. p = q
    BY <2>1, <2>2, MainIsProposed DEF QuorumInv
  <2> QED
    BY <1>2, <2>1, <2>3, MembersVoted
<1> QED
  BY <1>3, <1>4

\* A vote that completes a quorum moves the collector of its number on.
LEMMA QuorumVoting ==
    ASSUME Chain, FaultyAreMembers, QuorumInv, AgreeInv', NEW r \in Honest, NEW s \in Seqs,
           NEW q \in Requests, ProcessPrepareMsg(r, s, q) \/ ProcessCommitMsg(r, s, q)
    PROVE  QuorumInv'
<1>1. /\ node \in [Honest -> Node] /\ AgreeInv
      /\ \A x \in PrePrepares : x.from \in Honest
  BY DEF QuorumInv, AgreeInv, OneRoute, TypeInv, TypeOK, Node
<1>2. /\ msgs' \in {msgs, msgs \cup {Msg("COMMIT", s, q, r)}}
      /\ msgs \subseteq msgs' /\ PrePrepares' = PrePrepares
  BY VotingStep DEF Voting, PrePrepares, Msg
<1>3. \/ node' = node
      \/ \E x \in {"READY_COMMIT", "EXECUTED"} : node' = [node EXCEPT ![r].status[s] = x]
  BY VotingStep DEF Voting
<1>4. ASSUME NEW x \in Honest
      PROVE  /\ node'[x].main = node[x].main /\ node'[x].views = node[x].views
             /\ \A i \in Seqs : \/ node'[x].status[i] = node[x].status[i]
                                \/ x = r /\ i = s
  <2>1. ASSUME NEW y, node' = [node EXCEPT ![r].status[s] = y]
        PROVE  node'[x] = IF x = r THEN [node[x] EXCEPT !.status = [@ EXCEPT ![s] = y]]
                          ELSE node[x]
    BY <1>1, <2>1
  <2>2. node[x] \in Node
    BY <1>1
  <2>3. CASE node' = node
    BY <2>3
  <2>4. ASSUME NEW y, node' = [node EXCEPT ![r].status[s] = y]
        PROVE  /\ node'[x].main = node[x].main /\ node'[x].views = node[x].views
               /\ \A i \in Seqs : node'[x].status[i] = node[x].status[i] \/ (x = r /\ i = s)
    <3>1. CASE x = r
      <4>1. /\ node'[x].main = node[x].main /\ node'[x].views = node[x].views
            /\ node'[x].status = [node[x].status EXCEPT ![s] = y]
        <5>1. node'[x] = [node[x] EXCEPT !.status = [node[x].status EXCEPT ![s] = y]]
          BY <1>1, <2>4, <3>1
        <5> QED
          BY <2>2, <5>1 DEF Node
      <4>2. node[x].status \in [Seqs -> {"None", "READY_PREPARE", "READY_COMMIT", "EXECUTED"}]
        BY <2>2 DEF Node
      <4> QED
        BY <3>1, <4>1, <4>2
    <3>2. CASE x # r
      BY <2>1, <2>4, <3>2
    <3> QED
      BY <3>1, <3>2
  <2> QED
    BY <1>3, <2>3, <2>4
<1>5. /\ node'[r].status[s] = node[r].status[s]
            \/ (node'[r].status[s] = "READY_COMMIT" /\ ~Committed(node[r], s)
                /\ node[r].status[s] # "None" /\ HasQuorum(node[r], "PREPARE", s, q))
            \/ (node'[r].status[s] = "EXECUTED" /\ node[r].status[s] = "READY_COMMIT"
                /\ HasQuorum(node[r], "COMMIT", s, q))
      /\ msgs' = msgs \/ Committed(node[r], s)
            \/ (node[r].status[s] # "None" /\ HasQuorum(node[r], "PREPARE", s, q))
  <2>1. ASSUME NEW y, node' = [node EXCEPT ![r].status[s] = y]
        PROVE  node'[r].status[s] = y
    BY <1>1, <2>1 DEF Node
  <2> QED
    BY <2>1 DEF ProcessPrepareMsg, ProcessCommitMsg, Committed
<1>6. ViewsAreThere'
  BY <1>1, <1>2, <1>4 DEF QuorumInv, ViewsAreThere
<1>7. \A x \in Honest, i \in Seqs : Committed(node[x], i) => Committed(node'[x], i)
  BY <1>4, <1>5 DEF Committed
<1>8. VotesAreFounded'
  <2> SUFFICES ASSUME NEW x \in Honest, NEW i \in Seqs, NEW p \in Requests
               PROVE  /\ Msg("PREPARE", i, p, x) \in msgs'
                            => IsProposed(i, p)' /\ x \in Members[p]
                      /\ Msg("COMMIT", i, p, x) \in msgs'
                            => Committed(node'[x], i) \/ (IsProposed(i, p)' /\ x \in Members[p])
    BY DEF VotesAreFounded, Committed, IsProposed, PrePrepares, Msg, ByProposer
  <2>1. Msg("PREPARE", i, p, x) \in msgs' => Msg("PREPARE", i, p, x) \in msgs
    BY <1>2 DEF Msg
  <2>2. Msg("COMMIT", i, p, x) \in msgs' =>
           \/ Msg("COMMIT", i, p, x) \in msgs
           \/ msgs' # msgs /\ i = s /\ p = q /\ x = r
    BY <1>2 DEF Msg
  <2>3. msgs' # msgs => Committed(node'[r], s) \/ (IsProposed(s, q) /\ r \in Members[q])
    BY <1>5, <1>7, PrepareQuorum
  <2>4. Msg("COMMIT", i, p, x) \in msgs' =>
           Committed(node'[x], i) \/ (IsProposed(i, p) /\ x \in Members[p])
    BY <1>7, <2>2, <2>3 DEF QuorumInv, VotesAreFounded
  <2>5. Msg("PREPARE", i, p, x) \in msgs' => IsProposed(i, p) /\ x \in Members[p]
    BY <2>1 DEF QuorumInv, VotesAreFounded
  <2> QED
    BY <1>2, <2>4, <2>5, ProposedStays
<1>9. Quorate'
  <2> SUFFICES ASSUME NEW x \in Honest, NEW i \in Seqs, NEW p \in Requests, node'[x].main[i] = p
               PROVE  /\ node'[x].status[i] \in {"READY_COMMIT", "EXECUTED"}
                            => Quorum("PREPARE", i, p)'
                      /\ node'[x].status[i] = "EXECUTED" => Quorum("COMMIT", i, p)'
    BY DEF Quorate, Quorum, Cast, Msg, BftQuorumSize
  <2>1. node[x].main[i] = p
    BY <1>4
  <2>2. CASE node'[x].status[i] = node[x].status[i]
    BY <1>2, <2>1, <2>2, QuorumStays DEF QuorumInv, Quorate
  <2>3. CASE x = r /\ i = s /\ node'[r].status[s] = "READY_COMMIT"
             /\ node[r].status[s] # "None" /\ HasQuorum(node[r], "PREPARE", s, q)
    <3>1. p = q /\ Quorum("PREPARE", s, q)
      BY <2>1, <2>3, PrepareQuorum
    <3> QED
      BY <1>2, <2>3, <3>1, QuorumStays
  <2>4. CASE x = r /\ i = s /\ node'[r].status[s] = "EXECUTED"
             /\ node[r].status[s] = "READY_COMMIT" /\ HasQuorum(node[r], "COMMIT", s, q)
    <3>1. Quorum("COMMIT", s, p)
      BY <2>1, <2>4, CommitQuorum
    <3>2. Quorum("PREPARE", s, p)
      BY <2>1, <2>4 DEF QuorumInv, Quorate
    <3> QED
      BY <1>2, <2>4, <3>1, <3>2, QuorumStays
  <2> QED
    BY <1>4, <1>5, <2>2, <2>3, <2>4
<1> QED
  BY <1>6, <1>8, <1>9 DEF QuorumInv

\* At the start honest servers have voted for nothing.
LEMMA QuorumInit == Init => QuorumInv
<1> SUFFICES ASSUME Init PROVE QuorumInv
  OBVIOUS
<1>1. PrePrepares = {}
  BY DEF Init, PrePrepares
<1>2. ASSUME NEW r \in Honest, NEW s \in Seqs
      PROVE  node[r].main[s] = None /\ node[r].status[s] = "None"
  BY DEF Init
<1>3. \A t, s, q : \A r \in Honest : Msg(t, s, q, r) \notin msgs
  BY DEF Init, Msg, Honest
<1>4. ViewsAreThere /\ VotesAreFounded /\ Quorate
  BY <1>1, <1>2, <1>3 DEF ViewsAreThere, VotesAreFounded, Quorate
<1> QED
  BY <1>4, AgreeInit DEF QuorumInv

\* Every step keeps the quorums.
LEMMA QuorumNext ==
    ASSUME Chain, FaultyAreMembers
    PROVE  QuorumInv /\ AgreeInv' /\ Checked' /\ [Next]_vars => QuorumInv'
<1> SUFFICES ASSUME QuorumInv, AgreeInv', Checked', [Next]_vars PROVE QuorumInv'
  OBVIOUS
<1>1. CASE UNCHANGED vars
  BY <1>1, QuorumKept DEF vars
<1>2. ASSUME NEW r \in Honest, Submit(r) PROVE QuorumInv'
  BY <1>2, QuorumTrigger, QuorumNewRequest DEF Submit
<1>3. ASSUME NEW r \in Honest, Receive(r) PROVE QuorumInv'
  BY <1>3, QuorumPropose, QuorumVoting DEF Receive
<1>4. ASSUME NEW m \in Message, SendUnchecked(m) PROVE FALSE
  BY <1>4 DEF SendUnchecked, Checked
<1> QED
  BY <1>1, <1>2, <1>3, <1>4, QuorumExecute DEF Next

\* What a server commits was prepared and committed by a quorum of the members of its view,
\* although a collector counts the votes per hash, commits its main request whatever hash
\* completes the quorum, and a server that has committed sends a COMMIT for any hash. Three
\* hypotheses: Chain; the vehicles that may vote anything are at most f, and the view leaves
\* none of them out; and Checked, in CommittedHasQuorum: each vote was cast by the replica
\* it names, and no faulty replica led, neither of which the code verifies.
THEOREM CommittedByMembers ==
    ASSUME Chain, FaultyAreMembers
    PROVE  Spec => []CommittedHasQuorum
<1>1. QuorumInv => CommittedHasQuorum
  <2> SUFFICES ASSUME QuorumInv, NEW r \in Honest, NEW s \in Seqs, Committed(node[r], s)
               PROVE  /\ Quorum("PREPARE", s, node[r].main[s])
                      /\ Quorum("COMMIT", s, node[r].main[s])
    BY DEF CommittedHasQuorum, Quorum
  <2>1. node[r].main[s] \in Requests
    BY DEF Committed, QuorumInv, AgreeInv, TypeInv, Numbered
  <2> QED
    BY <2>1 DEF Committed, QuorumInv, Quorate
<1>2. Init => (Checked => QuorumInv)
  BY QuorumInit
<1>3. (Checked => QuorumInv) /\ (Checked => AgreeInv)' /\ [Next]_vars => (Checked => QuorumInv)'
  BY CheckedBefore, QuorumNext
<1>4. Spec => [](Checked => QuorumInv)
  BY <1>2, <1>3, AgreeInvariant, PTL DEF Spec
<1>5. (Checked => QuorumInv) => CommittedHasQuorum
  BY <1>1 DEF CommittedHasQuorum
<1> QED
  BY <1>4, <1>5, PTL
==============================================================================
