-------------------------------- MODULE Pbft --------------------------------
(***************************************************************************)
(* The normal case of PBFT as this system runs it (commitment.cpp,         *)
(* message_manager.cpp, transaction_collector.cpp and the patches of       *)
(* omnet_forced_view.h): the view number never changes, the application    *)
(* makes a vehicle primary for its own request, and each request carries   *)
(* the members that may vote on it, which a replica learns in PreVerify.   *)
(*                                                                         *)
(* msgs only grows: a packet may be lost, late, repeated (the retry timer) *)
(* or relayed by others.  What a collector has counted is some part of the *)
(* votes in msgs; a step that needs a quorum is enabled as soon as they    *)
(* exist.  View change and checkpoints are switched off in the deployment. *)
(*                                                                         *)
(* Signatures are checked against the key a packet carries, and nothing    *)
(* ties the sender_id inside to that key.  The votes a faulty replica      *)
(* casts under its own name are there from the start; what else it sends,  *)
(* a PRE_PREPARE or a message under any other name, is recorded in         *)
(* unchecked, and what PBFT promises is stated for as long as there is     *)
(* none (Checked).                                                         *)
(***************************************************************************)
EXTENDS Integers, Sequences, FiniteSets, FiniteSetsExt, Functions

CONSTANTS
    Replicas,
    Faulty,          \* may have cast any vote, or none
    Requests,        \* hashes; the counter behind them is global
    Proposer,        \* [Requests -> Replicas]: leader_id of the payload
    Members,         \* [Requests -> SUBSET Replicas]: the forced view
    After,           \* [Requests -> SUBSET Requests]: what the proposer has
                     \* seen executed when the application lets it propose
    tolerated_f,     \* f of every forced view
    MaxProcessTxn,   \* window of AssignNextSeq()
    MaxSeq,          \* bound: last sequence number
    MaxUnchecked,    \* bound: messages in unchecked
    Repeats,         \* \subseteq BOOLEAN: may a PRE_PREPARE come again?
    None

MaxFaults(n) == (n - 1) \div 3

ASSUME PbftAssumption ==
    /\ IsFiniteSet(Replicas) /\ Faulty \subseteq Replicas /\ None \notin Requests
    /\ Proposer \in [Requests -> Replicas]
    /\ Members \in [Requests -> SUBSET Replicas]
    /\ tolerated_f \in Nat
    /\ \A q \in Requests : /\ Proposer[q] \in Members[q]
                           /\ tolerated_f <= MaxFaults(Cardinality(Members[q]))
    /\ After \in [Requests -> SUBSET Requests]
    /\ MaxProcessTxn \in Nat /\ MaxSeq \in Nat /\ MaxUnchecked \in Nat
    /\ Repeats \subseteq BOOLEAN

VARIABLES
    node,    \* [Honest -> what one server holds]
    inbox,   \* NEW_TXNS on their way to a server: <<replica, request>>
    msgs,    \* PRE_PREPARE, PREPARE and COMMIT that were broadcast
    repeats, \* fixed: PRE_PREPAREs are repeated in this behaviour
    unchecked \* history: messages of faulty replicas that are not their own votes

vars == <<node, inbox, msgs, repeats, unchecked>>

Honest == Replicas \ Faulty
Seqs == 1..MaxSeq
Message == [type : {"PRE_PREPARE", "PREPARE", "COMMIT"}, seq : Seqs,
            hash : Requests, from : Replicas]
Msg(t, s, q, r) == [type |-> t, seq |-> s, hash |-> q, from |-> r]

(* BftQuorumSize(); a replica without the view falls back to the static    *)
(* 2f+1 of all replicas.                                                   *)
BftQuorumSize(n) == (n + tolerated_f + 2) \div 2
GetMinDataReceiveNum == Max({2 * MaxFaults(Cardinality(Replicas)) + 1, 1})

QuorumForRequest(p, q) ==
    IF q \in p.views THEN BftQuorumSize(Cardinality(Members[q]))
    ELSE GetMinDataReceiveNum

Init ==
    /\ node = [r \in Honest |->
                [primary |-> CHOOSE p \in Replicas : TRUE,
                 next_seq |-> 1,
                 asked |-> {},           \* requests the app has submitted
                 proposed |-> {},        \* DuplicateManager
                 views |-> {},           \* OmnetForcedViewRegistry
                 early |-> [q \in Requests |-> {}],
                 got |-> {},             \* PRE_PREPAREs delivered so far
                 status |-> [s \in Seqs |-> "None"],
                 main |-> [s \in Seqs |-> None],
                 ledger |-> <<>>]]       \* what the executor was given
    /\ inbox = {}
    /\ \E silent \in SUBSET Faulty :
          msgs = {m \in Message : m.from \in Faulty \ silent /\ m.type # "PRE_PREPARE"}
    /\ repeats \in Repeats
    /\ unchecked = {}

MaxExecuted(p) == Len(p.ledger)

\* Variant: a number without a collector counts as committed.
CommittedOrUnknown(p, s) == p.status[s] \in {"EXECUTED", "None"}

Committed(p, s) == p.status[s] = "EXECUTED"

(* The senders of votes that the collector of p may have counted: those    *)
(* that IsSenderActiveForRequest() lets pass, and any that came before the *)
(* view of the request was installed.                                      *)
Active(p, q, r) == q \in p.views => r \in Members[q]
Votes(p, t, s, q) ==
    {r \in Replicas : /\ Msg(t, s, q, r) \in msgs
                      /\ Active(p, q, r) \/ r \in p.early[q]}

\* Variant: one vote more is needed.
HasQuorumAndOne(p, t, s, q) == Cardinality(Votes(p, t, s, q)) >= QuorumForRequest(p, q) + 1

\* Variant: one vote less is enough.
HasQuorumMinusOne(p, t, s, q) == Cardinality(Votes(p, t, s, q)) >= QuorumForRequest(p, q) - 1

HasQuorum(p, t, s, q) == Cardinality(Votes(p, t, s, q)) >= QuorumForRequest(p, q)

(* IsValidMsg() and the sender test at the head of AddConsensusMsg(): the  *)
(* last executed number is still accepted.                                 *)
Accepts(p, s, q, from) == s >= MaxExecuted(p) /\ Active(p, q, from)

(* Installing the view of q: votes of others than its members that were    *)
(* counted before stay counted.                                            *)
Strangers(q) == {m.from : m \in {x \in msgs : x.hash = q /\ x.type # "PRE_PREPARE"}} \ Members[q]
InstallView(p, q, S) ==
    [p EXCEPT !.views = @ \cup {q}, !.primary = Proposer[q],
              !.early[q] = IF q \in p.views THEN @ ELSE S]

-----------------------------------------------------------------------------
\* Variant: the new primary keeps its own counter.
EnsureNothing(p) == p

(* EnsureNextSeqAheadOfExecuted() *)
EnsureNextSeq(p) == [p EXCEPT !.next_seq = Max({@, MaxExecuted(p) + 1})]

(* ResdbOmnetTriggerConsensus(): on the simulator thread the vehicle makes *)
(* itself primary and queues the request for its own server.               *)
TriggerConsensus(r, q) ==
    /\ r = Proposer[q] /\ q \notin node[r].asked
    /\ After[q] \subseteq Range(node[r].ledger)
    /\ LET p == EnsureNextSeq(node[r])
       IN  node' = [node EXCEPT ![r] = [p EXCEPT !.primary = r, !.asked = @ \cup {q}]]
    /\ inbox' = inbox \cup {<<r, q>>}
    /\ UNCHANGED msgs

(* AssignNextSeq(): the distance is unsigned, so a counter that has fallen *)
(* behind the executor counts as used up.                                  *)
SeqAssigned(p) == /\ p.next_seq >= MaxExecuted(p)
                  /\ p.next_seq - MaxExecuted(p) <= MaxProcessTxn
                  /\ p.next_seq <= MaxSeq

(* ProcessNewRequest() on a worker thread.  A server that is not primary   *)
(* any more sends the request on to the one it takes for primary.          *)
ProcessNewRequest(r, q) ==
    LET p == node[r]
    IN  /\ <<r, q>> \in inbox
        /\ \/ /\ p.primary # r
              /\ inbox' = (inbox \ {<<r, q>>}) \cup
                          (IF p.primary \in Honest THEN {<<p.primary, q>>} ELSE {})
              /\ UNCHANGED <<node, msgs>>
           \/ /\ p.primary = r
              /\ inbox' = inbox \ {<<r, q>>}
              /\ \E S \in SUBSET Strangers(q) :
                    LET w == InstallView(p, q, S)
                    IN  \/ /\ q \notin p.proposed /\ SeqAssigned(p)
                           /\ node' = [node EXCEPT ![r] =
                                        [w EXCEPT !.proposed = @ \cup {q},
                                                  !.next_seq = @ + 1]]
                           /\ msgs' = msgs \cup {Msg("PRE_PREPARE", p.next_seq, q, r)}
                        \/ /\ q \in p.proposed \/ ~SeqAssigned(p)
                           /\ node' = [node EXCEPT ![r] = w]
                           /\ UNCHANGED msgs

(* A replica injects what it broadcasts into its own input queue, where it *)
(* is ahead of whatever is broadcast later (bridge, SendMessage()).        *)
OwnIsIn(r) == \A m \in msgs \ unchecked : m.type = "PRE_PREPARE" /\ m.from = r => m \in node[r].got

(* ProcessProposeMsg().  PreVerify refuses a sender that is not the leader *)
(* of the payload, then installs the view and with it the primary even     *)
(* when the message is a repetition; whoever is not a member stops there.  *)
ProcessProposeMsg(r, m) ==
    /\ m \in msgs /\ m.type = "PRE_PREPARE"
    /\ m \in node[r].got => repeats /\ m.from # r
    /\ m.from # r => OwnIsIn(r)
    /\ \E S \in SUBSET Strangers(m.hash) :
        LET verified == m.from = Proposer[m.hash]
            p == IF m.from # r /\ verified THEN InstallView(node[r], m.hash, S) ELSE node[r]
            passed == /\ m.from = r \/ verified
                      /\ m.from = p.primary
                      /\ r \in Members[m.hash]
                      /\ m.from = r \/ m.hash \notin p.proposed
            first == p.main[m.seq] = None
            w == IF passed THEN [p EXCEPT !.proposed = @ \cup {m.hash}] ELSE p
            g == [w EXCEPT !.got = @ \cup {m}]
        IN  IF ~passed \/ ~Accepts(p, m.seq, m.hash, m.from)
            THEN node' = [node EXCEPT ![r] = g] /\ UNCHANGED msgs
            ELSE /\ node' = [node EXCEPT ![r] =
                        IF first THEN [g EXCEPT !.main[m.seq] = m.hash,
                                                !.status[m.seq] = "READY_PREPARE"]
                        ELSE g]
                 /\ msgs' = IF first \/ Committed(p, m.seq)
                            THEN msgs \cup {Msg("PREPARE", m.seq, m.hash, r)}
                            ELSE msgs
    /\ UNCHANGED inbox

MayVote(r, q) == q \in node[r].views => r \in Members[q]

(* A vote for q at s is there and is not refused. *)
Arrived(r, t, s, q) ==
    /\ MayVote(r, q)
    /\ {from \in Replicas : Msg(t, s, q, from) \in msgs /\ Accepts(node[r], s, q, from)} # {}

(* ProcessPrepareMsg(): the message that completes a quorum for its hash,  *)
(* or any message for a number that is committed already.                  *)
ProcessPrepareMsg(r, s, q) ==
    LET p == node[r]
    IN  /\ Arrived(r, "PREPARE", s, q)
        /\ \/ /\ Committed(p, s)
              /\ UNCHANGED node
           \/ /\ p.status[s] = "READY_PREPARE"
              /\ HasQuorum(p, "PREPARE", s, q)
              /\ node' = [node EXCEPT ![r].status[s] = "READY_COMMIT"]
        /\ msgs' = msgs \cup {Msg("COMMIT", s, q, r)}
    /\ UNCHANGED inbox

(* ProcessCommitMsg(): the quorum is counted for the hash of the message,  *)
(* but what is committed is the main request of the collector.             *)
ProcessCommitMsg(r, s, q) ==
    /\ Arrived(r, "COMMIT", s, q)
    /\ node[r].status[s] = "READY_COMMIT"
    /\ HasQuorum(node[r], "COMMIT", s, q)
    /\ node' = [node EXCEPT ![r].status[s] = "EXECUTED"]
    /\ UNCHANGED <<inbox, msgs>>

(* The executor takes the committed requests in the order of their numbers *)
(* (module Executor).                                                      *)
Execute(r) ==
    LET s == MaxExecuted(node[r]) + 1
    IN  /\ s \in Seqs /\ Committed(node[r], s)
        /\ node' = [node EXCEPT ![r].ledger = Append(@, node[r].main[s])]
    /\ UNCHANGED <<inbox, msgs>>

Receive(r) ==
    \/ \E m \in msgs : ProcessProposeMsg(r, m)
    \/ \E s \in Seqs : \E q \in Requests : ProcessPrepareMsg(r, s, q) \/ ProcessCommitMsg(r, s, q)

Submit(r) == \E q \in Requests : TriggerConsensus(r, q) \/ ProcessNewRequest(r, q)

(* A faulty replica leads a request, its own or another's, or votes under  *)
(* another name.                                                           *)
SendUnchecked(m) ==
    /\ Faulty # {} /\ m \notin msgs /\ Cardinality(unchecked) < MaxUnchecked
    /\ msgs' = msgs \cup {m} /\ unchecked' = unchecked \cup {m}
    /\ UNCHANGED <<node, inbox, repeats>>

Next == \/ /\ \E r \in Honest : Submit(r) \/ Receive(r) \/ Execute(r)
           /\ UNCHANGED <<repeats, unchecked>>
        \/ \E m \in Message : SendUnchecked(m)

Spec == Init /\ [][Next]_vars

-----------------------------------------------------------------------------
(* The fields keep their domains. *)
TypeOK ==
    /\ node \in [Honest ->
        [primary : Replicas, next_seq : 1..(MaxSeq + 1), asked : SUBSET Requests,
         proposed : SUBSET Requests, views : SUBSET Requests,
         early : [Requests -> SUBSET Replicas], got : SUBSET Message,
         status : [Seqs -> {"None", "READY_PREPARE", "READY_COMMIT", "EXECUTED"}],
         main : [Seqs -> Requests \cup {None}], ledger : Seq(Requests)]]
    /\ inbox \subseteq Honest \X Requests
    /\ msgs \subseteq Message /\ repeats \in BOOLEAN /\ unchecked \subseteq Message

(* So far faulty replicas have only cast votes under their own names, and  *)
(* nobody but a proposer that runs this code has led a request.            *)
Checked == unchecked = {}

(* No two servers commit different requests at a number, whichever of the  *)
(* vehicles that run this code was primary, in whatever order the packets  *)
(* came and whatever faulty replicas voted under their own names.  This is *)
(* less than PBFT promises: its primary may be faulty.                     *)
Agreement == Checked =>
    \A r1, r2 \in Honest : \A s \in Seqs :
        Committed(node[r1], s) /\ Committed(node[r2], s) => node[r1].main[s] = node[r2].main[s]

(* What is committed was voted for, as such, by a quorum of its members,   *)
(* although a collector counts the votes per hash and then commits its     *)
(* main request; who is not a member has no part in it (ARCHITECTURE.md:   *)
(* 2030, "non-members are non-voting").  Under Checked every vote that is  *)
(* counted here was cast by the replica it names.                          *)
Cast(t, s, q) == {r \in Members[q] : Msg(t, s, q, r) \in msgs}
CommittedHasQuorum == Checked =>
    \A r \in Honest : \A s \in Seqs : Committed(node[r], s) =>
        LET q == node[r].main[s]
        IN  /\ Cardinality(Cast("PREPARE", s, q)) >= BftQuorumSize(Cardinality(Members[q]))
            /\ Cardinality(Cast("COMMIT", s, q)) >= BftQuorumSize(Cardinality(Members[q]))

(* Something new can happen: a step other than handling a repetition.      *)
Fresh(r) ==
    \/ Submit(r) \/ Execute(r)
    \/ \E m \in msgs \ node[r].got : ProcessProposeMsg(r, m)
    \/ \E s \in Seqs : \E q \in Requests : ProcessPrepareMsg(r, s, q) \/ ProcessCommitMsg(r, s, q)
Quiescent ==
    ~ENABLED <<(\E r \in Honest : Fresh(r)) /\ UNCHANGED <<repeats, unchecked>>>>_vars

(* Nothing gets stuck once all packets have got through: every request     *)
(* that was submitted is then executed by every honest member, unless a    *)
(* repeated PRE_PREPARE diverted one of them on its way to a server that   *)
(* is not its proposer, whose PRE_PREPARE everybody refuses                *)
(* (consensus_manager_pbft.cpp:341).  That the packets get through is not  *)
(* claimed: retries are bounded, and dropped when an ORDER is applied.     *)
Diverted == \E m \in msgs : m.type = "PRE_PREPARE" /\ m.from # Proposer[m.hash]
StuckOnlyIfDiverted == Checked /\ Quiescent /\ ~Diverted =>
    \A q \in Requests :
        Proposer[q] \in Honest /\ q \in node[Proposer[q]].asked
            => \A r \in Honest \cap Members[q] : q \in Range(node[r].ledger)
=============================================================================
