---------------------------- MODULE MCCertificates ----------------------------
EXTENDS Certificates

\* Bound: once a vehicle took a CANCEL frame of a faulty one, a behaviour is followed
\* until the CANCEL is committed somewhere; the collector does not read what follows, and
\* the evidence of CLEAR does not read the collector.
FaultyHorizon ==
    \A r, p \in Honest :
        \/ app[r].unmatched = {} /\ (app[r].echoes \cup app[r].carriers) \cap Faulty = {}
        \/ app[p].phase \in {"NONE", "CONSENSUS"}
==============================================================================
