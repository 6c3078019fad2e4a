--------------------------- MODULE MCInferenceJobs ---------------------------
(* qA and qB are two calls with the same semantics (one key, two request ids), *)
(* qC is another call, and qD reuses the request id of qA with another key.    *)
EXTENDS InferenceJobs

CONSTANTS qA, qB, qC, qD, c1, c2

MCRequests == {qA, qB, qC, qD}
MCIds == {"r1", "r2", "r3"}
MCIdOf == [q \in MCRequests |-> CASE q \in {qA, qD} -> "r1"
                                  [] q = qB -> "r2" [] q = qC -> "r3"]
MCKeys == {"k1", "k2", "k3"}
MCKeyOf == [q \in MCRequests |-> CASE q \in {qA, qB} -> "k1"
                                   [] q = qC -> "k2" [] q = qD -> "k3"]
MCCancellers == {c1, c2}
=============================================================================
