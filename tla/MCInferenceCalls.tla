-------------------------- MODULE MCInferenceCalls --------------------------
(* Two calls with the same semantics, hence the same idempotency key. *)
EXTENDS InferenceCalls, TLC
CONSTANTS cA, cB
MCSymmetry == Permutations(Calls)
MCKeyOf == [c \in Calls |-> "k"]
=============================================================================
