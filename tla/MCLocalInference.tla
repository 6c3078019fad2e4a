-------------------------- MODULE MCLocalInference --------------------------
(* Instances of LocalInference: inputs of one batch and of more, the second
   batch being the input of another call. *)
EXTENDS LocalInference

MCInputs ==
  [k \in AllKinds |-> IF k \in Single THEN {<<"a">>, <<"b">>} ELSE {<<"a">>, <<"a", "b">>, <<"a", "b", "a">>}]
=============================================================================
