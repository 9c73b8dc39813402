---------------------------- MODULE MCForwarder ----------------------------
(* Instances of Forwarder for TLC: the encoded sizes of the events.        *)
EXTENDS Forwarder

UniformSizes == [e \in Events |-> 1]
OneHuge      == [e \in Events |-> IF e = 2 THEN 5 ELSE 1]
=============================================================================
