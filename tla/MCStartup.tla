----------------------------- MODULE MCStartup -----------------------------
(* Instances of Startup for TLC: servers are interchangeable.              *)
EXTENDS Startup, TLC

\* A server is started twice, the script once.
TwiceAndOnce == [p \in Servers \union Scripts |-> IF p \in Servers THEN 2 ELSE 1]

ServerSymmetry == Permutations(Servers)
============================================================================
