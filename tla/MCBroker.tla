------------------------------- MODULE MCBroker -------------------------------
(* Small instances of Broker.                                              *)
EXTENDS Broker, TLC

CONSTANTS a, k1, k2, s1

(* All connections are of one client, and interchangeable.                 *)
OneClient == [k \in Conns |-> a]

ConnSymmetry == Permutations(Conns)

OneShard == [c \in Clients |-> s1]
=============================================================================
