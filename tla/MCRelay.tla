------------------------------- MODULE MCRelay -------------------------------
(* Relay on connections that compete for the descriptors of the proxy.     *)
EXTENDS Relay, TLC

ConnSymmetry == Permutations(Conns)
===============================================================================
