---------------------------- MODULE AttestedRelay ----------------------------
(***************************************************************************)
(* What a relay that attests to the client's data promises of one          *)
(* connection, whatever its buffers, reads and writes: records are taken   *)
(* in order, the log of those attested to only grows and stays in order,   *)
(* and the target gets nothing that was not taken first.  TlsForward is    *)
(* shown to implement it.                                                  *)
(***************************************************************************)
EXTENDS Integers, Sequences

VARIABLES
  taken,     \* number of records taken from the client
  log,       \* records attested to, in the order of the attestation
  delivered  \* records the target holds completely

vars == <<taken, log, delivered>>

Init == taken = 0 /\ log = <<>> /\ delivered = {}

(* The attestation grows by some of the records just taken, in order; what *)
(* is in it stays.                                                         *)
Attest ==
  /\ taken <= taken'
  /\ Len(log) <= Len(log')
  /\ \A i \in 1 .. Len(log) : log'[i] = log[i]
  /\ \A i \in Len(log) + 1 .. Len(log') : taken < log'[i] /\ log'[i] <= taken'
  /\ \A i, j \in Len(log) + 1 .. Len(log') : i < j => log'[i] < log'[j]
  /\ UNCHANGED delivered

Deliver ==
  /\ delivered \subseteq delivered'
  /\ \A i \in delivered' : i <= taken
  /\ UNCHANGED <<taken, log>>

Next == Attest \/ Deliver

Spec == Init /\ [][Next]_vars
===============================================================================
