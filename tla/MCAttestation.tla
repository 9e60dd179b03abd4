---------------------------- MODULE MCAttestation ----------------------------
(* Attestation with requests of one and two records, within and across     *)
(* ChaCha20 blocks, two of them of a length whose record looks like a      *)
(* Finished (36 + 17 = 53, 292 + 17 = 309 = 256 + 53).                     *)
EXTENDS Attestation

MCRequests == {<<20>>, <<64>>, <<65>>, <<36>>, <<292>>, <<64, 84>>, <<36, 56>>, <<20, 56>>}

(* Record ends, and a cut inside each next header.                         *)
MCSegmentEnds ==
  LET streams == {StreamOf(q, s) : q \in MCRequests, s \in Suites}
      ends == UNION {{t.end[i] : i \in 1 .. t.n} : t \in streams}
  IN ends \cup {e + 3 : e \in ends}
===============================================================================
