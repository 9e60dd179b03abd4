----------------------------- MODULE MCTlsForward -----------------------------
(* TlsForward with four client streams, cut at and around the boundaries   *)
(* of their records.  Handshake and record sizes are those of a rustls     *)
(* TLS 1.3 client.                                                         *)
EXTENDS TlsForward

(* The stream of the given record types and payload lengths.               *)
MkStream(types, lens, appData) ==
  LET e[i \in 0 .. Len(types)] ==
        IF i = 0 THEN 0 ELSE e[i-1] + HeaderLen + lens[i]
  IN [n |-> Len(types), typ |-> types, end |-> e, app |-> appData]

\* ClientHello, Finished, then one request
Plain == MkStream(<<22, 23, 23>>, <<200, 53, 120>>, {3})
\* the compatibility CCS before Finished, and a request of two records, the
\* first of the largest size
Large == MkStream(<<22, 20, 23, 23, 23>>, <<200, 1, 53, 16401, 120>>, {4, 5})
\* the request's record has the low length byte of a Finished (309 = 256 + 53)
Clashing == MkStream(<<22, 23, 23>>, <<200, 53, 309>>, {3})
\* a SHA-384 Finished, an empty 0x17 record and an encrypted alert
Odd == MkStream(<<22, 23, 23, 23, 23>>, <<200, 69, 16, 120, 19>>, {4})

MCStreams == {Plain, Large, Clashing, Odd}

Ends == UNION {{s.end[i] : i \in 1 .. s.n} : s \in MCStreams}

(* Every record's end, a cut inside the next header, and cuts inside the   *)
(* large record that keep reads within the buffer.                         *)
MCSegmentEnds ==
  Ends \cup {e + 2 : e \in Ends} \cup {205 + 6 + 58 + 8000, 205 + 6 + 58 + 16000}
===============================================================================
