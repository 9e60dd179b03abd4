------------------------------ MODULE TlsForward ------------------------------
(***************************************************************************)
(* The client-to-target direction of one proxied connection: the task      *)
(* `forward` of proxy/src/main.rs and the record drain it calls,           *)
(* `drain_application_data` of proxy/src/tls.rs.                           *)
(*                                                                         *)
(* The client's byte stream is a sequence of TLS records.  Of a record the *)
(* model keeps what the drain reads, its type and its length, and whether  *)
(* the client meant it as application data.  Byte positions are counted    *)
(* from the start of the connection, so record i occupies the positions    *)
(* end[i-1] .. end[i]-1 and `pending` is the bytes end[base] .. received-1.*)
(* Reads and partial writes may stop at any position of SegmentEnds.       *)
(***************************************************************************)
EXTENDS Integers, Sequences, SequencesExt

CONSTANTS
  Streams,      \* the record streams a client may send
  SegmentEnds,  \* positions at which a read or a partial write may stop
  BufLen        \* size of the read buffer (8192 in the code)

HeaderLen == 5          \* type(1) + version(2) + length(2)
TagLen == 16            \* AEAD_TAG_LEN
AppDataType == 23       \* 0x17
FinishedLowByte == 53   \* the length a SHA-256 Finished has on the wire
MaxLen == 65535         \* what the two length bytes can say

PayloadLen(s, i) == s.end[i] - s.end[i-1] - HeaderLen

(* s.n records; s.typ[i], s.end[i] as above; s.app is the set of records   *)
(* whose inner content is application data (the rest of the 0x17 records   *)
(* are encrypted handshake messages and alerts).                           *)
WellFormed(s) ==
  /\ s.n \in Nat
  /\ s.typ \in [1..s.n -> 0..255]
  /\ s.end \in [0..s.n -> Nat]
  /\ s.end[0] = 0
  /\ \A i, j \in 0..s.n : i < j => s.end[i] < s.end[j]
  /\ \A i \in 1..s.n : PayloadLen(s, i) \in 0..MaxLen
  /\ s.app \in SUBSET {i \in 1..s.n : s.typ[i] = AppDataType}

ASSUME StreamsAssumption == \A s \in Streams : WellFormed(s)
ASSUME SegmentsAssumption == SegmentEnds \subseteq Nat
ASSUME BufAssumption == BufLen \in Nat \ {0}

VARIABLES
  stream,    \* what the client sends; never changes
  pc,        \* the statement of `forward` that runs next
  received,  \* bytes read from the client so far
  base,      \* records removed from the front of `pending` so far
  offset,    \* the drain's `offset`, as a number of records of the stream
  out,       \* the drain's `out`: the records whose ciphertext it holds
  cipher,    \* `cipher_stream`, as the records whose ciphertext it holds
  attested,  \* the value of `cipher` under the last commitment printed
  sent,      \* bytes written to the target so far
  mixed      \* history: some pass over two or more records met a
             \* record whose low length byte is 53

vars == <<stream, pc, received, base, offset, out, cipher, attested, sent, mixed>>

Len8(s, i) == PayloadLen(s, i) % 256

Init ==
  /\ stream \in Streams
  /\ pc = "read"
  /\ received = 0 /\ base = 0 /\ offset = 0 /\ sent = 0
  /\ out = <<>> /\ cipher = <<>> /\ attested = <<>>
  /\ mixed = FALSE

(* The while loop's condition and its break: a whole record is at offset.  *)
RecordAtOffset ==
  /\ stream.end[offset] + HeaderLen <= received
  /\ stream.end[offset + 1] <= received

(* Fault: Finished records are not filtered out.                           *)
SelectedAnyLength(i) ==
  /\ stream.typ[i] = AppDataType
  /\ PayloadLen(stream, i) > TagLen

(* Is record i added to `out`?  The code tests the type of the record at   *)
(* offset, but pending[4] is the low length byte of the record at the      *)
(* front of `pending`.  A payload of exactly the tag adds no byte.         *)
Selected(i) ==
  /\ stream.typ[i] = AppDataType
  /\ Len8(stream, base + 1) # FinishedLowByte
  /\ PayloadLen(stream, i) > TagLen

Clash(i) == Len8(stream, i) = FinishedLowByte

-------------------------------------------------------------------------------
(* Faults a change of this code could introduce; none is part of Next.  The *)
(* runs show that each breaks the property that guards against it.         *)

\* the chunk is written before it is drained and committed
ReadForwardsFirst ==
  /\ pc = "read"
  /\ \E r \in SegmentEnds :
       /\ received < r /\ r <= received + BufLen /\ r <= stream.end[stream.n]
       /\ received' = r /\ sent' = r
  /\ pc' = "drain" /\ offset' = base /\ out' = <<>>
  /\ UNCHANGED <<stream, base, cipher, attested, mixed>>

\* the loop moves on only past application data
DrainRecordStuck ==
  /\ pc = "drain" /\ RecordAtOffset
  /\ out' = IF Selected(offset + 1) THEN Append(out, offset + 1) ELSE out
  /\ offset' = IF stream.typ[offset + 1] = AppDataType THEN offset + 1 ELSE offset
  /\ UNCHANGED <<stream, pc, received, base, cipher, attested, sent, mixed>>

\* pending.drain(..offset) is forgotten: the next call sees the records again
DrainEndKeepsPending ==
  /\ pc = "drain" /\ ~RecordAtOffset
  /\ cipher' = cipher \o out
  /\ attested' = IF out # <<>> THEN cipher' ELSE attested
  /\ pc' = "write"
  /\ UNCHANGED <<stream, received, base, offset, out, sent, mixed>>

\* `if` for `while`: one record per call
DrainEndEarly ==
  /\ pc = "drain" /\ (offset > base \/ ~RecordAtOffset)
  /\ base' = offset
  /\ cipher' = cipher \o out
  /\ attested' = IF out # <<>> THEN cipher' ELSE attested
  /\ pc' = "write"
  /\ UNCHANGED <<stream, received, offset, out, sent, mixed>>

\* write for write_all: the rest of the chunk is forgotten
WriteOnce ==
  /\ pc = "write"
  /\ \E w \in SegmentEnds : sent < w /\ w <= received /\ sent' = w
  /\ pc' = "read"
  /\ UNCHANGED <<stream, received, base, offset, out, cipher, attested, mixed>>

\* write_all(&buffer) for write_all(chunk): stale bytes follow the chunk
WriteWholeBuffer ==
  /\ pc = "write"
  /\ \E w \in SegmentEnds : sent < w /\ w <= sent + BufLen /\ sent' = w
  /\ pc' = IF sent' >= received THEN "read" ELSE "write"
  /\ UNCHANGED <<stream, received, base, offset, out, cipher, attested, mixed>>

-------------------------------------------------------------------------------
(* from.read(&mut buffer) returns n > 0 bytes, which join `pending`; the   *)
(* drain starts at the front of `pending`.                                 *)
Read ==
  /\ pc = "read"
  /\ \E r \in SegmentEnds :
       /\ received < r /\ r <= received + BufLen
       /\ r <= stream.end[stream.n]
       /\ received' = r
  /\ pc' = "drain"
  /\ offset' = base
  /\ out' = <<>>
  /\ UNCHANGED <<stream, base, cipher, attested, sent, mixed>>

DrainRecord ==
  /\ pc = "drain"
  /\ RecordAtOffset
  /\ out' = IF Selected(offset + 1) THEN Append(out, offset + 1) ELSE out
  /\ offset' = offset + 1
  /\ UNCHANGED <<stream, pc, received, base, cipher, attested, sent, mixed>>

(* The drain returns: it has removed the records before offset.  A         *)
(* commitment to the whole of cipher_stream is printed when it returned    *)
(* some ciphertext.                                                        *)
DrainEnd ==
  /\ pc = "drain"
  /\ ~RecordAtOffset
  /\ base' = offset
  /\ cipher' = cipher \o out
  /\ attested' = IF out # <<>> THEN cipher' ELSE attested
  /\ mixed' = (mixed \/ (offset > base + 1 /\ \E i \in base+1 .. offset : Clash(i)))
  /\ pc' = "write"
  /\ UNCHANGED <<stream, received, offset, out, sent>>

(* One successful write of write_all(chunk), which returns when the chunk  *)
(* is out.                                                                 *)
Write ==
  /\ pc = "write"
  /\ \E w \in SegmentEnds :
       /\ sent < w /\ w <= received
       /\ sent' = w
  /\ pc' = IF sent' = received THEN "read" ELSE "write"
  /\ UNCHANGED <<stream, received, base, offset, out, cipher, attested, mixed>>

(* A read or a write that fails makes `forward` return Err.                *)
IoError ==
  /\ pc \in {"read", "write"}
  /\ pc' = "failed"
  /\ UNCHANGED <<stream, received, base, offset, out, cipher, attested, sent, mixed>>

(* read returns 0: the client closed, wherever in a record it was.         *)
Eof ==
  /\ pc = "read"
  /\ pc' = "done"
  /\ UNCHANGED <<stream, received, base, offset, out, cipher, attested, sent, mixed>>

Next == Read \/ DrainRecord \/ DrainEnd \/ Write \/ IoError \/ Eof

(* The drain is straight-line code, and the task is polled when the target *)
(* takes more bytes, which it is assumed to do while the connection is up; *)
(* nothing is assumed of the client.                                       *)
Fairness == WF_vars(DrainRecord) /\ WF_vars(DrainEnd) /\ WF_vars(Write)

Spec == Init /\ [][Next]_vars
FairSpec == Spec /\ Fairness

-------------------------------------------------------------------------------

(* Every variable holds a value of its type, and the positions are in the  *)
(* order the relay moves them: sent and the drained records are behind     *)
(* what was received.                                                      *)
TypeOK ==
  /\ stream \in Streams
  /\ pc \in {"read", "drain", "write", "done", "failed"}
  /\ received \in 0 .. stream.end[stream.n]
  /\ base \in 0 .. stream.n
  /\ offset \in base .. stream.n
  /\ out \in Seq(1 .. stream.n)
  /\ cipher \in Seq(1 .. stream.n)
  /\ attested \in Seq(1 .. stream.n)
  /\ sent \in 0 .. received
  /\ mixed \in BOOLEAN

Increasing(q) == \A i, j \in 1 .. Len(q) : i < j => q[i] < q[j]

(* The order of lines 25-40 of main.rs: when the target holds all of a     *)
(* record, that record has been drained, and if its ciphertext went to     *)
(* cipher_stream then a commitment that covers it has been printed.  The   *)
(* proxy never lets out data it has not attested yet.                      *)
AttestedBeforeForwarded ==
  \A i \in 1 .. stream.n :
    stream.end[i] <= sent =>
      /\ i <= base
      /\ i \in ToSet(cipher) => i \in ToSet(attested)

(* The committed stream holds ciphertext in wire order, each record once,  *)
(* however records are split over reads and coalesced in them.             *)
CipherInWireOrder == Increasing(cipher) /\ \A i \in ToSet(cipher) : i <= base

(* Outside the drain no complete record stays behind in `pending`, and     *)
(* what is there is less than one record (tls.rs:5, "Incomplete trailing   *)
(* bytes stay in pending").                                                *)
PendingIsPartial ==
  pc # "drain" =>
    /\ stream.end[base] <= received
    /\ base < stream.n => received < stream.end[base + 1]

(* At the loop's head, and after a clean end, every byte read from the     *)
(* client has been written to the target: the relay holds nothing back.    *)
RelayTransparent == pc \in {"read", "done"} => sent = received

(* The stream's only 0x17 records of length 53 modulo 256 are the ones     *)
(* that carry no application data, and only they carry none.               *)
LengthTellsFinished(s) ==
  \A i \in 1 .. s.n : s.typ[i] = AppDataType =>
    (i \in s.app <=> Len8(s, i) # FinishedLowByte /\ PayloadLen(s, i) > TagLen)

(* When the length byte does tell a Finished from application data and no  *)
(* pass coalesced a record of that length with another one, the committed  *)
(* stream is exactly the application data received.                        *)
ExactUnlessMixed ==
  pc # "drain" /\ ~mixed /\ LengthTellsFinished(stream) =>
    ToSet(cipher) = stream.app \cap (1 .. base)

(* The records the target holds completely.                                *)
DeliveredRecords == {i \in 1 .. stream.n : stream.end[i] <= sent}

Promise == INSTANCE AttestedRelay
             WITH taken <- base, log <- attested, delivered <- DeliveredRecords

(* `forward` does what AttestedRelay promises, wherever reads and writes   *)
(* are cut: a printed commitment is never retracted or reordered, a record *)
(* enters the log in the pass that takes it from `pending` or never, and   *)
(* is handed on only afterwards.                                           *)
ImplementsAttestedRelay == Promise!Spec

(* Every byte read is written to the target unless the task fails: the     *)
(* drain loop always advances and ends.                                    *)
ReadIsForwarded ==
  \A k \in SegmentEnds : (received = k) ~> (sent >= k \/ pc = "failed")

(* What the doc comment of drain_application_data (tls.rs:3-5) promises of *)
(* complete records: their application data has been returned, and so is   *)
(* in cipher_stream.                                                       *)
DrainReturnsAllAppData ==
  pc = "read" => stream.app \cap (1 .. base) \subseteq ToSet(cipher)

===============================================================================
