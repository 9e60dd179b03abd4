-------------------------- MODULE TlsForwardProofs --------------------------
(* Proofs about TlsForward, for every set of well-formed client streams,   *)
(* every way of cutting them into reads and writes and every buffer size.  *)
EXTENDS TlsForward, TLAPS

(* While the drain runs, what it has collected lies in wire order between  *)
(* base and offset.                                                        *)
DrainOK ==
  pc = "drain" =>
    /\ stream.end[offset] <= received
    /\ Increasing(out)
    /\ \A i \in ToSet(out) : base < i /\ i <= offset

(* The target never holds the end of a record that is still pending.       *)
SentBehind == base < stream.n => sent < stream.end[base + 1]

IInv ==
  /\ TypeOK
  /\ DrainOK
  /\ CipherInWireOrder
  /\ attested = cipher
  /\ PendingIsPartial
  /\ stream.end[base] <= received
  /\ SentBehind
  /\ RelayTransparent


-----------------------------------------------------------------------------

(* What the stream assumption gives for the stream of the connection.      *)
LEMMA StreamFacts ==
  ASSUME NEW s \in Streams
  PROVE  /\ s.n \in Nat
         /\ s.typ \in [1..s.n -> 0..255]
         /\ s.end \in [0..s.n -> Nat]
         /\ s.end[0] = 0
         /\ \A i, j \in 0..s.n : i < j => s.end[i] < s.end[j]
         /\ \A i \in 1..s.n : s.end[i-1] + HeaderLen <= s.end[i]
         /\ s.app \subseteq 1..s.n
<1>1. WellFormed(s)
  BY StreamsAssumption
<1>2. ASSUME NEW i \in 1..s.n
      PROVE  s.end[i-1] + HeaderLen <= s.end[i]
  <2>1. i \in 0..s.n /\ i - 1 \in 0..s.n
    BY <1>1 DEF WellFormed
  <2>2. s.end[i] \in Nat /\ s.end[i-1] \in Nat
    BY <1>1, <2>1 DEF WellFormed
  <2>3. PayloadLen(s, i) \in 0 .. MaxLen
    BY <1>1 DEF WellFormed
  <2>4. PayloadLen(s, i) >= 0
    BY <2>3
  <2> QED
    BY <2>2, <2>4 DEF PayloadLen, HeaderLen
<1> QED
  BY <1>1, <1>2 DEF WellFormed

(* The integers of a well-typed state.                                     *)
LEMMA TypeFacts ==
  ASSUME TypeOK
  PROVE  /\ stream \in Streams /\ stream.n \in Nat
         /\ stream.end \in [0..stream.n -> Nat]
         /\ stream.end[stream.n] \in Nat
         /\ received \in Nat /\ received <= stream.end[stream.n]
         /\ base \in Nat /\ base <= offset
         /\ offset \in Nat /\ offset <= stream.n
         /\ sent \in Nat /\ sent <= received
<1>1. stream \in Streams
  BY DEF TypeOK
<1>2. stream.n \in Nat /\ stream.end \in [0..stream.n -> Nat]
  BY <1>1, StreamFacts
<1>3. stream.end[stream.n] \in Nat
  BY <1>2
<1>4. received \in 0 .. stream.end[stream.n] /\ base \in 0 .. stream.n
      /\ offset \in base .. stream.n /\ sent \in 0 .. received
  BY DEF TypeOK
<1> QED
  BY <1>1, <1>2, <1>3, <1>4

(* Membership in Seq for the sequences the task builds.                    *)
LEMMA SeqFacts ==
  ASSUME NEW S, NEW q \in Seq(S)
  PROVE  /\ ToSet(q) \subseteq S
         /\ \A e \in S : Append(q, e) \in Seq(S)
         /\ \A r \in Seq(S) : q \o r \in Seq(S)
         /\ \A T : S \subseteq T => q \in Seq(T)
<1>1. ToSet(q) \subseteq S
  BY DEF ToSet
<1>2. ASSUME NEW T, S \subseteq T
      PROVE  q \in Seq(T)
  BY <1>2
<1> QED
  BY <1>1, <1>2

(* Appending to a sequence adds the new element to its set.                *)
LEMMA ToSetAppend ==
  ASSUME NEW S, NEW q \in Seq(S), NEW e \in S
  PROVE  ToSet(Append(q, e)) = ToSet(q) \cup {e}
<1> DEFINE r == Append(q, e)
<1>1. Len(q) \in Nat /\ DOMAIN q = 1 .. Len(q) /\ DOMAIN r = 1 .. Len(q) + 1
  OBVIOUS
<1>2. r[Len(q) + 1] = e /\ \A i \in 1 .. Len(q) : r[i] = q[i]
  OBVIOUS
<1> QED
  BY <1>1, <1>2 DEF ToSet

(* The set of a concatenation is the union of the sets.                    *)
LEMMA ToSetConcat ==
  ASSUME NEW S, NEW q \in Seq(S), NEW r \in Seq(S)
  PROVE  ToSet(q \o r) = ToSet(q) \cup ToSet(r)
<1> DEFINE t == q \o r
<1>1. /\ Len(q) \in Nat /\ Len(r) \in Nat
      /\ DOMAIN q = 1 .. Len(q) /\ DOMAIN r = 1 .. Len(r)
      /\ DOMAIN t = 1 .. Len(q) + Len(r)
  OBVIOUS
<1>2. /\ \A i \in 1 .. Len(q) : t[i] = q[i]
      /\ \A i \in 1 .. Len(r) : t[Len(q) + i] = r[i]
      /\ \A i \in Len(q) + 1 .. Len(q) + Len(r) : t[i] = r[i - Len(q)]
  OBVIOUS
<1>3. ToSet(q) \cup ToSet(r) \subseteq ToSet(t)
  <2>1. ASSUME NEW i \in 1 .. Len(q) PROVE q[i] \in ToSet(t)
    <3>1. i \in DOMAIN t /\ t[i] = q[i]  BY <1>1, <1>2
    <3> HIDE DEF t
    <3> QED  BY <3>1 DEF ToSet
  <2>2. ASSUME NEW i \in 1 .. Len(r) PROVE r[i] \in ToSet(t)
    <3>1. Len(q) + i \in DOMAIN t  BY <1>1
    <3>2. t[Len(q) + i] = r[i]  BY <1>2
    <3> HIDE DEF t
    <3> QED  BY <3>1, <3>2 DEF ToSet
  <2>3. ToSet(q) \subseteq ToSet(t)
    <3> HIDE DEF t
    <3> QED  BY <2>1, <1>1 DEF ToSet
  <2>4. ToSet(r) \subseteq ToSet(t)
    <3> HIDE DEF t
    <3> QED  BY <2>2, <1>1 DEF ToSet
  <2> QED
    BY <2>3, <2>4
<1>4. ToSet(t) \subseteq ToSet(q) \cup ToSet(r)
  <2> SUFFICES ASSUME NEW i \in 1 .. Len(q) + Len(r)
               PROVE  t[i] \in ToSet(q) \cup ToSet(r)
    BY <1>1 DEF ToSet
  <2>1. CASE i \in 1 .. Len(q)
    BY <2>1, <1>1, <1>2 DEF ToSet
  <2>2. CASE i \in Len(q) + 1 .. Len(q) + Len(r)
    <3>1. i - Len(q) \in 1 .. Len(r)
      BY <2>2, <1>1
    <3> QED
      BY <3>1, <2>2, <1>1, <1>2 DEF ToSet
  <2> QED
    BY <2>1, <2>2, <1>1
<1> QED
  BY <1>3, <1>4

(* A larger element keeps an increasing sequence increasing.               *)
LEMMA IncreasingAppend ==
  ASSUME NEW q \in Seq(Nat), NEW e \in Nat, Increasing(q),
         \A i \in ToSet(q) : i < e
  PROVE  Increasing(Append(q, e))
<1>1. Len(q) \in Nat /\ DOMAIN q = 1 .. Len(q) /\ Len(Append(q, e)) = Len(q) + 1
  OBVIOUS
<1>2. /\ Append(q, e)[Len(q) + 1] = e
      /\ \A i \in 1 .. Len(q) : Append(q, e)[i] = q[i] /\ q[i] < e
  BY <1>1 DEF ToSet
<1> QED
  BY <1>1, <1>2 DEF Increasing

(* So does a larger increasing sequence.                                   *)
LEMMA IncreasingConcat ==
  ASSUME NEW q \in Seq(Nat), NEW r \in Seq(Nat), Increasing(q), Increasing(r),
         \A i \in ToSet(q), j \in ToSet(r) : i < j
  PROVE  Increasing(q \o r)
<1> DEFINE t == q \o r
<1>1. /\ Len(q) \in Nat /\ Len(r) \in Nat /\ Len(t) = Len(q) + Len(r)
      /\ DOMAIN q = 1 .. Len(q) /\ DOMAIN r = 1 .. Len(r)
  OBVIOUS
<1>2. /\ \A i \in 1 .. Len(q) : t[i] = q[i]
      /\ \A i \in Len(q) + 1 .. Len(t) : t[i] = r[i - Len(q)] /\ i - Len(q) \in 1 .. Len(r)
  BY <1>1
<1>3. /\ \A i \in 1 .. Len(q) : t[i] \in ToSet(q)
      /\ \A i \in Len(q) + 1 .. Len(t) : t[i] \in ToSet(r)
  BY <1>1, <1>2 DEF ToSet
<1> SUFFICES ASSUME NEW i \in 1 .. Len(t), NEW j \in 1 .. Len(t), i < j
             PROVE  t[i] < t[j]
  BY DEF Increasing
<1>4. CASE j <= Len(q)
  BY <1>4, <1>1, <1>2 DEF Increasing
<1>5. CASE i > Len(q)
  <2>1. i - Len(q) \in 1 .. Len(r) /\ j - Len(q) \in 1 .. Len(r) /\ i - Len(q) < j - Len(q)
    BY <1>5, <1>1
  <2>2. r[i - Len(q)] < r[j - Len(q)]
    BY <2>1 DEF Increasing
  <2>3. t[i] = r[i - Len(q)] /\ t[j] = r[j - Len(q)]
    BY <1>5, <1>1, <1>2
  <2> QED
    BY <2>2, <2>3
<1>6. CASE i <= Len(q) /\ j > Len(q)
  <2>1. t[i] \in ToSet(q) /\ t[j] \in ToSet(r)
    BY <1>6, <1>1, <1>2, <1>3
  <2> QED
    BY <2>1
<1> QED
  BY <1>1, <1>4, <1>5, <1>6

-----------------------------------------------------------------------------

LEMMA InitIInv == Init => IInv
<1> SUFFICES ASSUME Init PROVE IInv
  OBVIOUS
<1>1. stream \in Streams
  BY DEF Init
<1>2. stream.n \in Nat /\ stream.end \in [0..stream.n -> Nat] /\ stream.end[0] = 0
  BY <1>1, StreamFacts
<1>3. \A i, j \in 0..stream.n : i < j => stream.end[i] < stream.end[j]
  BY <1>1, StreamFacts
<1>4. 0 \in 0..stream.n /\ stream.n \in 0..stream.n /\ stream.end[stream.n] \in Nat
  BY <1>2
<1>5. TypeOK
  <2>1. <<>> \in Seq(1 .. stream.n) /\ 0 \in 0 .. stream.end[stream.n]
    BY <1>4
  <2>2. received = 0 /\ base = 0 /\ offset = 0 /\ sent = 0 /\ pc = "read"
    BY DEF Init
  <2>3. /\ received \in 0 .. stream.end[stream.n] /\ base \in 0 .. stream.n
        /\ offset \in base .. stream.n /\ sent \in 0 .. received
    BY <2>1, <2>2, <1>4
  <2>4. mixed \in BOOLEAN
    BY DEF Init
  <2> QED
    BY <1>1, <2>1, <2>2, <2>3, <2>4 DEF TypeOK, Init
<1>6. ToSet(<<>>) = {} /\ Increasing(<<>>)
  BY DEF ToSet, Increasing
<1>7. 0 < stream.n => 0 < stream.end[1]
  BY <1>2, <1>3
<1>8. CipherInWireOrder
  BY <1>6 DEF CipherInWireOrder, Init
<1> QED
  BY <1>2, <1>5, <1>7, <1>8
     DEF IInv, Init, DrainOK, PendingIsPartial, SentBehind, RelayTransparent

(* The whole record at the offset is a record of the stream.               *)
LEMMA RecordFacts ==
  ASSUME TypeOK, RecordAtOffset
  PROVE  offset + 1 \in 1 .. stream.n
<1>1. offset # stream.n
  BY TypeFacts DEF RecordAtOffset, HeaderLen
<1> QED
  BY <1>1, TypeFacts

LEMMA ReadStep == IInv /\ Read => IInv'
<1> SUFFICES ASSUME IInv, Read PROVE IInv'
  OBVIOUS
<1>1. stream \in Streams /\ stream' = stream /\ base \in 0 .. stream.n
  BY DEF IInv, TypeOK, Read
<1>2. stream.n \in Nat /\ stream.end \in [0..stream.n -> Nat]
  BY <1>1, StreamFacts
<1>3. received' \in Nat /\ received < received' /\ received' <= stream.end[stream.n]
  BY SegmentsAssumption DEF Read
<1>4. received \in Nat /\ sent \in 0 .. received /\ stream.end[base] \in Nat
  <2>1. received \in Nat /\ sent \in 0 .. received
    BY TypeFacts DEF IInv
  <2>2. stream.end[base] \in Nat
    BY <1>1, <1>2
  <2> QED
    BY <2>1, <2>2
<1>5. stream.end[stream.n] \in Nat
  BY <1>2
<1>6. ToSet(<<>>) = {} /\ Increasing(<<>>) /\ <<>> \in Seq(1 .. stream.n)
  BY DEF ToSet, Increasing
<1>7. TypeOK'
  BY <1>1, <1>2, <1>3, <1>4, <1>5, <1>6 DEF IInv, TypeOK, Read
<1>8. DrainOK'
  BY <1>1, <1>3, <1>4, <1>6 DEF IInv, DrainOK, Read
<1>9. (stream.end[base] <= received)'
  BY <1>1, <1>3, <1>4 DEF IInv, Read
<1>10. CipherInWireOrder' /\ (attested = cipher)'
  BY DEF IInv, CipherInWireOrder, Read
<1>11. PendingIsPartial' /\ RelayTransparent' /\ SentBehind'
  BY <1>1 DEF IInv, PendingIsPartial, RelayTransparent, SentBehind, Read
<1> QED
  BY <1>7, <1>8, <1>9, <1>10, <1>11 DEF IInv

LEMMA DrainRecordStep == IInv /\ DrainRecord => IInv'
<1> SUFFICES ASSUME IInv, DrainRecord PROVE IInv'
  OBVIOUS
<1>1. stream \in Streams /\ base \in 0 .. stream.n /\ offset \in base .. stream.n
  BY DEF IInv, TypeOK
<1>2. stream.n \in Nat
  BY <1>1, StreamFacts
<1>3. RecordAtOffset /\ offset + 1 \in 1 .. stream.n
  BY RecordFacts DEF IInv, DrainRecord
<1>4. out \in Seq(1 .. stream.n) /\ out \in Seq(Nat)
  <2>1. out \in Seq(1 .. stream.n) /\ 1 .. stream.n \subseteq Nat
    BY DEF IInv, TypeOK
  <2> QED
    BY <2>1, SeqFacts
<1>5. pc = "drain" /\ Increasing(out) /\ \A i \in ToSet(out) : base < i /\ i <= offset
  BY DEF IInv, DrainOK, DrainRecord
<1>6. out' = Append(out, offset + 1) \/ out' = out
  BY DEF DrainRecord
<1>7. out' \in Seq(1 .. stream.n)
  <2>1. Append(out, offset + 1) \in Seq(1 .. stream.n)
    BY <1>3, <1>4, SeqFacts
  <2> QED
    BY <2>1, <1>4, <1>6
<1>8. ToSet(out') \subseteq ToSet(out) \cup {offset + 1}
  <2>1. ToSet(Append(out, offset + 1)) = ToSet(out) \cup {offset + 1}
    BY <1>3, <1>4, ToSetAppend
  <2> QED
    BY <2>1, <1>6
<1>9. ToSet(out) \subseteq 1 .. stream.n
  BY <1>4, SeqFacts
<1>10. \A i \in ToSet(out') : base < i /\ i <= offset + 1
  BY <1>1, <1>2, <1>5, <1>8, <1>9
<1>11. Increasing(out')
  <2>1. \A i \in ToSet(out) : i < offset + 1
    BY <1>1, <1>2, <1>5, <1>9
  <2>2. offset + 1 \in Nat
    BY <1>3
  <2>3. Increasing(Append(out, offset + 1))
    BY <2>1, <2>2, <1>4, <1>5, IncreasingAppend
  <2> QED
    BY <2>3, <1>5, <1>6
<1>12. TypeOK'
  BY <1>1, <1>2, <1>3, <1>7 DEF IInv, TypeOK, DrainRecord
<1>13. DrainOK'
  BY <1>3, <1>10, <1>11 DEF DrainOK, DrainRecord, RecordAtOffset
<1> QED
  BY <1>5, <1>12, <1>13
     DEF IInv, DrainRecord, CipherInWireOrder, PendingIsPartial, SentBehind, RelayTransparent

LEMMA DrainEndStep == IInv /\ DrainEnd => IInv'
<1> SUFFICES ASSUME IInv, DrainEnd PROVE IInv'
  OBVIOUS
<1>1. stream \in Streams /\ base \in 0 .. stream.n /\ offset \in base .. stream.n
  BY DEF IInv, TypeOK
<1>2. stream.n \in Nat /\ stream.end \in [0..stream.n -> Nat]
  BY <1>1, StreamFacts
<1>3. /\ out \in Seq(1 .. stream.n) /\ cipher \in Seq(1 .. stream.n)
      /\ out \in Seq(Nat) /\ cipher \in Seq(Nat)
  <2>1. out \in Seq(1 .. stream.n) /\ cipher \in Seq(1 .. stream.n)
    BY DEF IInv, TypeOK
  <2> DEFINE S == 1 .. stream.n
  <2>2. S \subseteq Nat
    OBVIOUS
  <2>3. out \in Seq(S) /\ cipher \in Seq(S)
    BY <2>1
  <2> HIDE DEF S
  <2>4. out \in Seq(Nat) /\ cipher \in Seq(Nat)
    BY <2>2, <2>3, SeqFacts
  <2> QED
    BY <2>1, <2>4
<1>4. ToSet(out) \subseteq 1 .. stream.n /\ ToSet(cipher) \subseteq 1 .. stream.n
  BY <1>3, SeqFacts
<1>5. /\ stream.end[offset] <= received
      /\ Increasing(out) /\ Increasing(cipher)
      /\ \A i \in ToSet(out) : base < i /\ i <= offset
      /\ \A i \in ToSet(cipher) : i <= base
  BY DEF IInv, DrainOK, CipherInWireOrder, DrainEnd
<1>6. cipher' = cipher \o out /\ base' = offset /\ stream' = stream
  BY DEF DrainEnd
<1>7. cipher' \in Seq(1 .. stream.n)
  BY <1>3, <1>6, SeqFacts
<1>8. ToSet(cipher') = ToSet(cipher) \cup ToSet(out)
  BY <1>3, <1>6, ToSetConcat
<1>9. CipherInWireOrder'
  <2>1. \A i \in ToSet(cipher), j \in ToSet(out) : i < j
    BY <1>1, <1>2, <1>4, <1>5
  <2>2. Increasing(cipher')
    BY <2>1, <1>3, <1>5, <1>6, IncreasingConcat
  <2>3. \A i \in ToSet(cipher') : i <= offset
    BY <1>1, <1>2, <1>4, <1>5, <1>8
  <2> QED
    BY <2>2, <2>3, <1>6 DEF CipherInWireOrder
<1>10. attested' = cipher'
  <2>1. attested = cipher
    BY DEF IInv
  <2>2. CASE out = <<>>
    <3>1. cipher \o out = cipher
      BY <2>2, <1>3
    <3> QED
      BY <3>1, <2>1, <2>2, <1>6 DEF DrainEnd
  <2>3. CASE out # <<>>
    BY <2>3 DEF DrainEnd
  <2> QED
    BY <2>2, <2>3
<1>11. TypeOK'
  <2>1. offset \in 0 .. stream.n /\ offset \in offset .. stream.n
    BY <1>1, <1>2
  <2>2. mixed' \in BOOLEAN
    BY DEF IInv, TypeOK, DrainEnd
  <2> QED
    BY <2>1, <2>2, <1>6, <1>7, <1>10 DEF IInv, TypeOK, DrainEnd
<1>12. offset < stream.n => received < stream.end[offset + 1]
  <2> SUFFICES ASSUME offset < stream.n, stream.end[offset + 1] <= received
               PROVE  FALSE
    <3>1. offset < stream.n => stream.end[offset + 1] \in Nat
      BY <1>1, <1>2
    <3>2. received \in Nat
      BY TypeFacts DEF IInv
    <3> QED
      BY <3>1, <3>2
  <2>1. offset + 1 \in 1 .. stream.n /\ offset \in 0 .. stream.n
    BY <1>1, <1>2
  <2>2. stream.end[(offset + 1) - 1] + HeaderLen <= stream.end[offset + 1]
    BY <2>1, <1>1, StreamFacts
  <2>3. (offset + 1) - 1 = offset
    BY <2>1
  <2>4. stream.end[offset] \in Nat /\ stream.end[offset + 1] \in Nat
    <3>1. offset + 1 \in 0 .. stream.n
      BY <2>1, <1>2
    <3> QED
      BY <2>1, <3>1, <1>2
  <2>6. received \in Nat
    BY TypeFacts DEF IInv
  <2>5. stream.end[offset] + HeaderLen <= received
    BY <2>2, <2>3, <2>4, <2>6 DEF HeaderLen
  <2> QED
    BY <2>5 DEF DrainEnd, RecordAtOffset
<1>13. PendingIsPartial' /\ (stream.end[base] <= received)'
  BY <1>5, <1>6, <1>12 DEF PendingIsPartial, DrainEnd
<1>14. SentBehind'
  <2>1. sent \in Nat /\ received \in Nat /\ sent <= received
    BY TypeFacts DEF IInv
  <2>2. offset < stream.n => stream.end[offset + 1] \in Nat
    BY <1>1, <1>2
  <2> QED
    BY <2>1, <2>2, <1>6, <1>12 DEF SentBehind, DrainEnd
<1>15. RelayTransparent' /\ DrainOK'
  BY DEF RelayTransparent, DrainOK, DrainEnd
<1> QED
  BY <1>9, <1>10, <1>11, <1>13, <1>14, <1>15 DEF IInv

LEMMA WriteStep == IInv /\ Write => IInv'
<1> SUFFICES ASSUME IInv, Write PROVE IInv'
  OBVIOUS
<1>1. sent' \in Nat /\ sent' <= received /\ ((pc' = "read" /\ sent' = received) \/ pc' = "write")
  BY SegmentsAssumption DEF Write
<1>2. sent' \in 0 .. received
  BY <1>1, TypeFacts DEF IInv
<1>3. TypeOK'
  BY <1>1, <1>2 DEF IInv, TypeOK, Write
<1>4. SentBehind'
  <2>1. ASSUME base < stream.n PROVE stream.end[base + 1] \in Nat
    <3>1. /\ base \in Nat /\ stream.n \in Nat
          /\ stream.end \in [0 .. stream.n -> Nat]
      BY TypeFacts DEF IInv
    <3>2. base + 1 \in 0 .. stream.n
      BY <2>1, <3>1
    <3> QED
      BY <3>1, <3>2
  <2>2. base < stream.n => received < stream.end[base + 1]
    BY DEF IInv, PendingIsPartial, Write
  <2> QED
    BY <1>1, <2>1, <2>2, TypeFacts DEF IInv, SentBehind, Write
<1>5. RelayTransparent' /\ PendingIsPartial' /\ DrainOK'
  BY <1>1 DEF IInv, RelayTransparent, PendingIsPartial, DrainOK, Write
<1> QED
  BY <1>3, <1>4, <1>5 DEF IInv, CipherInWireOrder, Write

LEMMA EndStep == IInv /\ (IoError \/ Eof) => IInv'
<1> SUFFICES ASSUME IInv, IoError \/ Eof PROVE IInv'
  OBVIOUS
<1>1. /\ pc \in {"read", "write"} /\ pc' \in {"failed", "done"}
      /\ pc' = "done" => pc = "read"
      /\ UNCHANGED <<stream, received, base, offset, out, cipher, attested, sent, mixed>>
  BY DEF IoError, Eof
<1> QED
  BY <1>1 DEF IInv, TypeOK, DrainOK, CipherInWireOrder, PendingIsPartial, SentBehind,
              RelayTransparent

THEOREM Invariance == Spec => []IInv
<1>1. IInv /\ UNCHANGED vars => IInv'
  BY DEF vars, IInv, TypeOK, DrainOK, CipherInWireOrder, PendingIsPartial, SentBehind,
         RelayTransparent
<1>2. IInv /\ [Next]_vars => IInv'
  BY <1>1, ReadStep, DrainRecordStep, DrainEndStep, WriteStep, EndStep DEF Next
<1> QED
  BY <1>2, InitIInv, PTL DEF Spec

-----------------------------------------------------------------------------

(* Every reachable state is well typed.                                    *)
THEOREM TypeCorrect == Spec => []TypeOK
<1>1. IInv => TypeOK
  BY DEF IInv
<1> QED
  BY <1>1, Invariance, PTL

(* What `forward` has committed to is in wire order, each record once.     *)
THEOREM WireOrder == Spec => []CipherInWireOrder
<1>1. IInv => CipherInWireOrder
  BY DEF IInv
<1> QED
  BY <1>1, Invariance, PTL

(* After every drain, what stays in `pending` is less than one record.     *)
THEOREM PartialPending == Spec => []PendingIsPartial
<1>1. IInv => PendingIsPartial
  BY DEF IInv
<1> QED
  BY <1>1, Invariance, PTL

(* The relay holds nothing back from the target.                           *)
THEOREM Transparent == Spec => []RelayTransparent
<1>1. IInv => RelayTransparent
  BY DEF IInv
<1> QED
  BY <1>1, Invariance, PTL

(* A record whose end was sent has been drained, as the pending ones are   *)
(* behind what was sent.                                                   *)
LEMMA AttestsFirst == IInv => AttestedBeforeForwarded
<1>1. IInv => AttestedBeforeForwarded
  <2> SUFFICES ASSUME IInv, NEW i \in 1 .. stream.n, stream.end[i] <= sent
               PROVE  i <= base /\ (i \in ToSet(cipher) => i \in ToSet(attested))
    BY DEF AttestedBeforeForwarded
  <2>1. i <= base
    <3> SUFFICES ASSUME base < i PROVE FALSE
      BY TypeFacts DEF IInv
    <3>1. base + 1 \in 0 .. stream.n /\ i \in 0 .. stream.n /\ base < stream.n
      BY TypeFacts DEF IInv
    <3>2. stream.end[i] \in Nat /\ stream.end[base + 1] \in Nat
      BY <3>1, TypeFacts DEF IInv
    <3>3. stream.end[base + 1] <= stream.end[i]
      <4>1. CASE i = base + 1
        <5>1. stream.end[i] = stream.end[base + 1]
          BY <4>1
        <5> QED
          BY <5>1, <3>2
      <4>2. CASE base + 1 < i
        <5>1. \A k, l \in 0 .. stream.n : k < l => stream.end[k] < stream.end[l]
          BY TypeFacts, StreamFacts DEF IInv
        <5>2. stream.end[base + 1] < stream.end[i]
          BY <4>2, <5>1, <3>1
        <5> QED
          BY <5>2, <3>2
      <4>3. base \in Nat
        BY TypeFacts DEF IInv
      <4>4. i = base + 1 \/ base + 1 < i
        BY <3>1, <4>3
      <4> QED
        BY <4>1, <4>2, <4>4
    <3>4. sent < stream.end[base + 1]
      BY <3>1 DEF IInv, SentBehind
    <3>5. sent \in Nat /\ stream.end[i] <= sent
      BY TypeFacts DEF IInv
    <3> QED
      BY <3>2, <3>3, <3>4, <3>5
  <2> QED
    BY <2>1 DEF IInv
<1> QED
  BY <1>1

(* No record reaches the target before it has been drained and, if its     *)
(* ciphertext was selected, covered by a printed commitment.               *)
THEOREM CommitFirst == Spec => []AttestedBeforeForwarded
  BY AttestsFirst, Invariance, PTL

-----------------------------------------------------------------------------

(* The current pass meets no record of the Finished's length, or it has    *)
(* met at most one record.                                                 *)
PassClashFree == offset <= base + 1 \/ \A i \in base + 1 .. offset : ~Clash(i)

OutExact ==
  pc = "drain" /\ LengthTellsFinished(stream) /\ PassClashFree =>
    ToSet(out) = stream.app \cap (base + 1 .. offset)

CipherExact ==
  ~mixed /\ LengthTellsFinished(stream) => ToSet(cipher) = stream.app \cap (1 .. base)

EInv == OutExact /\ CipherExact

LEMMA DrainRecordExact == IInv /\ EInv /\ DrainRecord => EInv'
<1> SUFFICES ASSUME IInv, EInv, DrainRecord PROVE EInv'
  OBVIOUS
<1>1. CipherExact'
  BY DEF EInv, CipherExact, DrainRecord
<1>2. OutExact'
  <2> SUFFICES ASSUME LengthTellsFinished(stream), PassClashFree'
               PROVE  ToSet(out') = stream.app \cap (base + 1 .. offset + 1)
    BY DEF OutExact, DrainRecord
  <2>1. /\ base \in Nat /\ offset \in Nat /\ base <= offset
        /\ offset + 1 \in 1 .. stream.n /\ base + 1 \in 1 .. stream.n
    <3>1. offset + 1 \in 1 .. stream.n
      BY RecordFacts DEF IInv, DrainRecord
    <3> QED
      BY <3>1, TypeFacts DEF IInv
  <2>2. /\ offset = base \/ \A i \in base + 1 .. offset + 1 : ~Clash(i)
    BY <2>1 DEF PassClashFree, Clash, DrainRecord
  <2>3. PassClashFree
    BY <2>1, <2>2 DEF PassClashFree
  <2>4. ToSet(out) = stream.app \cap (base + 1 .. offset)
    BY <2>3 DEF EInv, OutExact, DrainRecord
  <2>5. Selected(offset + 1) <=> offset + 1 \in stream.app
    <3>1. stream.typ[offset + 1] = AppDataType =>
            (offset + 1 \in stream.app <=>
               ~Clash(offset + 1) /\ PayloadLen(stream, offset + 1) > TagLen)
      BY <2>1 DEF LengthTellsFinished, Clash
    <3>2. offset + 1 \in stream.app => stream.typ[offset + 1] = AppDataType
      <4>1. WellFormed(stream)
        BY StreamsAssumption, TypeFacts DEF IInv
      <4>2. stream.app \subseteq {i \in 1 .. stream.n : stream.typ[i] = AppDataType}
        BY <4>1 DEF WellFormed
      <4> QED
        BY <4>2
    <3>3. Clash(base + 1) <=> Clash(offset + 1)
      <4>1. CASE offset = base
        BY <4>1
      <4>2. CASE \A i \in base + 1 .. offset + 1 : ~Clash(i)
        <5>1. base + 1 \in base + 1 .. offset + 1 /\ offset + 1 \in base + 1 .. offset + 1
          BY <2>1
        <5> QED
          BY <5>1, <4>2
      <4> QED
        BY <2>2, <4>1, <4>2
    <3>4. Selected(offset + 1) <=>
            /\ stream.typ[offset + 1] = AppDataType
            /\ ~Clash(base + 1)
            /\ PayloadLen(stream, offset + 1) > TagLen
      BY Zenon DEF Selected, Clash
    <3> QED
      BY <3>1, <3>2, <3>3, <3>4, Zenon
  <2>6. ToSet(out') = ToSet(out) \cup ({offset + 1} \cap stream.app)
    <3> DEFINE S == 1 .. stream.n
    <3>1. out \in Seq(S) /\ offset + 1 \in S
      BY <2>1 DEF IInv, TypeOK
    <3> HIDE DEF S
    <3>2. ToSet(Append(out, offset + 1)) = ToSet(out) \cup {offset + 1}
      BY <3>1, ToSetAppend
    <3>3. out' = IF Selected(offset + 1) THEN Append(out, offset + 1) ELSE out
      BY DEF DrainRecord
    <3>4. CASE Selected(offset + 1)
      BY <3>2, <3>3, <3>4, <2>5
    <3>5. CASE ~Selected(offset + 1)
      BY <3>3, <3>5, <2>5
    <3> QED
      BY <3>4, <3>5
  <2>7. base + 1 .. offset + 1 = (base + 1 .. offset) \cup {offset + 1}
    BY <2>1
  <2> QED
    BY <2>4, <2>6, <2>7
<1> QED
  BY <1>1, <1>2 DEF EInv

LEMMA DrainEndExact == IInv /\ EInv /\ DrainEnd => EInv'
<1> SUFFICES ASSUME IInv, EInv, DrainEnd PROVE EInv'
  OBVIOUS
<1>1. OutExact'
  BY DEF OutExact, DrainEnd
<1>2. CipherExact'
  <2> SUFFICES ASSUME LengthTellsFinished(stream), ~mixed'
               PROVE  ToSet(cipher') = stream.app \cap (1 .. offset)
    BY DEF CipherExact, DrainEnd
  <2>1. base \in Nat /\ offset \in Nat /\ base <= offset
    BY TypeFacts DEF IInv
  <2>2. ~mixed /\ ~(offset > base + 1 /\ \E i \in base+1 .. offset : Clash(i))
    BY DEF DrainEnd
  <2>3. PassClashFree
    BY <2>1, <2>2 DEF PassClashFree
  <2>4. ToSet(out) = stream.app \cap (base + 1 .. offset)
    BY <2>3 DEF EInv, OutExact, DrainEnd
  <2>5. ToSet(cipher) = stream.app \cap (1 .. base)
    BY <2>2 DEF EInv, CipherExact
  <2>6. ToSet(cipher') = ToSet(cipher) \cup ToSet(out)
    <3>1. out \in Seq(1 .. stream.n) /\ cipher \in Seq(1 .. stream.n)
      BY DEF IInv, TypeOK
    <3> QED
      BY <3>1, ToSetConcat DEF DrainEnd
  <2>7. 1 .. offset = (1 .. base) \cup (base + 1 .. offset)
    BY <2>1
  <2> QED
    BY <2>4, <2>5, <2>6, <2>7
<1> QED
  BY <1>1, <1>2 DEF EInv

(* What a pass has collected, and what cipher_stream holds, are exact.     *)
THEOREM ExactInvariance == Spec => []EInv
<1>1. Init => EInv
  <2> SUFFICES ASSUME Init PROVE CipherExact
    BY DEF EInv, OutExact, Init
  <2>1. cipher = <<>> /\ base = 0 /\ ToSet(<<>>) = {} /\ 1 .. 0 = {}
    BY DEF Init, ToSet
  <2> QED
    BY <2>1 DEF CipherExact
<1>2. IInv /\ EInv /\ [Next]_vars => EInv'
  <2> SUFFICES ASSUME IInv, EInv, [Next]_vars PROVE EInv'
    OBVIOUS
  <2>1. CASE Read
    <3>1. CipherExact'
      BY <2>1 DEF EInv, CipherExact, Read
    <3>2. base + 1 .. base = {} /\ ToSet(<<>>) = {}
      BY TypeFacts DEF IInv, ToSet
    <3>3. OutExact'
      BY <2>1, <3>2 DEF OutExact, Read
    <3> QED
      BY <3>1, <3>3 DEF EInv
  <2>2. CASE Write \/ IoError \/ Eof
    BY <2>2 DEF EInv, OutExact, CipherExact, Write, IoError, Eof
  <2>3. CASE UNCHANGED vars
    BY <2>3 DEF vars, EInv, OutExact, CipherExact, PassClashFree, Clash
  <2> QED
    BY <2>1, <2>2, <2>3, DrainRecordExact, DrainEndExact DEF Next
<1> QED
  BY <1>1, <1>2, Invariance, PTL DEF Spec

(* As long as no pass has coalesced a record of length 53 modulo 256 with  *)
(* another one, and that length does tell Finished from application data,  *)
(* cipher_stream is exactly the application data received.                 *)
THEOREM Exact == Spec => []ExactUnlessMixed
<1>1. EInv => ExactUnlessMixed
  BY DEF EInv, CipherExact, ExactUnlessMixed
<1> QED
  BY <1>1, ExactInvariance, PTL

-----------------------------------------------------------------------------
(* The refinement of AttestedRelay.                                        *)

(* The records a pass appends to the log are some of those it takes, in    *)
(* order.                                                                  *)
LEMMA DrainEndAttests == IInv /\ DrainEnd => Promise!Attest
<1> SUFFICES ASSUME IInv, DrainEnd PROVE Promise!Attest
  OBVIOUS
<1>1. base \in Nat /\ offset \in Nat /\ base <= offset /\ base' = offset
  BY TypeFacts DEF IInv, DrainEnd
<1>2. cipher \in Seq(Nat) /\ out \in Seq(Nat)
  <2> DEFINE S == 1 .. stream.n
  <2>1. S \subseteq Nat
    BY TypeFacts DEF IInv
  <2>2. out \in Seq(S) /\ cipher \in Seq(S)
    BY DEF IInv, TypeOK
  <2> HIDE DEF S
  <2> QED
    BY <2>1, <2>2, SeqFacts
<1>3. attested = cipher /\ attested' = cipher \o out
  <2>1. attested = cipher
    BY DEF IInv
  <2>2. CASE out = <<>>
    <3>1. cipher \o out = cipher
      BY <2>2, <1>2
    <3> QED
      BY <3>1, <2>1, <2>2 DEF DrainEnd
  <2>3. CASE out # <<>>
    BY <2>1, <2>3 DEF DrainEnd
  <2> QED
    BY <2>2, <2>3
<1>4. Increasing(out) /\ \A i \in 1 .. Len(out) : base < out[i] /\ out[i] <= offset
  <2>1. \A i \in 1 .. Len(out) : out[i] \in ToSet(out)
    BY <1>2 DEF ToSet
  <2> QED
    BY <2>1 DEF IInv, DrainOK, DrainEnd
<1>5. /\ Len(attested) \in Nat /\ Len(out) \in Nat
      /\ Len(attested') = Len(attested) + Len(out)
      /\ \A i \in 1 .. Len(attested) : attested'[i] = attested[i]
      /\ \A i \in Len(attested) + 1 .. Len(attested') :
           i - Len(attested) \in 1 .. Len(out) /\ attested'[i] = out[i - Len(attested)]
  BY <1>2, <1>3
<1>6. \A i \in Len(attested) + 1 .. Len(attested') :
        base < attested'[i] /\ attested'[i] <= base'
  BY <1>1, <1>4, <1>5
<1>7. \A i, j \in Len(attested) + 1 .. Len(attested') :
        i < j => attested'[i] < attested'[j]
  <2> SUFFICES ASSUME NEW i \in Len(attested) + 1 .. Len(attested'),
                      NEW j \in Len(attested) + 1 .. Len(attested'), i < j
               PROVE  attested'[i] < attested'[j]
    OBVIOUS
  <2>1. /\ i - Len(attested) \in 1 .. Len(out) /\ j - Len(attested) \in 1 .. Len(out)
        /\ i - Len(attested) < j - Len(attested)
    BY <1>5
  <2>2. out[i - Len(attested)] < out[j - Len(attested)]
    BY <2>1, <1>4 DEF Increasing
  <2> QED
    BY <2>2, <1>5
<1>8. UNCHANGED DeliveredRecords
  BY DEF DeliveredRecords, DrainEnd
<1> QED
  BY <1>1, <1>5, <1>6, <1>7, <1>8 DEF Promise!Attest

(* A write hands on records, all of which have been taken.                 *)
LEMMA WriteDelivers == IInv /\ IInv' /\ Write => Promise!Deliver
<1> SUFFICES ASSUME IInv, IInv', Write PROVE Promise!Deliver
  OBVIOUS
<1>1. sent \in Nat /\ sent' \in Nat /\ sent < sent' /\ stream' = stream /\ base' = base
  BY TypeFacts, SegmentsAssumption DEF IInv, Write
<1>2. stream.end \in [0 .. stream.n -> Nat] /\ stream.n \in Nat
  BY TypeFacts DEF IInv
<1>3. DeliveredRecords \subseteq DeliveredRecords'
  BY <1>1, <1>2 DEF DeliveredRecords
<1>4. AttestedBeforeForwarded'
  BY AttestsFirst, PTL
<1>5. \A i \in DeliveredRecords' : i <= base
  BY <1>1, <1>4 DEF DeliveredRecords, AttestedBeforeForwarded
<1> QED
  BY <1>3, <1>5 DEF Promise!Deliver, Write

(* `forward` implements what AttestedRelay promises: its drain attests,    *)
(* its writes deliver, and nothing else it does shows.                     *)
THEOREM Implements == Spec => ImplementsAttestedRelay
<1>1. Init => Promise!Init
  <2> SUFFICES ASSUME Init PROVE DeliveredRecords = {}
    BY DEF Init, Promise!Init
  <2>1. sent = 0 /\ stream \in Streams
    BY DEF Init
  <2>2. /\ stream.n \in Nat /\ stream.end \in [0 .. stream.n -> Nat] /\ stream.end[0] = 0
        /\ \A i, j \in 0 .. stream.n : i < j => stream.end[i] < stream.end[j]
    BY <2>1, StreamFacts
  <2>3. \A i \in 1 .. stream.n : stream.end[i] > 0
    BY <2>2
  <2> QED
    BY <2>1, <2>2, <2>3 DEF DeliveredRecords
<1>2. IInv /\ IInv' /\ [Next]_vars => [Promise!Next]_(Promise!vars)
  <2> SUFFICES ASSUME IInv, IInv', [Next]_vars PROVE [Promise!Next]_(Promise!vars)
    OBVIOUS
  <2>1. CASE DrainEnd
    BY <2>1, DrainEndAttests DEF Promise!Next
  <2>2. CASE Write
    BY <2>2, WriteDelivers DEF Promise!Next
  <2>3. CASE Read \/ DrainRecord \/ IoError \/ Eof \/ UNCHANGED vars
    BY <2>3 DEF Promise!vars, DeliveredRecords, Read, DrainRecord, IoError, Eof, vars
  <2> QED
    BY <2>1, <2>2, <2>3 DEF Next
<1> QED
  BY <1>1, <1>2, Invariance, PTL DEF Spec, ImplementsAttestedRelay, Promise!Spec

=============================================================================
