-------------------------- MODULE AttestationProofs --------------------------
(* Proofs about Attestation, for every set of requests, every way of       *)
(* cutting them into records, and every way of cutting the records into    *)
(* reads and writes.  What the proxy does is taken from TlsForwardProofs.  *)
EXTENDS Attestation, TLAPS

P == INSTANCE TlsForwardProofs WITH Streams <- {StreamOf(q, w) : q \in Requests, w \in Suites}

-------------------------------------------------------------------------------
(* The streams rustls sends are ones TlsForward is about.                  *)

(* The record ends of a request, as numbers.                               *)
LEMMA RequestFacts ==
  ASSUME NEW q \in Requests
  PROVE  /\ Len(q) \in Nat \ {0}
         /\ \A j \in 1 .. Len(q) : /\ q[j] \in Nat /\ Before(q, j) \in Nat
                                   /\ Before(q, j) < q[j]
                                   /\ FragmentLen(q, j) = q[j] - Before(q, j)
                                   /\ FragmentLen(q, j) \in 1 .. MaxFragment
<1>1. q \in Seq(Nat) /\ Len(q) > 0 /\ Len(q) \in Nat
      /\ \A j \in 1 .. Len(q) : FragmentLen(q, j) \in 1 .. MaxFragment
  BY RequestsAssumption
<1>2. ASSUME NEW j \in 1 .. Len(q)
      PROVE  /\ q[j] \in Nat /\ Before(q, j) \in Nat
             /\ Before(q, j) < q[j]
             /\ FragmentLen(q, j) = q[j] - Before(q, j)
  <2>1. q[j] \in Nat
    BY <1>1
  <2>2. Before(q, j) \in Nat
    <3>1. CASE j = 1
      BY <3>1 DEF Before
    <3>2. CASE j # 1
      <4>1. j - 1 \in 1 .. Len(q)
        BY <1>1, <3>2
      <4> QED
        BY <1>1, <3>2, <4>1 DEF Before
    <3> QED
      BY <3>1, <3>2
  <2>3. q[j] - Before(q, j) >= 1
    BY <1>1 DEF FragmentLen
  <2> QED
    BY <2>1, <2>2, <2>3 DEF FragmentLen
<1> QED
  BY <1>1, <1>2

(* Where Finished ends and the request's first record begins.              *)
RequestAt(w) == 33 + FinishedLen(w) + HelloLen

LEMMA FinishedFacts ==
  ASSUME NEW w \in Suites
  PROVE  /\ FinishedLen(w) \in {36, 52} /\ FinishedLen(w) \in Nat
         /\ HashLen(w) = 32 => FinishedLen(w) = 36
         /\ RequestAt(w) \in Nat /\ RequestAt(w) = 33 + FinishedLen(w) + HelloLen
         /\ RequestAt(w) > 11 + HelloLen
<1>1. FinishedLen(w) \in {36, 52} /\ (HashLen(w) = 32 => FinishedLen(w) = 36)
  BY DEF FinishedLen, HashLen, Suites
<1>2. HelloLen \in Nat
  BY HelloAssumption
<1>3. RequestAt(w) = 33 + FinishedLen(w) + HelloLen
  BY DEF RequestAt
<1> QED
  BY <1>1, <1>2, <1>3

LEMMA StreamShape ==
  ASSUME NEW q \in Requests, NEW w \in Suites
  PROVE  LET s == StreamOf(q, w) IN
         /\ s.n = 3 + Len(q)
         /\ s.end[0] = 0 /\ s.end[1] = 5 + HelloLen /\ s.end[2] = 11 + HelloLen
         /\ s.end[3] = RequestAt(w)
         /\ \A i \in 4 .. s.n : s.end[i] = RequestAt(w) + q[i - 3] + (i - 3) * 22
         /\ s.typ \in [1 .. s.n -> 0 .. 255]
         /\ \A i \in 1 .. s.n : s.typ[i] = 23 <=> i >= 3
         /\ s.app = 4 .. s.n
         /\ DOMAIN s.end = 0 .. s.n
<1>1. Len(q) \in Nat \ {0}
  BY RequestFacts
<1> QED
  <2> PICK h \in Nat : h = HelloLen
    BY HelloAssumption
  <2> PICK f \in Nat : f = FinishedLen(w)
    BY FinishedFacts
  <2>1. RequestAt(w) = 33 + f + h
    BY DEF RequestAt
  <2>2. /\ (5 + h) + 5 + 1 = 11 + h
        /\ (5 + h) + 5 + 1 + 5 + f + 1 + 16 = 33 + f + h
    OBVIOUS
  <2> QED
    BY <1>1, <2>1, <2>2 DEF StreamOf, FirstApp

LEMMA StreamLens ==
  ASSUME NEW q \in Requests, NEW w \in Suites
  PROVE  LET s == StreamOf(q, w) IN
         /\ P!PayloadLen(s, 1) = HelloLen /\ P!PayloadLen(s, 2) = 1
         /\ P!PayloadLen(s, 3) = FinishedLen(w) + 17
         /\ \A i \in 4 .. s.n : P!PayloadLen(s, i) = FragmentLen(q, i - 3) + 17
         /\ \A i \in 0 .. s.n : s.end[i] \in Nat
<1> DEFINE s == StreamOf(q, w)
<1>1. /\ Len(q) \in Nat \ {0} /\ s.n = 3 + Len(q) /\ HelloLen \in Nat
      /\ s.end[0] = 0 /\ s.end[1] = 5 + HelloLen /\ s.end[2] = 11 + HelloLen
      /\ s.end[3] = RequestAt(w)
      /\ \A i \in 4 .. s.n : s.end[i] = RequestAt(w) + q[i - 3] + (i - 3) * 22
      /\ RequestAt(w) \in Nat
  BY RequestFacts, StreamShape, HelloAssumption, FinishedFacts
<1>0. \A i : P!PayloadLen(s, i) = s.end[i] - s.end[i - 1] - 5
  BY DEF P!PayloadLen, P!HeaderLen
<1> HIDE DEF s
<1>2. ASSUME NEW i \in 4 .. s.n
      PROVE  s.end[i] \in Nat /\ P!PayloadLen(s, i) = FragmentLen(q, i - 3) + 17
  <2>1. i - 3 \in 1 .. Len(q)
    BY <1>1
  <2>2. /\ q[i - 3] \in Nat /\ Before(q, i - 3) \in Nat
        /\ FragmentLen(q, i - 3) = q[i - 3] - Before(q, i - 3)
    BY <2>1, RequestFacts
  <2>3. s.end[i] = RequestAt(w) + q[i - 3] + (i - 3) * 22
    BY <1>1
  <2>4. s.end[i - 1] = RequestAt(w) + Before(q, i - 3) + (i - 4) * 22
    <3>1. CASE i = 4
      BY <3>1, <1>1 DEF Before
    <3>2. CASE i # 4
      <4>1. i - 1 \in 4 .. s.n
        BY <3>2, <1>1
      <4>2. s.end[i - 1] = RequestAt(w) + q[(i - 1) - 3] + ((i - 1) - 3) * 22
        BY <1>1, <4>1
      <4>3. (i - 1) - 3 = i - 4 /\ (i - 3) - 1 = i - 4 /\ i - 3 # 1
        BY <4>1, <3>2
      <4>4. Before(q, i - 3) = q[i - 4]
        BY <4>3 DEF Before
      <4> QED
        BY <4>2, <4>3, <4>4
    <3> QED
      BY <3>1, <3>2
  <2>5. P!PayloadLen(s, i) = s.end[i] - s.end[i - 1] - 5
    BY <1>0
  <2>6. s.end[i] \in Nat
    <3>1. (i - 3) * 22 \in Nat
      BY <2>1
    <3> QED
      BY <1>1, <2>2, <2>3, <3>1
  <2> DEFINE x == (i - 4) * 22
  <2>7. (i - 3) * 22 = x + 22 /\ x \in Int
    BY <2>1
  <2>8. s.end[i] = RequestAt(w) + q[i - 3] + (x + 22)
    BY <2>3, <2>7
  <2>9. s.end[i - 1] = RequestAt(w) + Before(q, i - 3) + x
    BY <2>4
  <2>10. s.end[i] - s.end[i - 1] - 5 = FragmentLen(q, i - 3) + 17
    <3> HIDE DEF x
    <3>1. RequestAt(w) \in Nat
      BY <1>1
    <3> DEFINE a == q[i - 3]
               b == Before(q, i - 3)
               u == s.end[i]
               v == s.end[i - 1]
    <3>2. a \in Nat /\ b \in Nat /\ x \in Int /\ FragmentLen(q, i - 3) = a - b
      BY <2>2, <2>7
    <3>3. u = RequestAt(w) + a + (x + 22) /\ v = RequestAt(w) + b + x
      BY <2>8, <2>9
    <3> HIDE DEF a, b, u, v
    <3>4. u - v - 5 = (a - b) + 17
      BY <3>1, <3>2, <3>3
    <3> QED
      BY <3>2, <3>4 DEF u, v
  <2> QED
    BY <2>5, <2>6, <2>10
<1>3. ASSUME NEW i \in 0 .. s.n PROVE s.end[i] \in Nat
  <2>1. i = 0 \/ i = 1 \/ i = 2 \/ i = 3 \/ i \in 4 .. s.n
    BY <1>1
  <2> QED
    BY <2>1, <1>1, <1>2
<1>4. P!PayloadLen(s, 1) = HelloLen /\ P!PayloadLen(s, 2) = 1
      /\ P!PayloadLen(s, 3) = FinishedLen(w) + 17
  <2>1. /\ P!PayloadLen(s, 1) = s.end[1] - s.end[1 - 1] - 5
        /\ P!PayloadLen(s, 2) = s.end[2] - s.end[2 - 1] - 5
        /\ P!PayloadLen(s, 3) = s.end[3] - s.end[3 - 1] - 5
    BY <1>0
  <2>2. 1 - 1 = 0 /\ 2 - 1 = 1 /\ 3 - 1 = 2
    OBVIOUS
  <2> QED
    <3> PICK h \in Nat, f \in Nat : h = HelloLen /\ f = FinishedLen(w)
      BY <1>1, FinishedFacts
    <3>1. /\ s.end[0] = 0 /\ s.end[1] = 5 + h /\ s.end[2] = 11 + h
          /\ s.end[3] = 33 + f + h
      <4>1. RequestAt(w) = 33 + FinishedLen(w) + HelloLen
        BY FinishedFacts
      <4> QED
        BY <1>1, <4>1
    <3>2. 5 + h - 0 - 5 = h /\ (11 + h) - (5 + h) - 5 = 1
          /\ (33 + f + h) - (11 + h) - 5 = f + 17
      OBVIOUS
    <3> QED
      BY <2>1, <2>2, <3>1, <3>2
<1> QED
  BY <1>2, <1>3, <1>4 DEF s

(* What follows Finished begins behind it and ends in order.               *)
LEMMA EndsIncrease ==
  ASSUME NEW q \in Requests, NEW w \in Suites,
         NEW i \in 0 .. 3 + Len(q), NEW j \in 0 .. 3 + Len(q), i < j
  PROVE  StreamOf(q, w).end[i] < StreamOf(q, w).end[j]
<1> DEFINE s == StreamOf(q, w)
<1>1. /\ Len(q) \in Nat \ {0} /\ s.n = 3 + Len(q) /\ HelloLen \in Nat /\ HelloLen > 0
      /\ RequestAt(w) \in Nat /\ RequestAt(w) > 11 + HelloLen
      /\ s.end[0] = 0 /\ s.end[1] = 5 + HelloLen /\ s.end[2] = 11 + HelloLen
      /\ s.end[3] = RequestAt(w)
      /\ \A k \in 4 .. s.n : s.end[k] = RequestAt(w) + q[k - 3] + (k - 3) * 22
      /\ \A k \in 0 .. s.n : s.end[k] \in Nat
  <2>1. /\ Len(q) \in Nat \ {0} /\ HelloLen \in Nat /\ HelloLen > 0
        /\ RequestAt(w) \in Nat /\ RequestAt(w) > 11 + HelloLen
    BY RequestFacts, HelloAssumption, FinishedFacts
  <2>2. /\ s.n = 3 + Len(q) /\ s.end[0] = 0 /\ s.end[1] = 5 + HelloLen
        /\ s.end[2] = 11 + HelloLen /\ s.end[3] = RequestAt(w)
    BY StreamShape
  <2>3. \A k \in 4 .. s.n : s.end[k] = RequestAt(w) + q[k - 3] + (k - 3) * 22
    BY StreamShape
  <2>4. \A k \in 0 .. s.n : s.end[k] \in Nat
    BY StreamLens
  <2> HIDE DEF s
  <2> QED
    BY <2>1, <2>2, <2>3, <2>4
<1> HIDE DEF s
<1>2. ASSUME NEW k \in 4 .. s.n
      PROVE  k - 3 \in 1 .. Len(q) /\ q[k - 3] \in Nat /\ s.end[k] > RequestAt(w)
  <2>1. k - 3 \in 1 .. Len(q)
    BY <1>1
  <2>2. q[k - 3] \in Nat
    BY <2>1, RequestFacts
  <2>3. (k - 3) * 22 \in Nat /\ (k - 3) * 22 > 0
    BY <2>1
  <2>4. s.end[k] = RequestAt(w) + q[k - 3] + (k - 3) * 22
    BY <1>1
  <2> DEFINE x == (k - 3) * 22
  <2>5. s.end[k] = RequestAt(w) + q[k - 3] + x /\ x \in Nat /\ x > 0
    BY <2>3, <2>4
  <2> HIDE DEF x
  <2>6. RequestAt(w) \in Nat
    BY <1>1
  <2> QED
    BY <2>1, <2>2, <2>5, <2>6
<1>3. CASE i \in 4 .. s.n
  <2>1. j \in 4 .. s.n
    BY <1>1, <1>3
  <2>2. i - 3 < j - 3 /\ i - 3 \in 1 .. Len(q) /\ j - 3 \in 1 .. Len(q)
    BY <1>2, <1>3, <2>1
  <2>3. q[i - 3] < q[j - 3] /\ q[i - 3] \in Nat /\ q[j - 3] \in Nat
    BY <2>2, RequestsAssumption, RequestFacts
  <2> DEFINE x == (i - 3) * 22
             y == (j - 3) * 22
  <2>4. x \in Nat /\ y \in Nat /\ x <= y
    BY <2>2
  <2>5. /\ s.end[i] = RequestAt(w) + q[i - 3] + x
        /\ s.end[j] = RequestAt(w) + q[j - 3] + y
    BY <1>1, <1>3, <2>1
  <2> HIDE DEF x, y
  <2>6. RequestAt(w) \in Nat
    BY <1>1
  <2>7. s.end[i] < s.end[j]
    <3> DEFINE a == q[i - 3]
               b == q[j - 3]
               g == RequestAt(w)
    <3>1. a < b /\ a \in Nat /\ b \in Nat /\ g \in Nat
      BY <2>3, <2>6
    <3>2. s.end[i] = g + a + x /\ s.end[j] = g + b + y
      BY <2>5
    <3> HIDE DEF a, b, g
    <3>3. g + a + x < g + b + y
      BY <2>4, <3>1
    <3> QED
      BY <3>2, <3>3
  <2> QED
    BY <2>7 DEF s
<1>4. CASE i \notin 4 .. s.n
  <2> PICK h \in Nat : h = HelloLen /\ h > 0
    BY <1>1
  <2> PICK g \in Nat : g = RequestAt(w) /\ g > 11 + h
    BY <1>1
  <2>0. s.end[0] = 0 /\ s.end[1] = 5 + h /\ s.end[2] = 11 + h /\ s.end[3] = g
    BY <1>1
  <2>1. i \in {0, 1, 2, 3}
    BY <1>1, <1>4
  <2>2. s.end[i] <= RequestAt(w)
    <3>1. s.end[i] <= g
      <4>1. 0 <= g /\ 5 + h <= g /\ 11 + h <= g /\ g <= g
        OBVIOUS
      <4> QED
        BY <2>0, <2>1, <4>1
    <3> QED
      BY <3>1
  <2>3. CASE j \in 4 .. s.n
    <3>1. s.end[j] > RequestAt(w)
      BY <1>2, <2>3
    <3>2. s.end[i] \in Nat /\ s.end[j] \in Nat /\ RequestAt(w) \in Nat
      BY <1>1, <2>1, <2>3
    <3>3. s.end[i] < s.end[j]
      BY <2>2, <3>1, <3>2
    <3> QED
      BY <3>3 DEF s
  <2>4. CASE j \notin 4 .. s.n
    <3>1. j \in {0, 1, 2, 3}
      BY <1>1, <2>4
    <3>2. s.end[i] < s.end[j]
      <4>1. CASE j = 1
        BY <2>0, <2>1, <4>1
      <4>2. CASE j = 2
        BY <2>0, <2>1, <4>2
      <4>3. CASE j = 3
        BY <2>0, <2>1, <4>3
      <4> QED
        BY <2>1, <3>1, <4>1, <4>2, <4>3
    <3> QED
      BY <3>2 DEF s
  <2> QED
    BY <2>3, <2>4
<1> QED
  BY <1>3, <1>4

LEMMA LenBound ==
  ASSUME NEW q \in Requests, NEW w \in Suites, NEW i \in 1 .. 3 + Len(q)
  PROVE  P!PayloadLen(StreamOf(q, w), i) \in 0 .. P!MaxLen
<1>1. \A x \in 1 .. MaxFragment : x \in 0 .. P!MaxLen /\ x + 17 \in 0 .. P!MaxLen
  <2>1. MaxFragment \in Nat /\ P!MaxLen \in Nat
    BY DEF MaxFragment, P!MaxLen
  <2>2. MaxFragment + 17 <= P!MaxLen
    BY DEF MaxFragment, P!MaxLen
  <2> QED
    BY <2>1, <2>2
<1>2. 1 \in 0 .. P!MaxLen /\ FinishedLen(w) + 17 \in 0 .. P!MaxLen
  <2>1. FinishedLen(w) + 17 \in {53, 69}
    BY FinishedFacts
  <2> QED
    <3>1. 1 \in 0 .. P!MaxLen /\ 53 \in 0 .. P!MaxLen /\ 69 \in 0 .. P!MaxLen
      BY DEF P!MaxLen
    <3> QED
      BY <2>1, <3>1
<1>3. Len(q) \in Nat /\ StreamOf(q, w).n = 3 + Len(q)
  BY RequestFacts, StreamShape
<1>4. CASE i \in 4 .. 3 + Len(q)
  <2>1. i - 3 \in 1 .. Len(q)
    BY <1>3, <1>4
  <2>2. FragmentLen(q, i - 3) \in 1 .. MaxFragment
    BY <2>1, RequestFacts
  <2>3. P!PayloadLen(StreamOf(q, w), i) = FragmentLen(q, i - 3) + 17
    BY <1>3, <1>4, StreamLens
  <2> QED
    BY <1>1, <2>2, <2>3
<1>5. CASE i \in {1, 2, 3}
  <2>1. /\ P!PayloadLen(StreamOf(q, w), 1) = HelloLen /\ P!PayloadLen(StreamOf(q, w), 2) = 1
        /\ P!PayloadLen(StreamOf(q, w), 3) = FinishedLen(w) + 17
    BY StreamLens
  <2> QED
    BY <1>1, <1>2, <1>5, <2>1, HelloAssumption
<1>6. i \in 4 .. 3 + Len(q) \/ i \in {1, 2, 3}
  BY <1>3
<1> QED
  BY <1>4, <1>5, <1>6

LEMMA StreamsWellFormed ==
  \A s \in {StreamOf(q, w) : q \in Requests, w \in Suites} : P!WellFormed(s)
<1> SUFFICES ASSUME NEW q \in Requests, NEW w \in Suites PROVE P!WellFormed(StreamOf(q, w))
  OBVIOUS
<1> DEFINE s == StreamOf(q, w)
<1>1. s.n \in Nat /\ s.n = 3 + Len(q) /\ Len(q) \in Nat
  BY RequestFacts, StreamShape
<1>2. /\ s.typ \in [1 .. s.n -> 0 .. 255] /\ s.end[0] = 0 /\ s.app = 4 .. s.n
      /\ \A i \in 1 .. s.n : s.typ[i] = 23 <=> i >= 3
  BY StreamShape
<1>3. s.end \in [0 .. s.n -> Nat]
  <2>1. s.end = [i \in 0 .. s.n |-> s.end[i]]
    BY DEF StreamOf
  <2>2. \A i \in 0 .. s.n : s.end[i] \in Nat
    BY StreamLens
  <2> HIDE DEF s
  <2> QED
    BY <2>1, <2>2
<1>4. \A i, j \in 0 .. s.n : i < j => s.end[i] < s.end[j]
  BY <1>1, EndsIncrease
<1>5. \A i \in 1 .. s.n : P!PayloadLen(s, i) \in 0 .. P!MaxLen
  BY <1>1, LenBound
<1> HIDE DEF s
<1>6. s.app \in SUBSET {i \in 1 .. s.n : s.typ[i] = P!AppDataType}
  BY <1>1, <1>2 DEF P!AppDataType
<1>7. P!WellFormed(s)
  BY <1>1, <1>2, <1>3, <1>4, <1>5, <1>6 DEF P!WellFormed
<1> QED
  BY <1>7 DEF s

-------------------------------------------------------------------------------
(* The circuit decrypts what prove sealed.                                 *)

LEMMA CircuitDecrypts == ASSUME request \in Requests PROVE CircuitSatisfied
<1> DEFINE n == RequestLen(request)
<1>1. n \in Nat
  BY RequestFacts DEF RequestLen
<1> HIDE DEF n
<1> DEFINE text == [k \in 1 .. n |-> Sealed("chacha20", "traffic", 0, k, k)]
<1>2. ProveCipher = text /\ Plaintext = [k \in 1 .. n |-> k]
  BY DEF ProveCipher, ProveSeq, Plaintext, n
<1>3. Len(text) = n
  BY <1>1
<1>4. \A k \in 1 .. n :
        /\ text[k].alg = "chacha20" /\ text[k].key = "traffic" /\ text[k].nonce = 0
        /\ text[k].block = 1 + (k - 1) \div BlockLen /\ text[k].at = (k - 1) % BlockLen
        /\ text[k].plain = k
  BY DEF Sealed, AeadFirstBlock
<1> HIDE DEF text
<1>5. CircuitText(text) = [k \in 1 .. n |-> k]
  BY <1>3, <1>4 DEF CircuitText, ProveSeq, Count
<1> QED
  BY <1>2, <1>5 DEF CircuitSatisfied

-------------------------------------------------------------------------------
(* The proxy in this composition is the one of TlsForward.                 *)

LEMMA ProxyInit == Init => P!Init
BY DEF Init, Proxy!Init, P!Init

LEMMA ProxyNext == [Next]_vars => [P!Next]_(P!vars)
<1>1. Proxy!Next <=> P!Next
  <2>1. Proxy!RecordAtOffset <=> P!RecordAtOffset
    BY DEF Proxy!RecordAtOffset, P!RecordAtOffset, Proxy!HeaderLen, P!HeaderLen
  <2>2. /\ \A i : Proxy!Selected(i) <=> P!Selected(i)
        /\ \A i : Proxy!Clash(i) <=> P!Clash(i)
    BY DEF Proxy!Selected, P!Selected, Proxy!Clash, P!Clash, Proxy!Len8, P!Len8,
           Proxy!PayloadLen, P!PayloadLen, Proxy!HeaderLen, P!HeaderLen, Proxy!TagLen, P!TagLen,
           Proxy!AppDataType, P!AppDataType, Proxy!FinishedLowByte, P!FinishedLowByte
  <2>3. (Proxy!Read <=> P!Read) /\ (Proxy!Write <=> P!Write)
        /\ (Proxy!IoError <=> P!IoError) /\ (Proxy!Eof <=> P!Eof)
    BY DEF Proxy!Read, P!Read, Proxy!Write, P!Write, Proxy!IoError, P!IoError, Proxy!Eof, P!Eof
  <2>4. Proxy!DrainRecord <=> P!DrainRecord
    BY <2>1, <2>2, Zenon DEF Proxy!DrainRecord, P!DrainRecord
  <2>5. Proxy!DrainEnd <=> P!DrainEnd
    BY <2>1, <2>2, Zenon DEF Proxy!DrainEnd, P!DrainEnd
  <2> QED
    BY <2>3, <2>4, <2>5 DEF Proxy!Next, P!Next
<1>2. Read \/ DrainRecord \/ DrainEnd \/ WriteOrStop => Proxy!Next
  BY DEF Read, DrainRecord, DrainEnd, WriteOrStop, Proxy!Next
<1>3. Prove \/ UNCHANGED vars => UNCHANGED P!vars
  BY DEF Prove, vars, proxyVars, P!vars
<1> QED
  BY <1>1, <1>2, <1>3 DEF Next

LEMMA ProxySpec == Spec => P!Spec
  BY ProxyInit, ProxyNext, PTL DEF Spec, P!Spec

LEMMA ProxyInvariant == Spec => []P!IInv
<1>1. P!Spec => []P!IInv
  BY StreamsWellFormed, ReadsAssumption, P!Invariance
     DEF P!StreamsAssumption, P!SegmentsAssumption, P!BufAssumption
<1> QED
  BY <1>1, ProxySpec, PTL

-------------------------------------------------------------------------------
(* The ciphertext of a record, as a function of the request alone.         *)

CipherLen(q, w, i) == P!PayloadLen(StreamOf(q, w), i) - 16

CipherOf(q, w, i) ==
  [k \in 1 .. CipherLen(q, w, i) |->
     IF i < 4 THEN Sealed(w, "handshake", 0, k, 0)
     ELSE Sealed(w, "traffic", i - 4, k,
            IF k = CipherLen(q, w, i) THEN 0 ELSE Before(q, i - 3) + k)]

\* the records that may carry application data
Sealeds(q) == 3 .. 3 + Len(q)

LEMMA RecordCipherOf ==
  ASSUME request \in Requests, suite \in Suites, stream = StreamOf(request, suite),
         NEW i \in Sealeds(request)
  PROVE  RecordCipher(i) = CipherOf(request, suite, i)
<1>1. Proxy!PayloadLen(stream, i) - 16 = CipherLen(request, suite, i)
      /\ Proxy!PayloadLen(stream, i) - Proxy!TagLen = CipherLen(request, suite, i)
  BY DEF CipherLen, Proxy!PayloadLen, P!PayloadLen, Proxy!HeaderLen, P!HeaderLen, Proxy!TagLen
<1>2. i \in Int /\ CipherLen(request, suite, i) \in Int
  <2>1. Len(request) \in Nat
    BY RequestFacts
  <2>2. i \in 1 .. 3 + Len(request)
    BY <2>1 DEF Sealeds
  <2>3. P!PayloadLen(StreamOf(request, suite), i) \in 0 .. P!MaxLen
    BY <2>2, LenBound
  <2>4. P!MaxLen \in Nat
    BY DEF P!MaxLen
  <2>5. P!PayloadLen(StreamOf(request, suite), i) \in Int
    BY <2>3, <2>4
  <2> QED
    BY <2>1, <2>2, <2>5 DEF CipherLen
<1>3. (i - 4) + 1 = i - 3 /\ (i - 4 + 1) - 1 = i - 4
  BY <1>2
<1>4. ASSUME NEW k \in 1 .. CipherLen(request, suite, i)
      PROVE  PayloadByte(i, k) = CipherOf(request, suite, i)[k]
  <2>1. ~(k > CipherLen(request, suite, i))
    BY <1>2
  <2>2. PayloadByte(i, k) =
          IF i < 4 THEN Sealed(suite, "handshake", 0, k, 0)
          ELSE Sealed(suite, "traffic", (i - 4 + 1) - 1, k,
                 IF k = CipherLen(request, suite, i) THEN 0 ELSE Before(request, (i - 4) + 1) + k)
    BY <1>1, <2>1 DEF PayloadByte, FirstApp, InnerType
  <2> QED
    BY <1>3, <2>2 DEF CipherOf
<1>5. RecordCipher(i) = [k \in 1 .. CipherLen(request, suite, i) |-> PayloadByte(i, k)]
  BY <1>1 DEF RecordCipher
<1> QED
  BY <1>4, <1>5 DEF CipherOf

LEMMA SealedCell ==
  ASSUME NEW w \in Suites, NEW key \in {"handshake", "traffic"}, NEW n \in Nat,
         NEW k \in Nat \ {0}, NEW p \in Nat
  PROVE  Sealed(w, key, n, k, p) \in Cell
<1>1. (k - 1) \div 64 \in Nat /\ (k - 1) % 64 \in 0 .. 63
  OBVIOUS
<1> QED
  BY <1>1 DEF Sealed, Cell, BlockLen, AeadFirstBlock

(* A record the drain keeps has a byte, whose keystream tells the record,  *)
(* and ends with the content type.                                         *)
LEMMA CipherFacts ==
  ASSUME NEW q \in Requests, NEW w \in Suites, NEW i \in Sealeds(q)
  PROVE  /\ CipherLen(q, w, i) \in Nat \ {0}
         /\ i >= 4 => i - 3 \in 1 .. Len(q) /\ CipherLen(q, w, i) = FragmentLen(q, i - 3) + 1
         /\ CipherOf(q, w, i) \in Seq(Cell) /\ Len(CipherOf(q, w, i)) = CipherLen(q, w, i)
<1>1. Len(q) \in Nat \ {0} /\ i \in Nat /\ i >= 3 /\ StreamOf(q, w).n = 3 + Len(q)
  BY RequestFacts, StreamShape DEF Sealeds
<1>2. i >= 4 => /\ i - 3 \in 1 .. Len(q) /\ CipherLen(q, w, i) = FragmentLen(q, i - 3) + 1
                /\ FragmentLen(q, i - 3) \in Nat /\ Before(q, i - 3) \in Nat
  <2> SUFFICES ASSUME i >= 4
               PROVE  /\ i - 3 \in 1 .. Len(q) /\ CipherLen(q, w, i) = FragmentLen(q, i - 3) + 1
                      /\ FragmentLen(q, i - 3) \in Nat /\ Before(q, i - 3) \in Nat
    OBVIOUS
  <2>1. i - 3 \in 1 .. Len(q) /\ i \in 4 .. StreamOf(q, w).n
    BY <1>1 DEF Sealeds
  <2>2. P!PayloadLen(StreamOf(q, w), i) = FragmentLen(q, i - 3) + 17
    BY <2>1, StreamLens
  <2>3. /\ q[i - 3] \in Nat /\ Before(q, i - 3) \in Nat /\ Before(q, i - 3) < q[i - 3]
        /\ FragmentLen(q, i - 3) = q[i - 3] - Before(q, i - 3)
    BY <2>1, RequestFacts
  <2>4. FragmentLen(q, i - 3) \in Nat
    BY <2>3
  <2> QED
    BY <2>1, <2>2, <2>3, <2>4 DEF CipherLen
<1>3. CipherLen(q, w, i) \in Nat \ {0}
  <2>1. CASE i = 3
    <3>1. P!PayloadLen(StreamOf(q, w), 3) = FinishedLen(w) + 17
      BY StreamLens
    <3> QED
      BY <2>1, <3>1, FinishedFacts DEF CipherLen
  <2>2. CASE i >= 4
    BY <1>2, <2>2
  <2> QED
    BY <1>1, <2>1, <2>2
<1> DEFINE n == CipherLen(q, w, i)
<1> HIDE DEF n
<1>4. ASSUME NEW k \in 1 .. n
      PROVE  CipherOf(q, w, i)[k] \in Cell
  <2>1. k \in Nat \ {0} /\ n \in Nat
    BY <1>3 DEF n
  <2>2. CASE i < 4
    <3>1. CipherOf(q, w, i)[k] = Sealed(w, "handshake", 0, k, 0)
      BY <2>2 DEF CipherOf, n
    <3> QED
      BY <2>1, <3>1, SealedCell
  <2>3. CASE i >= 4
    <3> DEFINE p == IF k = n THEN 0 ELSE Before(q, i - 3) + k
    <3>1. p \in Nat /\ i - 4 \in Nat
      BY <1>1, <1>2, <2>1, <2>3
    <3>2. CipherOf(q, w, i)[k] = Sealed(w, "traffic", i - 4, k, p)
      BY <1>1, <2>3 DEF CipherOf, n
    <3> HIDE DEF p
    <3> QED
      BY <2>1, <3>1, <3>2, SealedCell
  <2> QED
    BY <1>1, <2>2, <2>3
<1>5. CipherOf(q, w, i) = [k \in 1 .. n |-> CipherOf(q, w, i)[k]]
  BY DEF CipherOf, n
<1>6. CipherOf(q, w, i) \in Seq(Cell) /\ Len(CipherOf(q, w, i)) = n
  <2> DEFINE c == CipherOf(q, w, i)
  <2> HIDE DEF c
  <2>1. c \in [1 .. n -> Cell] /\ n \in Nat
    BY <1>3, <1>4, <1>5 DEF c, n
  <2>2. c \in Seq(Cell) /\ Len(c) = n
    <3> DEFINE S == Cell
    <3>1. c \in [1 .. n -> S]
      BY <2>1
    <3> HIDE DEF S
    <3>2. c \in Seq(S) /\ Len(c) = n
      BY <2>1, <3>1
    <3> QED
      BY <3>2 DEF S
  <2> QED
    BY <2>2 DEF c
<1> QED
  BY <1>2, <1>3, <1>6 DEF n

-------------------------------------------------------------------------------
(* The buffers of `forward` hold the ciphertext of the records they stand  *)
(* for.  Of a sequence of records only its first one is needed: the bytes  *)
(* begin with it, and are it when there is no other.                       *)

Holds(q, w, list, bytes) ==
  /\ list \in Seq(Sealeds(q)) /\ bytes \in Seq(Cell)
  /\ list = <<>> => bytes = <<>>
  /\ list # <<>> =>
       /\ CipherLen(q, w, list[1]) <= Len(bytes)
       /\ \A k \in 1 .. CipherLen(q, w, list[1]) : bytes[k] = CipherOf(q, w, list[1])[k]
  /\ Len(list) = 1 => Len(bytes) = CipherLen(q, w, list[1])

LEMMA HoldsEmpty == ASSUME NEW q, NEW w PROVE Holds(q, w, <<>>, <<>>)
BY DEF Holds

\* one record
LEMMA HoldsOne ==
  ASSUME NEW q \in Requests, NEW w \in Suites, NEW i \in Sealeds(q)
  PROVE  Holds(q, w, <<i>>, CipherOf(q, w, i))
<1>1. CipherOf(q, w, i) \in Seq(Cell) /\ Len(CipherOf(q, w, i)) = CipherLen(q, w, i)
      /\ CipherLen(q, w, i) \in Nat
  BY CipherFacts
<1>2. <<i>> \in Seq(Sealeds(q)) /\ Len(<<i>>) = 1 /\ <<i>>[1] = i /\ <<i>> # <<>>
  OBVIOUS
<1> QED
  BY <1>1, <1>2 DEF Holds

\* where some records are, so are some bytes
LEMMA HoldsSome ==
  ASSUME NEW q \in Requests, NEW w \in Suites, NEW list, NEW bytes, Holds(q, w, list, bytes)
  PROVE  list = <<>> <=> bytes = <<>>
<1>1. CASE list = <<>>
  BY <1>1 DEF Holds
<1>2. CASE list # <<>>
  <2>1. list \in Seq(Sealeds(q)) /\ bytes \in Seq(Cell) /\ CipherLen(q, w, list[1]) <= Len(bytes)
    BY <1>2 DEF Holds
  <2>2. list[1] \in Sealeds(q)
    <3> DEFINE S == Sealeds(q)
    <3>1. list \in Seq(S)
      BY <2>1
    <3> HIDE DEF S
    <3>2. list[1] \in S
      BY <3>1, <1>2
    <3> QED
      BY <3>2 DEF S
  <2>3. CipherLen(q, w, list[1]) \in Nat \ {0}
    BY <2>2, CipherFacts
  <2>4. Len(bytes) # 0
    BY <2>1, <2>3
  <2> QED
    BY <1>2, <2>4
<1> QED
  BY <1>1, <1>2

LEMMA HoldsConcat ==
  ASSUME NEW q \in Requests, NEW w \in Suites, NEW a, NEW b, NEW x, NEW y,
         Holds(q, w, a, x), Holds(q, w, b, y)
  PROVE  Holds(q, w, a \o b, x \o y)
<1> DEFINE S == Sealeds(q)
           C == Cell
<1>1. a \in Seq(S) /\ b \in Seq(S) /\ x \in Seq(C) /\ y \in Seq(C)
  BY DEF Holds
<1> HIDE DEF S, C
<1>2. a \o b \in Seq(S) /\ x \o y \in Seq(C)
      /\ Len(a \o b) = Len(a) + Len(b) /\ Len(x \o y) = Len(x) + Len(y)
      /\ Len(a) \in Nat /\ Len(b) \in Nat /\ Len(x) \in Nat /\ Len(y) \in Nat
  BY <1>1
<1>3. CASE a = <<>>
  <2>1. x = <<>>
    BY <1>3 DEF Holds
  <2>2. a \o b = b /\ x \o y = y
    BY <1>1, <1>3, <2>1
  <2> QED
    BY <2>2
<1>4. CASE a # <<>>
  <2>1. (a \o b)[1] = a[1] /\ Len(a) >= 1 /\ a[1] \in S /\ a \o b # <<>>
    BY <1>1, <1>2, <1>4
  <2>2. CipherLen(q, w, a[1]) \in Nat
    BY <2>1, CipherFacts DEF S
  <2>3. CipherLen(q, w, a[1]) <= Len(x)
        /\ \A k \in 1 .. CipherLen(q, w, a[1]) : x[k] = CipherOf(q, w, a[1])[k]
    BY <1>4 DEF Holds
  <2>4. CipherLen(q, w, a[1]) <= Len(x \o y)
        /\ \A k \in 1 .. CipherLen(q, w, a[1]) : (x \o y)[k] = CipherOf(q, w, a[1])[k]
    <3>1. \A k \in 1 .. Len(x) : (x \o y)[k] = x[k]
      BY <1>1
    <3> QED
      BY <1>2, <2>2, <2>3, <3>1
  <2>5. ASSUME Len(a \o b) = 1 PROVE Len(x \o y) = CipherLen(q, w, a[1])
    <3>1. Len(a) = 1 /\ Len(b) = 0
      <4>1. Len(a) + Len(b) = 1 /\ Len(a) \in Nat /\ Len(b) \in Nat /\ Len(a) >= 1
        <5>1. Len(a \o b) = 1
          BY <2>5
        <5> QED
          BY <5>1, <1>2, <2>1
      <4>2. \A m, n \in Nat : m + n = 1 /\ m >= 1 => m = 1 /\ n = 0
        OBVIOUS
      <4> QED
        BY <4>1, <4>2, Zenon
    <3>2. b = <<>>
      BY <1>1, <3>1
    <3>3. y = <<>>
      BY <3>2 DEF Holds
    <3>4. Len(y) = 0
      BY <3>3
    <3>5. Len(x) = CipherLen(q, w, a[1])
      BY <3>1 DEF Holds
    <3> QED
      BY <1>2, <3>4, <3>5
  <2> QED
    BY <1>2, <2>1, <2>4, <2>5 DEF Holds, S, C
<1> QED
  BY <1>3, <1>4

-------------------------------------------------------------------------------
(* The inductive invariant, over the proxy's.                              *)

Bytes ==
  /\ Holds(request, suite, out, outBytes)
  /\ Holds(request, suite, cipher, cipherBytes)
  /\ Holds(request, suite, attested, attestedBytes)

Given == request \in Requests /\ suite \in Suites /\ stream = StreamOf(request, suite)

ProveOK ==
  /\ outcome \in {"none", "proved", "error"}
  /\ outcome = "proved" => HashLen(suite) = 32
  /\ outcome # "none" => sent >= stream.end[1]

AInv == Given /\ ProveOK /\ Bytes

LEMMA InitAInv == Init => AInv
  BY HoldsEmpty DEF Init, AInv, Given, ProveOK, Bytes, Proxy!Init

LEMMA ReadStep == AInv /\ P!IInv /\ Read => AInv'
<1> SUFFICES ASSUME AInv, P!IInv, Read PROVE AInv'
  OBVIOUS
<1>1. /\ out' = <<>> /\ outBytes' = <<>>
      /\ UNCHANGED <<request, suite, outcome, stream, cipher, attested, sent, cipherBytes, attestedBytes>>
  BY DEF Read, Proxy!Read
<1> QED
  BY <1>1, HoldsEmpty DEF AInv, Given, ProveOK, Bytes

(* The drain appends a record's ciphertext with the record.                *)
LEMMA DrainRecordStep == AInv /\ P!IInv /\ P!IInv' /\ DrainRecord => AInv'
<1> SUFFICES ASSUME AInv, P!IInv, P!IInv', DrainRecord PROVE AInv'
  OBVIOUS
<1>1. UNCHANGED <<request, suite, outcome, stream, cipher, attested, sent, cipherBytes, attestedBytes>>
  BY DEF DrainRecord, Proxy!DrainRecord
<1> DEFINE i == offset + 1
<1>2. CASE ~Proxy!Selected(i)
  <2>1. out' = out /\ outBytes' = outBytes
    BY <1>2 DEF DrainRecord, Proxy!DrainRecord
  <2> QED
    BY <1>1, <2>1 DEF AInv, Given, ProveOK, Bytes
<1>3. CASE Proxy!Selected(i)
  <2>1. out' = Append(out, i) /\ outBytes' = outBytes \o RecordCipher(i)
    BY <1>3 DEF DrainRecord, Proxy!DrainRecord
  <2>2. i \in Sealeds(request)
    <3>1. stream.n = 3 + Len(request) /\ Len(request) \in Nat
          /\ \A k \in 1 .. stream.n : stream.typ[k] = 23 => k >= 3
      BY RequestFacts, StreamShape DEF AInv, Given
    <3>2. stream.typ[i] = 23
      BY <1>3 DEF Proxy!Selected, Proxy!AppDataType
    <3>3. base \in 0 .. stream.n /\ offset \in base .. stream.n /\ offset' \in base' .. stream'.n
      BY DEF P!IInv, P!TypeOK
    <3>4. offset' = offset + 1 /\ stream' = stream
      BY DEF DrainRecord, Proxy!DrainRecord
    <3>5. i \in 1 .. stream.n
      BY <3>1, <3>3, <3>4
    <3> QED
      BY <3>1, <3>2, <3>5 DEF Sealeds
  <2>3. RecordCipher(i) = CipherOf(request, suite, i)
    BY <2>2, RecordCipherOf DEF AInv, Given
  <2>4. Holds(request, suite, <<i>>, CipherOf(request, suite, i))
    BY <2>2, HoldsOne DEF AInv, Given
  <2>5. Holds(request, suite, out \o <<i>>, outBytes \o CipherOf(request, suite, i))
    BY <2>4, HoldsConcat DEF AInv, Given, Bytes
  <2>6. Append(out, i) = out \o <<i>>
    <3>1. out \in Seq(Sealeds(request))
      BY DEF AInv, Bytes, Holds
    <3> QED
      BY <3>1, <2>2
  <2> HIDE DEF i
  <2>7. Holds(request', suite', out', outBytes')
    BY <1>1, <2>1, <2>3, <2>5, <2>6
  <2> QED
    BY <1>1, <2>7 DEF AInv, Given, ProveOK, Bytes
<1> QED
  BY <1>2, <1>3

LEMMA DrainEndStep == AInv /\ P!IInv /\ DrainEnd => AInv'
<1> SUFFICES ASSUME AInv, P!IInv, DrainEnd PROVE AInv'
  OBVIOUS
<1>1. UNCHANGED <<request, suite, outcome, stream, out, sent, outBytes>>
      /\ cipher' = cipher \o out /\ cipherBytes' = cipherBytes \o outBytes
      /\ attested' = (IF out # <<>> THEN cipher' ELSE attested)
      /\ attestedBytes' = (IF outBytes # <<>> THEN cipherBytes' ELSE attestedBytes)
  BY DEF DrainEnd, Proxy!DrainEnd
<1>2. Holds(request, suite, cipher \o out, cipherBytes \o outBytes)
  BY HoldsConcat DEF AInv, Given, Bytes
<1>3. out = <<>> <=> outBytes = <<>>
  BY HoldsSome DEF AInv, Given, Bytes
<1>4. Holds(request, suite, attested', attestedBytes')
  BY <1>1, <1>2, <1>3 DEF AInv, Bytes
<1> QED
  BY <1>1, <1>2, <1>4 DEF AInv, Given, ProveOK, Bytes

(* The target's bytes only grow, so an answer stays possible.              *)
LEMMA WriteOrStopStep == AInv /\ P!IInv /\ P!IInv' /\ WriteOrStop => AInv'
<1> SUFFICES ASSUME AInv, P!IInv, P!IInv', WriteOrStop PROVE AInv'
  OBVIOUS
<1>1. UNCHANGED <<request, suite, outcome, byteVars, stream, out, cipher, attested>>
  BY DEF WriteOrStop, Proxy!Write, Proxy!IoError, Proxy!Eof
<1>2. sent' = sent \/ sent < sent'
  BY DEF WriteOrStop, Proxy!Write, Proxy!IoError, Proxy!Eof
<1>3. sent \in Nat /\ sent' \in Nat /\ stream.end[1] \in Nat
  <2>1. received \in Int /\ sent \in 0 .. received /\ received' \in Int /\ sent' \in 0 .. received'
    <3>1. stream.end[stream.n] \in Nat /\ stream' = stream
      BY <1>1, RequestFacts, StreamShape, StreamLens DEF AInv, Given
    <3>2. received \in 0 .. stream.end[stream.n] /\ received' \in 0 .. stream'.end[stream'.n]
      BY DEF P!IInv, P!TypeOK
    <3>3. sent \in 0 .. received /\ sent' \in 0 .. received'
      BY DEF P!IInv, P!TypeOK
    <3> QED
      BY <3>1, <3>2, <3>3
  <2>2. stream.end[1] = 5 + HelloLen /\ HelloLen \in Nat
    BY StreamShape, HelloAssumption DEF AInv, Given
  <2> QED
    BY <2>1, <2>2
<1>4. ProveOK'
  BY <1>1, <1>2, <1>3 DEF AInv, ProveOK
<1> QED
  BY <1>1, <1>4 DEF AInv, Given, Bytes, byteVars

LEMMA ProveStep == AInv /\ Prove => AInv'
<1> SUFFICES ASSUME AInv, Prove PROVE AInv'
  OBVIOUS
<1>1. CircuitSatisfied
  BY CircuitDecrypts DEF AInv, Given
<1>2. /\ outcome' = (IF HashLen(suite) # 32 THEN "error" ELSE "proved")
      /\ sent >= stream.end[1]
  BY <1>1 DEF Prove
<1>3. UNCHANGED <<request, suite, proxyVars, byteVars>>
  BY DEF Prove
<1>4. ProveOK'
  BY <1>2, <1>3 DEF AInv, ProveOK, proxyVars
<1> QED
  BY <1>3, <1>4 DEF AInv, Given, Bytes, proxyVars, byteVars

THEOREM Invariance == Spec => []AInv
<1>1. AInv /\ UNCHANGED vars => AInv'
  BY DEF AInv, Given, ProveOK, Bytes, vars, proxyVars, byteVars
<1>2. AInv /\ P!IInv /\ P!IInv' /\ [Next]_vars => AInv'
  BY <1>1, ReadStep, DrainRecordStep, DrainEndStep, WriteOrStopStep, ProveStep DEF Next
<1> QED
  BY <1>2, InitAInv, ProxyInvariant, PTL DEF Spec

(* Every reachable state is well typed.                                    *)
THEOREM TypeCorrect == Spec => []TypeOK
<1>1. AInv /\ P!IInv => TypeOK
  <2> SUFFICES ASSUME AInv, P!IInv PROVE TypeOK
    OBVIOUS
  <2>1. Proxy!TypeOK
    BY DEF P!IInv, P!TypeOK, Proxy!TypeOK
  <2>2. outBytes \in Seq(Cell) /\ cipherBytes \in Seq(Cell) /\ attestedBytes \in Seq(Cell)
    BY DEF AInv, Bytes, Holds
  <2> QED
    BY <2>1, <2>2 DEF AInv, Given, ProveOK, TypeOK
<1> QED
  BY <1>1, Invariance, ProxyInvariant, PTL

-------------------------------------------------------------------------------
(* The two ciphertexts.                                                    *)

(* The ciphertext of the proof, as numbers.                                *)
LEMMA ProveCipherFacts ==
  ASSUME request \in Requests
  PROVE  /\ RequestLen(request) \in Nat \ {0}
         /\ Len(ProveCipher) = RequestLen(request)
         /\ \A k \in 1 .. RequestLen(request) : ProveCipher[k] = Sealed("chacha20", "traffic", 0, k, k)
<1>1. Len(request) \in 1 .. Len(request) /\ RequestLen(request) = request[Len(request)]
  BY RequestFacts DEF RequestLen
<1>2. request[Len(request)] \in Nat /\ Before(request, Len(request)) \in Nat
      /\ Before(request, Len(request)) < request[Len(request)]
  BY <1>1, RequestFacts
<1>3. RequestLen(request) \in Nat \ {0}
  BY <1>1, <1>2
<1> DEFINE n == RequestLen(request)
<1>4. ProveCipher = [k \in 1 .. n |-> Sealed("chacha20", "traffic", 0, k, k)]
  BY DEF ProveCipher, ProveSeq
<1>5. Len(ProveCipher) = n
  <2> HIDE DEF n
  <2> QED
    BY <1>3, <1>4 DEF n
<1> QED
  BY <1>3, <1>4, <1>5

(* A prefix, byte by byte.                                                 *)
LEMMA PrefixBytes ==
  ASSUME NEW s \in Seq(Cell), NEW t \in Seq(Cell)
  PROVE  IsPrefix(s, t) <=> Len(s) <= Len(t) /\ \A k \in 1 .. Len(s) : s[k] = t[k]
<1> DEFINE S == Cell
<1>1. s \in Seq(S) /\ t \in Seq(S)
  OBVIOUS
<1> HIDE DEF S
<1>2. Len(s) \in Nat /\ Len(t) \in Nat /\ DOMAIN s = 1 .. Len(s) /\ DOMAIN t = 1 .. Len(t)
  BY <1>1
<1>3. SubSeq(s, 1, Len(s)) = s
  BY <1>1
<1>4. CASE Len(s) <= Len(t)
  <2>1. /\ SubSeq(t, 1, Len(s)) \in Seq(S) /\ Len(SubSeq(t, 1, Len(s))) = Len(s)
        /\ \A k \in 1 .. Len(s) : SubSeq(t, 1, Len(s))[k] = t[k]
    BY <1>1, <1>2, <1>4
  <2>2. s = SubSeq(t, 1, Len(s)) <=> \A k \in 1 .. Len(s) : s[k] = t[k]
    BY <1>1, <1>2, <2>1
  <2> QED
    BY <1>3, <1>4, <2>2 DEF IsPrefix
<1> QED
  BY <1>4 DEF IsPrefix

(* The first byte of a record tells it from the first byte of the request, *)
(* and its last one, the content type, from every byte of the request.     *)
LEMMA SealedFields ==
  \A v, key, n, k, p :
    LET c == Sealed(v, key, n, k, p) IN c.alg = v /\ c.key = key /\ c.nonce = n /\ c.plain = p
BY DEF Sealed

LEMMA FirstByte ==
  ASSUME NEW q \in Requests, NEW w \in Suites, NEW i \in Sealeds(q),
         CipherOf(q, w, i)[1] = Sealed("chacha20", "traffic", 0, 1, 1)
  PROVE  i = 4 /\ w = "chacha20"
<1>1. CipherLen(q, w, i) \in Nat \ {0} /\ i \in Nat /\ i >= 3
  BY CipherFacts, RequestFacts DEF Sealeds
<1>2. 1 \in 1 .. CipherLen(q, w, i)
  BY <1>1
<1> DEFINE c == CipherOf(q, w, i)[1]
<1>3. c.alg = "chacha20" /\ c.key = "traffic" /\ c.nonce = 0
  BY SealedFields
<1>4. CASE i < 4
  <2>1. c = Sealed(w, "handshake", 0, 1, 0)
    BY <1>2, <1>4 DEF CipherOf
  <2>2. c.key = "handshake"
    BY <2>1, SealedFields
  <2> QED
    BY <1>3, <2>2
<1>5. CASE ~(i < 4)
  <2>1. PICK p : c = Sealed(w, "traffic", i - 4, 1, p)
    BY <1>2, <1>5 DEF CipherOf
  <2> HIDE DEF c
  <2>2. c.nonce = i - 4 /\ c.alg = w
    BY <2>1, SealedFields
  <2> QED
    BY <1>1, <1>3, <2>2
<1> QED
  BY <1>4, <1>5

LEMMA FirstRecord ==
  ASSUME NEW q \in Requests, NEW w \in Suites
  PROVE  /\ 4 \in Sealeds(q) /\ CipherLen(q, w, 4) = q[1] + 1 /\ q[1] \in Nat \ {0}
         /\ \A k \in 1 .. q[1] : CipherOf(q, w, 4)[k] = Sealed(w, "traffic", 0, k, k)
         /\ CipherOf(q, w, 4)[q[1] + 1] = Sealed(w, "traffic", 0, q[1] + 1, 0)
<1>1. Len(q) \in Nat \ {0} /\ 4 \in Sealeds(q) /\ 4 - 3 = 1 /\ 4 - 4 = 0 /\ 1 \in 1 .. Len(q)
  BY RequestFacts DEF Sealeds
<1>2. Before(q, 1) = 0
  BY DEF Before
<1>3. q[1] \in Nat \ {0} /\ FragmentLen(q, 1) = q[1] - 0
  <2>1. q[1] \in Nat /\ Before(q, 1) < q[1] /\ FragmentLen(q, 1) = q[1] - Before(q, 1)
    BY <1>1, RequestFacts
  <2> QED
    BY <1>2, <2>1
<1>4. CipherLen(q, w, 4) = q[1] + 1
  <2>1. CipherLen(q, w, 4) = FragmentLen(q, 4 - 3) + 1
    BY <1>1, CipherFacts
  <2> QED
    BY <1>1, <1>3, <2>1
<1>5. \A k \in 1 .. q[1] + 1 :
        CipherOf(q, w, 4)[k] = Sealed(w, "traffic", 0, k, IF k = q[1] + 1 THEN 0 ELSE 0 + k)
  BY <1>1, <1>2, <1>4 DEF CipherOf
<1>6. /\ q[1] + 1 \in 1 .. q[1] + 1
      /\ \A k \in 1 .. q[1] : k \in 1 .. q[1] + 1 /\ k # q[1] + 1 /\ 0 + k = k
  BY <1>3
<1> QED
  BY <1>1, <1>3, <1>4, <1>5, <1>6

(* The bytes of a buffer whose first record is the request's first begin   *)
(* with the proof's ciphertext just if the suite is the proof's and the     *)
(* request has no other record.                                            *)
LEMMA BeginsWithFirst ==
  ASSUME request \in Requests, suite \in Suites,
         NEW list, NEW bytes, Holds(request, suite, list, bytes)
  PROVE  IsPrefix(ProveCipher, bytes) <=>
           suite = "chacha20" /\ Len(request) = 1 /\ list # <<>> /\ list[1] = FirstApp
<1> DEFINE n == RequestLen(request)
           f == request[1]
<1>1. /\ n \in Nat \ {0} /\ Len(ProveCipher) = n
      /\ \A k \in 1 .. n : ProveCipher[k] = Sealed("chacha20", "traffic", 0, k, k)
  BY ProveCipherFacts
<1>2. ProveCipher \in Seq(Cell)
  <2>1. \A k \in 1 .. n : Sealed("chacha20", "traffic", 0, k, k) \in Cell
    <3>1. "chacha20" \in Suites /\ "traffic" \in {"handshake", "traffic"} /\ 0 \in Nat
      BY DEF Suites
    <3>2. \A k \in 1 .. n : k \in Nat \ {0} /\ k \in Nat
      BY <1>1
    <3> QED
      BY <3>1, <3>2, SealedCell
  <2>2. ProveCipher = [k \in 1 .. n |-> Sealed("chacha20", "traffic", 0, k, k)]
    BY DEF ProveCipher, ProveSeq
  <2> DEFINE S == Cell
             c == ProveCipher
  <2>3. c \in [1 .. n -> S]
    BY <2>1, <2>2
  <2> HIDE DEF S, c, n
  <2>4. c \in Seq(S)
    BY <1>1, <2>3
  <2> QED
    BY <2>4 DEF S, c
<1>3. bytes \in Seq(Cell) /\ Len(bytes) \in Nat /\ list \in Seq(Sealeds(request))
  BY DEF Holds
<1>4. IsPrefix(ProveCipher, bytes) <=>
        n <= Len(bytes) /\ \A k \in 1 .. n : Sealed("chacha20", "traffic", 0, k, k) = bytes[k]
  BY <1>1, <1>2, <1>3, PrefixBytes
<1>5. /\ 4 \in Sealeds(request) /\ CipherLen(request, suite, 4) = f + 1 /\ f \in Nat \ {0}
      /\ \A k \in 1 .. f : CipherOf(request, suite, 4)[k] = Sealed(suite, "traffic", 0, k, k)
      /\ CipherOf(request, suite, 4)[f + 1] = Sealed(suite, "traffic", 0, f + 1, 0)
  BY FirstRecord
<1>6. list # <<>> => /\ list[1] \in Sealeds(request)
                     /\ CipherLen(request, suite, list[1]) \in Nat \ {0}
                     /\ CipherLen(request, suite, list[1]) <= Len(bytes)
                     /\ \A k \in 1 .. CipherLen(request, suite, list[1]) :
                          bytes[k] = CipherOf(request, suite, list[1])[k]
  <2> DEFINE S == Sealeds(request)
  <2>1. list \in Seq(S)
    BY <1>3
  <2> HIDE DEF S
  <2>2. list # <<>> => list[1] \in S
    BY <2>1
  <2> QED
    BY <2>2, CipherFacts DEF S, Holds
<1>7. list = <<>> <=> bytes = <<>>
  BY HoldsSome
<1> HIDE DEF n, f
\* one record, and the drain's first
<1>8. ASSUME suite = "chacha20", Len(request) = 1, list # <<>>, list[1] = FirstApp
      PROVE  IsPrefix(ProveCipher, bytes)
  <2>1. n = f
    BY <1>8 DEF n, f, RequestLen
  <2>2. list[1] = 4
    BY <1>8 DEF FirstApp
  <2>3. f + 1 <= Len(bytes) /\ \A k \in 1 .. f + 1 : bytes[k] = CipherOf(request, suite, 4)[k]
    BY <1>5, <1>6, <1>8, <2>2
  <2>4. f <= Len(bytes) /\ \A k \in 1 .. f : k \in 1 .. f + 1
    BY <1>3, <1>5, <2>3
  <2> QED
    BY <1>4, <1>5, <1>8, <2>1, <2>3, <2>4
\* conversely: the first byte names the record, the content type its end
<1>9. ASSUME IsPrefix(ProveCipher, bytes)
      PROVE  suite = "chacha20" /\ Len(request) = 1 /\ list # <<>> /\ list[1] = FirstApp
  <2>1. n <= Len(bytes) /\ \A k \in 1 .. n : Sealed("chacha20", "traffic", 0, k, k) = bytes[k]
    BY <1>4, <1>9
  <2>2. list # <<>>
    <3>1. Len(bytes) # 0
      BY <1>1, <1>3, <2>1
    <3>2. Len(<<>>) = 0
      OBVIOUS
    <3> QED
      BY <1>7, <3>1, <3>2
  <2>3. list[1] = 4 /\ suite = "chacha20"
    <3>1. 1 \in 1 .. n /\ 1 \in 1 .. CipherLen(request, suite, list[1])
      BY <1>1, <1>6, <2>2
    <3>2. CipherOf(request, suite, list[1])[1] = Sealed("chacha20", "traffic", 0, 1, 1)
      BY <1>6, <2>1, <2>2, <3>1
    <3> QED
      BY <1>6, <2>2, <3>2, FirstByte
  <2>4. Len(request) = 1
    <3>1. Len(request) \in Nat \ {0}
      BY RequestFacts
    <3> SUFFICES ASSUME Len(request) # 1 PROVE FALSE
      OBVIOUS
    <3>2. f < n
      <4>1. \A m \in Nat \ {0} : m # 1 => 1 \in 1 .. m /\ m \in 1 .. m /\ 1 < m
        OBVIOUS
      <4>2. 1 \in 1 .. Len(request) /\ Len(request) \in 1 .. Len(request) /\ 1 < Len(request)
        BY <3>1, <4>1, Zenon
      <4> QED
        BY <4>2, RequestsAssumption DEF f, n, RequestLen
    <3>3. f + 1 \in 1 .. n /\ f + 1 \in 1 .. f + 1
      BY <1>1, <1>5, <3>2
    <3>4. bytes[f + 1] = Sealed("chacha20", "traffic", 0, f + 1, f + 1)
      BY <2>1, <3>3
    <3>5. bytes[f + 1] = Sealed(suite, "traffic", 0, f + 1, 0)
      <4>1. \A k \in 1 .. f + 1 : bytes[k] = CipherOf(request, suite, 4)[k]
        BY <1>5, <1>6, <2>2, <2>3
      <4> QED
        BY <1>5, <3>3, <4>1
    <3>6. f + 1 = 0
      BY <3>4, <3>5, SealedFields
    <3> QED
      BY <1>5, <3>6
  <2> QED
    BY <2>2, <2>3, <2>4 DEF FirstApp
<1> QED
  BY <1>8, <1>9

(* The proof's ciphertext begins the attested one for requests of one      *)
(* record that the drain kept first, under the proof's suite, and for no   *)
(* other.                                                                  *)
THEOREM ProvedBegins == Spec => []ProvedBeginsAttested
<1>1. AInv => ProvedBeginsAttested
  BY BeginsWithFirst DEF AInv, Given, Bytes, ProvedBeginsAttested
<1> QED
  BY <1>1, Invariance, PTL

(* With one record, of a length the drain takes for no Finished's, and a   *)
(* Finished of 53 that no pass coalesced with it, what the proxy has       *)
(* attested when the target has the request is this record.                *)
LEMMA OneRecordKept ==
  ASSUME AInv, P!IInv, P!EInv, HashLen(suite) = 32,
         sent = stream.end[stream.n], Len(request) = 1, ~mixed,
         Proxy!Len8(stream, FirstApp) # Proxy!FinishedLowByte
  PROVE  attested = <<4>>
<1>1. stream.n = 4 /\ stream.app = 4 .. 4
      /\ \A i \in 1 .. stream.n : stream.typ[i] = 23 <=> i >= 3
  <2>1. /\ stream.n = 3 + Len(request) /\ stream.app = 4 .. stream.n
        /\ \A i \in 1 .. stream.n : stream.typ[i] = 23 <=> i >= 3
    <3>1. request \in Requests /\ suite \in Suites /\ stream = StreamOf(request, suite)
      BY DEF AInv, Given
    <3> DEFINE t == StreamOf(request, suite)
    <3>2. /\ t.n = 3 + Len(request) /\ t.app = 4 .. t.n
          /\ \A i \in 1 .. t.n : t.typ[i] = 23 <=> i >= 3
      BY <3>1, StreamShape
    <3>3. stream = t
      BY <3>1
    <3> HIDE DEF t
    <3> QED
      BY <3>2, <3>3, Zenon
  <2>2. 3 + Len(request) = 4
    OBVIOUS
  <2> QED
    BY <2>1, <2>2, Zenon
<1>2. /\ P!PayloadLen(stream, 3) = 53
      /\ P!PayloadLen(stream, 4) = request[1] + 17 /\ request[1] \in Nat \ {0}
  <2>1. /\ P!PayloadLen(stream, 3) = FinishedLen(suite) + 17
        /\ P!PayloadLen(stream, 4) = FragmentLen(request, 4 - 3) + 17
    BY <1>1, StreamLens DEF AInv, Given
  <2>2. 4 - 3 = 1 /\ 1 \in 1 .. Len(request)
    OBVIOUS
  <2>3. /\ FragmentLen(request, 1) = request[1] - Before(request, 1) /\ request[1] \in Nat
        /\ Before(request, 1) < request[1]
    BY <2>2, RequestFacts DEF AInv, Given
  <2>4. Before(request, 1) = 0
    BY DEF Before
  <2>5. FinishedLen(suite) = 36
    BY FinishedFacts DEF AInv, Given
  <2> QED
    BY <2>1, <2>2, <2>3, <2>4, <2>5
<1>3. P!Len8(stream, 3) = 53 /\ P!Len8(stream, 4) # 53
  <2>1. P!Len8(stream, 3) = 53
    BY <1>2 DEF P!Len8
  <2>2. P!Len8(stream, 4) # 53
    BY DEF P!Len8, Proxy!Len8, P!PayloadLen, Proxy!PayloadLen, P!HeaderLen, Proxy!HeaderLen,
           FirstApp, Proxy!FinishedLowByte
  <2> QED
    BY <2>1, <2>2
<1>4. P!LengthTellsFinished(stream)
  <2> SUFFICES ASSUME NEW i \in 1 .. 4, stream.typ[i] = 23
               PROVE  i \in stream.app <=>
                        P!Len8(stream, i) # 53 /\ P!PayloadLen(stream, i) > 16
    BY <1>1 DEF P!LengthTellsFinished, P!AppDataType, P!FinishedLowByte, P!TagLen
  <2>1. i = 3 \/ i = 4
    BY <1>1
  <2>2. P!PayloadLen(stream, 4) > 16
    BY <1>2
  <2> QED
    BY <1>1, <1>3, <2>1, <2>2
<1>5. ToSet(cipher) = stream.app \cap (1 .. base)
  BY <1>4 DEF P!EInv, P!CipherExact, P!ToSet, ToSet
<1>6. base = 4
  <2>1. P!AttestedBeforeForwarded
    BY StreamsWellFormed, ReadsAssumption, P!AttestsFirst
       DEF P!StreamsAssumption, P!SegmentsAssumption, P!BufAssumption
  <2>2. stream.end[4] <= sent
    <3>1. stream.end[4] \in Nat
      BY <1>1, StreamLens DEF AInv, Given
    <3> QED
      BY <1>1, <3>1
  <2>3. 4 <= base
    BY <1>1, <2>1, <2>2 DEF P!AttestedBeforeForwarded
  <2>4. base \in 0 .. 4
    BY <1>1 DEF P!IInv, P!TypeOK
  <2> QED
    BY <2>3, <2>4
<1>7. ToSet(cipher) = {4}
  BY <1>1, <1>5, <1>6
<1>8. cipher \in Seq(Nat) /\ \A i, j \in 1 .. Len(cipher) : i < j => cipher[i] < cipher[j]
  <2>1. cipher \in Seq(1 .. 4)
    BY <1>1 DEF P!IInv, P!TypeOK
  <2> QED
    BY <2>1 DEF P!IInv, P!CipherInWireOrder, P!Increasing
<1>9. \A i \in 1 .. Len(cipher) : cipher[i] = 4
  <2>1. \A i \in 1 .. Len(cipher) : cipher[i] \in ToSet(cipher)
    BY <1>8 DEF ToSet
  <2> QED
    BY <1>7, <2>1
<1>10. Len(cipher) = 1
  <2>1. Len(cipher) \in Nat
    BY <1>8
  <2>2. Len(cipher) # 0
    BY <1>7 DEF ToSet
  <2>3. ~(1 < Len(cipher))
    <3> SUFFICES ASSUME 1 < Len(cipher) PROVE FALSE
      OBVIOUS
    <3>1. 1 \in 1 .. Len(cipher) /\ 2 \in 1 .. Len(cipher)
      BY <2>1
    <3>2. cipher[1] = 4 /\ cipher[2] = 4 /\ cipher[1] < cipher[2]
      BY <1>8, <1>9, <3>1
    <3> QED
      BY <3>2
  <2>4. \A m \in Nat : m # 0 /\ ~(1 < m) => m = 1
    OBVIOUS
  <2> QED
    BY <2>1, <2>2, <2>3, <2>4, Zenon
<1>11. cipher = <<4>>
  BY <1>8, <1>9, <1>10
<1> QED
  BY <1>11 DEF P!IInv

(* Under another suite than the proof's, no byte of a record is the        *)
(* proof's.                                                                *)
LEMMA OtherSuite ==
  ASSUME NEW q \in Requests, NEW w \in Suites, w # "chacha20",
         NEW i \in Sealeds(q), NEW k \in 1 .. CipherLen(q, w, i), NEW m
  PROVE  CipherOf(q, w, i)[k] # Sealed("chacha20", "traffic", 0, m, m)
<1> DEFINE c == CipherOf(q, w, i)[k]
<1>1. \E key, n, p : c = Sealed(w, key, n, k, p)
  BY DEF CipherOf
<1> HIDE DEF c
<1>2. c.alg = w
  BY <1>1, SealedFields
<1>3. c # Sealed("chacha20", "traffic", 0, m, m)
  BY <1>2, SealedFields
<1> QED
  BY <1>3 DEF c

(* Under the conditions, the proxy's last commitment is of one byte more   *)
(* than the proof's ciphertext, and begins with it or has nothing of it.   *)
THEOREM AttestedIsProved == Spec => []AttestedIsProvedAndType
<1>1. AInv /\ P!IInv /\ P!EInv => AttestedIsProvedAndType
  <2> SUFFICES ASSUME AInv, P!IInv, P!EInv, outcome = "proved",
                      sent = stream.end[stream.n], Len(request) = 1, ~mixed,
                      Proxy!Len8(stream, FirstApp) # Proxy!FinishedLowByte
               PROVE  /\ Len(attestedBytes) = Len(ProveCipher) + 1
                      /\ IF suite = "chacha20" THEN IsPrefix(ProveCipher, attestedBytes)
                         ELSE \A k \in 1 .. Len(ProveCipher) :
                                ProveCipher[k] # attestedBytes[k]
    BY DEF AttestedIsProvedAndType
  <2>0. request \in Requests /\ suite \in Suites /\ HashLen(suite) = 32
    BY DEF AInv, Given, ProveOK
  <2>1. attested = <<4>>
    BY <2>0, OneRecordKept
  <2>2. attested # <<>> /\ attested[1] = 4 /\ Len(attested) = 1
    BY <2>1
  <2>3. ASSUME suite = "chacha20" PROVE IsPrefix(ProveCipher, attestedBytes)
    BY <2>0, <2>2, <2>3, BeginsWithFirst DEF AInv, Bytes, FirstApp
  <2>4. /\ Len(attestedBytes) = CipherLen(request, suite, 4)
        /\ \A k \in 1 .. CipherLen(request, suite, 4) :
             attestedBytes[k] = CipherOf(request, suite, 4)[k]
    BY <2>2 DEF AInv, Bytes, Holds
  <2>5. 4 \in Sealeds(request) /\ CipherLen(request, suite, 4) = request[1] + 1
        /\ request[1] \in Nat \ {0}
    BY <2>0, FirstRecord
  <2>6. /\ Len(ProveCipher) = request[1]
        /\ \A k \in 1 .. request[1] : ProveCipher[k] = Sealed("chacha20", "traffic", 0, k, k)
    BY <2>0, ProveCipherFacts DEF RequestLen
  <2>7. ASSUME suite # "chacha20", NEW k \in 1 .. Len(ProveCipher)
        PROVE  ProveCipher[k] # attestedBytes[k]
    <3>1. k \in 1 .. request[1] /\ k \in 1 .. CipherLen(request, suite, 4)
      BY <2>5, <2>6
    <3>2. CipherOf(request, suite, 4)[k] # Sealed("chacha20", "traffic", 0, k, k)
      BY <2>0, <2>5, <2>7, <3>1, OtherSuite
    <3> QED
      BY <2>4, <2>6, <3>1, <3>2
  <2> QED
    BY <2>3, <2>4, <2>5, <2>6, <2>7
<1>2. P!Spec => []P!EInv
  BY StreamsWellFormed, ReadsAssumption, P!ExactInvariance
     DEF P!StreamsAssumption, P!SegmentsAssumption, P!BufAssumption
<1> QED
  BY <1>1, <1>2, Invariance, ProxyInvariant, ProxySpec, PTL

-------------------------------------------------------------------------------
(* What the circuit would make of the bytes TLS sealed.                    *)

LEMMA TlsByte ==
  ASSUME Given, NEW k \in 1 .. RequestLen(request), NEW j \in 1 .. Len(request),
         RecordOf(k) = j, Before(request, j) < k, k <= request[j]
  PROVE  TlsCipher[k] = Sealed(suite, "traffic", j - 1, k - Before(request, j), k)
<1> DEFINE i == FirstApp - 1 + j
           m == k - Before(request, j)
<1>1. /\ Len(request) \in Nat /\ request[j] \in Nat /\ Before(request, j) \in Nat
      /\ FragmentLen(request, j) = request[j] - Before(request, j)
  BY RequestFacts DEF Given
<1>2. k \in Int
  OBVIOUS
<1>3. TlsCipher[k] = PayloadByte(i, m)
  BY DEF TlsCipher
<1>4. i = j + 3 /\ i - FirstApp + 1 = j /\ ~(i < FirstApp) /\ i \in 4 .. 3 + Len(request)
      /\ i - 3 = j
  BY <1>1 DEF FirstApp
<1>5. Proxy!PayloadLen(stream, i) - 16 = FragmentLen(request, j) + 1
  <2>1. P!PayloadLen(stream, i) = FragmentLen(request, i - 3) + 17
    BY <1>4, StreamShape, StreamLens DEF Given
  <2>2. Proxy!PayloadLen(stream, i) = P!PayloadLen(stream, i)
    BY DEF Proxy!PayloadLen, P!PayloadLen, Proxy!HeaderLen, P!HeaderLen
  <2>3. FragmentLen(request, j) \in Int
    BY <1>1
  <2> HIDE DEF i
  <2> QED
    BY <1>4, <2>1, <2>2, <2>3
<1>6. m <= FragmentLen(request, j) /\ m \in Int /\ Before(request, j) + m = k
      /\ FragmentLen(request, j) \in Int
  BY <1>1, <1>2
<1>7. ~(m > FragmentLen(request, j) + 1) /\ m # FragmentLen(request, j) + 1
  BY <1>6
<1> HIDE DEF i, m
<1>8. PayloadByte(i, m) = Sealed(suite, "traffic", j - 1, m, Before(request, j) + m)
  BY <1>4, <1>5, <1>7 DEF PayloadByte
<1> QED
  BY <1>3, <1>6, <1>8 DEF m

(* A request of one record is sealed as the proof seals it, but for the    *)
(* suite; of any other the last byte is sealed under a later nonce.        *)
LEMMA TlsCipherFacts ==
  ASSUME Given
  PROVE  /\ Len(TlsCipher) = RequestLen(request)
         /\ Len(request) = 1 =>
              \A k \in 1 .. RequestLen(request) : TlsCipher[k] = Sealed(suite, "traffic", 0, k, k)
         /\ \E m : TlsCipher[RequestLen(request)] =
                     Sealed(suite, "traffic", Len(request) - 1, m, RequestLen(request))
<1> DEFINE n == RequestLen(request)
           e == Len(request)
<1>1. n \in Nat \ {0} /\ n = request[e] /\ e \in Nat \ {0} /\ e \in 1 .. e
  BY RequestFacts, ProveCipherFacts DEF Given, RequestLen
<1>2. Len(TlsCipher) = n
  <2> DEFINE b(k) == PayloadByte(FirstApp - 1 + RecordOf(k), k - Before(request, RecordOf(k)))
  <2>1. TlsCipher = [k \in 1 .. n |-> b(k)]
    BY DEF TlsCipher
  <2> HIDE DEF n, b
  <2> QED
    BY <1>1, <2>1
<1>3. ASSUME e = 1, NEW k \in 1 .. n
      PROVE  TlsCipher[k] = Sealed(suite, "traffic", 0, k, k)
  <2>1. Before(request, 1) = 0 /\ 1 \in 1 .. e
    BY <1>1 DEF Before
  <2>2. Before(request, 1) < k /\ k <= request[1]
    BY <1>1, <1>3, <2>1
  <2>3. RecordOf(k) = 1
    BY <1>3, <2>1, <2>2 DEF RecordOf
  <2>4. TlsCipher[k] = Sealed(suite, "traffic", 1 - 1, k - Before(request, 1), k)
    BY <2>1, <2>2, <2>3, TlsByte
  <2>5. k - Before(request, 1) = k /\ 1 - 1 = 0
    BY <2>1
  <2> QED
    BY <2>4, <2>5
<1>4. \E m : TlsCipher[n] = Sealed(suite, "traffic", e - 1, m, n)
  <2>1. Before(request, e) < n /\ n <= request[e] /\ n \in 1 .. n
    BY <1>1, RequestFacts DEF Given
  <2>2. ASSUME NEW j \in 1 .. e, n <= request[j] PROVE j = e
    <3>1. j < e => request[j] < request[e]
      BY <1>1, RequestsAssumption DEF Given
    <3>2. request[j] \in Nat
      BY RequestFacts DEF Given
    <3> HIDE DEF n, e
    <3> QED
      BY <1>1, <2>2, <3>1, <3>2
  <2>3. RecordOf(n) = e
    BY <1>1, <2>1, <2>2 DEF RecordOf
  <2> QED
    BY <1>1, <2>1, <2>3, TlsByte
<1> QED
  BY <1>2, <1>3, <1>4

(* The circuit reads the request from what TLS sealed under its own suite  *)
(* in one record, and from nothing else.                                   *)
LEMMA CircuitOfTls ==
  ASSUME Given
  PROVE  CircuitText(TlsCipher) = Plaintext <=> suite = "chacha20" /\ Len(request) = 1
<1> DEFINE n == RequestLen(request)
           text == TlsCipher
<1>1. n \in Nat \ {0} /\ Len(text) = n /\ Plaintext = [k \in 1 .. n |-> k]
      /\ Len(request) \in Nat \ {0}
  BY RequestFacts, ProveCipherFacts, TlsCipherFacts DEF Given, Plaintext
<1>2. CASE suite = "chacha20" /\ Len(request) = 1
  <2>1. \A k \in 1 .. n : text[k] = Sealed("chacha20", "traffic", 0, k, k)
    BY <1>2, TlsCipherFacts
  <2>2. \A k \in 1 .. n :
          /\ text[k].alg = "chacha20" /\ text[k].key = "traffic" /\ text[k].nonce = 0
          /\ text[k].block = 1 + (k - 1) \div BlockLen /\ text[k].at = (k - 1) % BlockLen
          /\ text[k].plain = k
    <3> SUFFICES ASSUME NEW k \in 1 .. n
                 PROVE  /\ text[k].alg = "chacha20" /\ text[k].key = "traffic"
                        /\ text[k].nonce = 0
                        /\ text[k].block = 1 + (k - 1) \div BlockLen
                        /\ text[k].at = (k - 1) % BlockLen
                        /\ text[k].plain = k
      OBVIOUS
    <3>1. text[k] = Sealed("chacha20", "traffic", 0, k, k)
      BY <2>1
    <3> HIDE DEF text
    <3> QED
      BY <3>1 DEF Sealed, AeadFirstBlock
  <2> HIDE DEF text, n
  <2>3. CircuitText(text) = [k \in 1 .. n |-> k]
    BY <1>1, <2>2 DEF CircuitText, ProveSeq, Count
  <2> QED
    BY <1>1, <1>2, <2>3 DEF text
<1>3. CASE ~(suite = "chacha20" /\ Len(request) = 1)
  <2>1. PICK m : text[n] = Sealed(suite, "traffic", Len(request) - 1, m, n)
    BY TlsCipherFacts
  <2>2. text[n].alg = suite /\ text[n].nonce = Len(request) - 1
    BY <2>1, SealedFields
  <2> HIDE DEF text, n
  <2>3. text[n].alg # "chacha20" \/ text[n].nonce # 0
    BY <1>1, <1>3, <2>2
  <2>4. n \in 1 .. n /\ n # -1
    BY <1>1
  <2>5. CircuitText(text)[n] = -1
    BY <1>1, <2>3, <2>4 DEF CircuitText, ProveSeq
  <2> QED
    BY <1>1, <1>3, <2>4, <2>5 DEF text
<1> QED
  BY <1>2, <1>3

(* A request of the template is never refused by its own proof, which      *)
(* is of what TLS sent under the proof's suite and in one record only.     *)
THEOREM SeesRequest == Spec => []CircuitSeesRequest
<1>1. AInv => CircuitSeesRequest
  <2>1. AInv /\ outcome \in {"proved", "unsatisfied"} => outcome = "proved"
    BY DEF AInv, ProveOK
  <2>2. AInv => (CircuitText(TlsCipher) = Plaintext <=> suite = "chacha20" /\ Len(request) = 1)
    BY CircuitOfTls DEF AInv
  <2> QED
    BY <2>1, <2>2 DEF CircuitSeesRequest
<1> QED
  BY <1>1, Invariance, PTL
===============================================================================
