---------------------------- MODULE PadBodyProofs ----------------------------
(* Proofs of the safety properties of PadBody, for every set of bodies and *)
(* every target length.  The scan is right because `escaped` is the parity *)
(* of the run of backslashes right before `pos`, and no quote that it has  *)
(* passed closes the string.                                               *)
EXTENDS PadBody, TLAPS

(* `escaped` tells the parity of the backslashes before position p.        *)
Parity(b, s, p, e) == \E n \in 0 .. Len(b) : Backslashes(b, s, p, n) /\ (e <=> n % 2 = 1)

NoneCloses(b, s, p) == \A q \in s + 1 .. p - 1 : ~Closes(b, s, q)

InString ==
  /\ start \in 1 .. Len(body) /\ body[start] = "marker"
  /\ pos \in start + 1 .. Len(body) + 1
  /\ NoneCloses(body, start, pos)

Scanning == pc \in {"scan", "insert"} => InString /\ Parity(body, start, pos, escaped)

AtQuote == pc = "insert" => pos <= Len(body) /\ Closes(body, start, pos)

Fits == pc \in {"find", "scan", "insert"} => Len(body) < target

Unfinished == pc # "done" => result = "none"

Padded == result = "padded" =>
  /\ InString /\ pos <= Len(body) /\ Closes(body, start, pos)
  /\ Len(body) < target
  /\ wire = SubSeq(body, 1, pos - 1) \o Pad \o SubSeq(body, pos, Len(body))

IInv ==
  /\ TypeOK /\ Scanning /\ AtQuote /\ Fits /\ Unfinished /\ Padded
  /\ RefusedForCause

-------------------------------------------------------------------------------

(* The run of backslashes before a position has one length.                *)
LEMMA RunUnique ==
  ASSUME NEW b, NEW s \in Nat, NEW p \in Nat,
         NEW n \in Nat, NEW m \in Nat,
         Backslashes(b, s, p, n), Backslashes(b, s, p, m)
  PROVE  n = m
<1>1. ASSUME NEW i \in Nat, NEW j \in Nat, i < j,
             Backslashes(b, s, p, i), Backslashes(b, s, p, j)
      PROVE  FALSE
  <2>1. i < p - s - 1  BY <1>1 DEF Backslashes
  <2>2. b[p - i - 1] # "backslash"  BY <1>1, <2>1 DEF Backslashes
  <2>3. p - i - 1 \in p - j .. p - 1  BY <1>1
  <2> QED  BY <1>1, <2>2, <2>3 DEF Backslashes
<1> QED  BY <1>1

LEMMA ParityIsEscaped ==
  ASSUME NEW b \in Seq(Cells), NEW s \in Nat, NEW p \in Nat, NEW e \in BOOLEAN,
         Parity(b, s, p, e)
  PROVE  e <=> IsEscaped(b, s, p)
<1>1. PICK n \in 0 .. Len(b) : Backslashes(b, s, p, n) /\ (e <=> n % 2 = 1)
  BY DEF Parity
<1>2. n \in Nat  OBVIOUS
<1>3. ASSUME e PROVE IsEscaped(b, s, p)
  BY <1>1, <1>3 DEF IsEscaped
<1>4. ASSUME IsEscaped(b, s, p) PROVE e
  <2>1. PICK m \in 0 .. Len(b) : Backslashes(b, s, p, m) /\ m % 2 = 1
    BY <1>4 DEF IsEscaped
  <2>2. m \in Nat  OBVIOUS
  <2>3. n = m  BY <1>1, <1>2, <2>1, <2>2, RunUnique
  <2> QED  BY <1>1, <2>1, <2>3
<1> QED  BY <1>3, <1>4

(* The string opens with no backslash before it.                           *)
LEMMA ParityAtStart ==
  ASSUME NEW b \in Seq(Cells), NEW s \in Nat
  PROVE  Parity(b, s, s + 1, FALSE)
<1>1. 0 \in 0 .. Len(b)  OBVIOUS
<1>2. Backslashes(b, s, s + 1, 0)  BY DEF Backslashes
<1>3. ~(0 % 2 = 1)  OBVIOUS
<1> QED  BY <1>1, <1>2, <1>3 DEF Parity

(* One turn of the loop keeps the parity.                                  *)
LEMMA ParityStep ==
  ASSUME NEW b \in Seq(Cells), NEW s \in Nat, NEW p \in Nat, NEW e \in BOOLEAN,
         s < p, p <= Len(b), Parity(b, s, p, e)
  PROVE  Parity(b, s, p + 1, ~e /\ b[p] = "backslash")
<1>1. PICK n \in 0 .. Len(b) : Backslashes(b, s, p, n) /\ (e <=> n % 2 = 1)
  BY DEF Parity
<1>2. n <= p - s - 1  BY <1>1 DEF Backslashes
<1>3. CASE b[p] = "backslash"
  <2>1. Backslashes(b, s, p + 1, n + 1)
    <3>1. n + 1 <= (p + 1) - s - 1  BY <1>2
    <3>2. ASSUME NEW i \in (p + 1) - (n + 1) .. (p + 1) - 1 PROVE b[i] = "backslash"
      <4>1. i = p \/ i \in p - n .. p - 1  OBVIOUS
      <4> QED  BY <1>1, <1>3, <4>1 DEF Backslashes
    <3>3. ASSUME n + 1 < (p + 1) - s - 1 PROVE b[(p + 1) - (n + 1) - 1] # "backslash"
      <4>1. n < p - s - 1  BY <3>3
      <4>2. (p + 1) - (n + 1) - 1 = p - n - 1  OBVIOUS
      <4> QED  BY <1>1, <4>1, <4>2 DEF Backslashes
    <3> QED  BY <3>1, <3>2, <3>3 DEF Backslashes
  <2>2. n + 1 \in 0 .. Len(b)  BY <1>2
  <2>3. (n + 1) % 2 = 1 <=> ~(n % 2 = 1)  OBVIOUS
  <2>4. (~e /\ b[p] = "backslash") <=> (n + 1) % 2 = 1  BY <1>1, <1>3, <2>3, Zenon
  <2> QED  BY <2>1, <2>2, <2>4, Zenon DEF Parity
<1>4. CASE b[p] # "backslash"
  <2>1. Backslashes(b, s, p + 1, 0)
    <3>1. (p + 1) - 0 - 1 = p  OBVIOUS
    <3> QED  BY <1>4, <3>1 DEF Backslashes
  <2>2. 0 \in 0 .. Len(b)  OBVIOUS
  <2>3. ~(0 % 2 = 1)  OBVIOUS
  <2>4. (~e /\ b[p] = "backslash") <=> 0 % 2 = 1  BY <1>4, <2>3, Zenon
  <2> QED  BY <2>1, <2>2, <2>4, Zenon DEF Parity
<1> QED  BY <1>3, <1>4

LEMMA ConcatLen ==
  ASSUME NEW S, NEW s1 \in Seq(S), NEW s2 \in Seq(S)
  PROVE  s1 \o s2 \in Seq(S) /\ Len(s1 \o s2) = Len(s1) + Len(s2)
OBVIOUS

LEMMA ConcatLeft ==
  ASSUME NEW S, NEW s1 \in Seq(S), NEW s2 \in Seq(S), NEW j \in 1 .. Len(s1)
  PROVE  (s1 \o s2)[j] = s1[j]
OBVIOUS

LEMMA ConcatRight ==
  ASSUME NEW S, NEW s1 \in Seq(S), NEW s2 \in Seq(S), NEW j \in 1 .. Len(s2)
  PROVE  (s1 \o s2)[Len(s1) + j] = s2[j]
OBVIOUS

(* b with k cells x inserted at position p.                                *)
Inserted(b, p, k, x) ==
  SubSeq(b, 1, p - 1) \o [i \in 1 .. k |-> x] \o SubSeq(b, p, Len(b))

(* Inserting k cells at position p loses and moves nothing.                *)
AllKept(w, b, p, k, x) ==
  /\ Len(w) = Len(b) + k
  /\ \A i \in 1 .. p - 1 : w[i] = b[i]
  /\ \A i \in p .. p + k - 1 : w[i] = x
  /\ \A i \in p .. Len(b) : w[i + k] = b[i]

LEMMA InsertCells ==
  ASSUME NEW S, NEW b \in Seq(S), NEW p \in 1 .. Len(b), NEW k \in Nat, NEW x \in S,
         NEW w, w = Inserted(b, p, k, x)
  PROVE  w \in Seq(S) /\ AllKept(w, b, p, k, x)
<1> DEFINE l == SubSeq(b, 1, p - 1)
           m == [i \in 1 .. k |-> x]
           r == SubSeq(b, p, Len(b))
<1>1. l \in Seq(S) /\ Len(l) = p - 1 /\ \A i \in 1 .. p - 1 : l[i] = b[i]
  OBVIOUS
<1>2. m \in Seq(S) /\ Len(m) = k /\ \A i \in 1 .. k : m[i] = x
  OBVIOUS
<1>3. r \in Seq(S) /\ Len(r) = Len(b) - p + 1 /\ \A i \in 1 .. Len(b) - p + 1 : r[i] = b[p + i - 1]
  OBVIOUS
<1>4. w = (l \o m) \o r  BY DEF Inserted
<1> HIDE DEF l, m, r
<1>. p \in Nat /\ p - 1 \in Nat /\ Len(b) \in Nat /\ Len(b) - p + 1 \in Nat  OBVIOUS
<1> DEFINE lm == l \o m
<1>5. lm \in Seq(S) /\ Len(lm) = p - 1 + k
  BY <1>1, <1>2, ConcatLen, Zenon
<1>6. ASSUME NEW i \in 1 .. p - 1 PROVE lm[i] = b[i]
  <2>1. l \in Seq(S) /\ m \in Seq(S) /\ i \in 1 .. Len(l)  BY <1>1, <1>2
  <2>2. lm[i] = l[i]  BY <2>1, ConcatLeft
  <2> QED  BY <1>1, <2>2
<1>7. ASSUME NEW i \in p .. p + k - 1 PROVE lm[i] = x
  <2> DEFINE j == i - (p - 1)
  <2>1. j \in 1 .. k /\ j \in 1 .. Len(m) /\ Len(l) + j = i  BY <1>1, <1>2
  <2> HIDE DEF j
  <2>2. (l \o m)[Len(l) + j] = m[j]  BY <1>1, <1>2, <2>1, ConcatRight
  <2> QED  BY <1>2, <2>1, <2>2, Zenon
<1> HIDE DEF lm
<1>8. w = lm \o r  BY <1>4 DEF lm
<1>9. w \in Seq(S) /\ Len(w) = Len(b) + k
  <2>1. lm \in Seq(S) /\ r \in Seq(S)  BY <1>3, <1>5
  <2>2. lm \o r \in Seq(S) /\ Len(lm \o r) = Len(lm) + Len(r)  BY <2>1, ConcatLen, Zenon
  <2>3. w \in Seq(S) /\ Len(w) = Len(lm) + Len(r)  BY <1>8, <2>2, Zenon
  <2>4. (p - 1 + k) + (Len(b) - p + 1) = Len(b) + k  OBVIOUS
  <2> QED  BY <1>3, <1>5, <2>3, <2>4, Zenon
<1>10. ASSUME NEW i \in 1 .. p - 1 + k PROVE w[i] = lm[i]
  <2>1. lm \in Seq(S) /\ r \in Seq(S) /\ i \in 1 .. Len(lm)  BY <1>3, <1>5
  <2> QED  BY <1>8, <2>1, ConcatLeft
<1>11. \A i \in 1 .. p - 1 : w[i] = b[i]  BY <1>6, <1>10
<1>12. \A i \in p .. p + k - 1 : w[i] = x  BY <1>7, <1>10
<1>13. ASSUME NEW i \in p .. Len(b) PROVE w[i + k] = b[i]
  <2> DEFINE j == i - p + 1
  <2>1. j \in 1 .. Len(r) /\ Len(lm) + j = i + k  BY <1>3, <1>5
  <2>2. j \in 1 .. Len(b) - p + 1 /\ p + j - 1 = i  OBVIOUS
  <2> HIDE DEF j
  <2>3. (lm \o r)[Len(lm) + j] = r[j]
    <3>1. lm \in Seq(S) /\ r \in Seq(S) /\ j \in 1 .. Len(r)  BY <1>3, <1>5, <2>1
    <3> QED  BY <3>1, ConcatRight
  <2> QED  BY <1>3, <1>8, <2>1, <2>2, <2>3, Zenon
<1> QED  BY <1>9, <1>11, <1>12, <1>13 DEF AllKept

-------------------------------------------------------------------------------

THEOREM InitIInv == Init => IInv
<1> SUFFICES ASSUME Init PROVE IInv  OBVIOUS
<1>1. body \in Seq(Cells) /\ target \in Nat /\ Len(body) \in Nat
  BY BodiesAssumption, TargetsAssumption DEF Init
<1>2. TypeOK
  <2>1. wire \in Seq(Cells \cup {Space})  BY DEF Init
  <2>2. start \in 0 .. Len(body) /\ pos \in 0 .. Len(body) + 1  BY <1>1 DEF Init
  <2> QED  BY <1>1, <2>1, <2>2 DEF Init, TypeOK
<1>3. Scanning /\ AtQuote /\ Fits /\ Unfinished /\ Padded /\ RefusedForCause
  BY DEF Init, Scanning, AtQuote, Fits, Unfinished, Padded, RefusedForCause
<1> QED  BY <1>2, <1>3 DEF IInv

(* The length check leaves the scan's variables alone.                     *)
LEMMA CheckLengthStep == ASSUME IInv, CheckLength PROVE IInv'
<1>1. TypeOK'  BY DEF IInv, TypeOK, CheckLength, Finish
<1>2. (Scanning /\ AtQuote /\ Padded)'
  BY DEF IInv, Unfinished, Scanning, AtQuote, Padded, CheckLength, Finish
<1>3. (Fits /\ Unfinished)'
  BY DEF IInv, TypeOK, Unfinished, Fits, CheckLength, Finish
<1>4. RefusedForCause'
  BY DEF IInv, TypeOK, Unfinished, RefusedForCause, CheckLength, Finish
<1> QED  BY <1>1, <1>2, <1>3, <1>4 DEF IInv

(* The scan starts in the string that the marker opens.                    *)
LEMMA FindMarkerStep == ASSUME IInv, FindMarker PROVE IInv'
<1> USE DEF IInv
<1>1. CASE \E s \in 1 .. Len(body) :
             /\ body[s] = "marker"
             /\ start' = s /\ pos' = s + 1 /\ escaped' = FALSE
             /\ pc' = "scan" /\ UNCHANGED result
  <2>1. PICK s \in 1 .. Len(body) :
             /\ body[s] = "marker"
             /\ start' = s /\ pos' = s + 1 /\ escaped' = FALSE
             /\ pc' = "scan" /\ UNCHANGED result
    BY <1>1
  <2>2. UNCHANGED <<body, target, wire>> /\ pc = "find" /\ result = "none"
    BY DEF FindMarker, Unfinished
  <2>0. body \in Seq(Cells) /\ Len(body) \in Nat /\ s \in Nat  BY DEF TypeOK
  <2>3. TypeOK'
    <3>1. start' \in 0 .. Len(body') /\ pos' \in 0 .. Len(body') + 1
      BY <2>0, <2>1, <2>2
    <3> QED  BY <2>1, <2>2, <3>1 DEF TypeOK
  <2>4. Parity(body, s, s + 1, FALSE)  BY <2>0, ParityAtStart, Zenon
  <2>5. NoneCloses(body, s, s + 1)  BY DEF NoneCloses
  <2>6. Parity(body', start', pos', escaped') /\ NoneCloses(body', start', pos')
    BY <2>1, <2>2, <2>4, <2>5
  <2>7. InString'  BY <2>1, <2>2, <2>6 DEF InString, TypeOK
  <2>8. Scanning'  BY <2>6, <2>7 DEF Scanning
  <2>9. (AtQuote /\ Fits /\ Unfinished /\ Padded /\ RefusedForCause)'
    BY <2>1, <2>2 DEF AtQuote, Fits, Unfinished, Padded, RefusedForCause
  <2> QED  BY <2>3, <2>8, <2>9
<1>2. CASE /\ \A i \in 1 .. Len(body) : body[i] # "marker"
           /\ Finish("err")
           /\ UNCHANGED <<start, pos, escaped>>
  <2>1. UNCHANGED <<body, target, wire, start, pos, escaped>> /\ pc = "find"
    BY <1>2 DEF FindMarker
  <2>2. TypeOK'  BY <1>2, <2>1 DEF TypeOK, Finish
  <2>3. (Scanning /\ AtQuote /\ Fits /\ Unfinished /\ Padded)'
    BY <1>2, <2>1 DEF Finish, Scanning, AtQuote, Fits, Unfinished, Padded
  <2>4. RefusedForCause'  BY <1>2, <2>1 DEF RefusedForCause
  <2> QED  BY <2>2, <2>3, <2>4
<1> QED  BY <1>1, <1>2 DEF FindMarker

(* A byte that does not close the string is passed, and the parity kept.   *)
LEMMA ScanByteStep == ASSUME IInv, ScanByte PROVE IInv'
<1> USE DEF IInv
<1>1. /\ pc = "scan" /\ pos <= Len(body) /\ result = "none"
      /\ ~(body[pos] = "quote" /\ ~escaped)
      /\ escaped' = (~escaped /\ body[pos] = "backslash")
      /\ pos' = pos + 1
      /\ UNCHANGED <<body, target, pc, start, result, wire>>
  BY DEF ScanByte, Unfinished
<1>2. InString /\ Parity(body, start, pos, escaped)  BY <1>1 DEF Scanning
<1>3. /\ body \in Seq(Cells) /\ start \in Nat /\ pos \in Nat /\ Len(body) \in Nat
      /\ start < pos /\ escaped \in BOOLEAN
  BY <1>2 DEF InString, TypeOK
<1>4. Parity(body, start, pos + 1, ~escaped /\ body[pos] = "backslash")
  BY <1>1, <1>2, <1>3, ParityStep
<1>5. ~Closes(body, start, pos)
  <2>1. escaped <=> IsEscaped(body, start, pos)  BY <1>2, <1>3, ParityIsEscaped
  <2> QED  BY <1>1, <2>1 DEF Closes
<1>6. NoneCloses(body, start, pos + 1)
  <2> SUFFICES ASSUME NEW q \in start + 1 .. (pos + 1) - 1
               PROVE  ~Closes(body, start, q)
    BY DEF NoneCloses
  <2>1. q = pos \/ q \in start + 1 .. pos - 1  BY <1>3
  <2> QED  BY <1>2, <1>5, <2>1 DEF InString, NoneCloses
<1>7. TypeOK'  BY <1>1, <1>3 DEF TypeOK
<1>8. NoneCloses(body', start', pos') /\ Parity(body', start', pos', escaped')
  BY <1>1, <1>4, <1>6
<1>9. InString'  BY <1>1, <1>2, <1>3, <1>8 DEF InString
<1>10. Scanning'  BY <1>8, <1>9 DEF Scanning
<1>11. (AtQuote /\ Fits /\ Unfinished /\ Padded /\ RefusedForCause)'
  BY <1>1 DEF AtQuote, Fits, Unfinished, Padded, RefusedForCause
<1> QED  BY <1>7, <1>10, <1>11

(* The quote that the scan stops at is not escaped, so it closes.          *)
LEMMA ScanFoundStep == ASSUME IInv, ScanFound PROVE IInv'
<1> USE DEF IInv
<1>1. /\ pc = "scan" /\ pos <= Len(body) /\ result = "none"
      /\ body[pos] = "quote" /\ ~escaped /\ pc' = "insert"
      /\ UNCHANGED <<body, target, start, pos, escaped, result, wire>>
  BY DEF ScanFound, Unfinished
<1>2. InString /\ Parity(body, start, pos, escaped)  BY <1>1 DEF Scanning
<1>3. body \in Seq(Cells) /\ start \in Nat /\ pos \in Nat /\ escaped \in BOOLEAN
  BY <1>2 DEF InString, TypeOK
<1>4. Closes(body, start, pos)
  <2>1. escaped <=> IsEscaped(body, start, pos)  BY <1>2, <1>3, ParityIsEscaped
  <2> QED  BY <1>1, <2>1 DEF Closes
<1>5. TypeOK'  BY <1>1 DEF TypeOK
<1>6. Scanning'  BY <1>1, <1>2 DEF Scanning, InString
<1>7. AtQuote'  BY <1>1, <1>4 DEF AtQuote
<1>8. (Fits /\ Unfinished /\ Padded /\ RefusedForCause)'
  BY <1>1 DEF Fits, Unfinished, Padded, RefusedForCause
<1> QED  BY <1>5, <1>6, <1>7, <1>8

(* At the body's end no quote has closed the string.                       *)
LEMMA ScanFailedStep == ASSUME IInv, ScanFailed PROVE IInv'
<1> USE DEF IInv
<1>1. /\ pc = "scan" /\ pos > Len(body) /\ pc' = "done" /\ result' = "err"
      /\ UNCHANGED <<body, target, start, pos, escaped, wire>>
  BY DEF ScanFailed, Finish
<1>2. InString  BY <1>1 DEF Scanning
<1>3. \A p \in start + 1 .. Len(body) : ~Closes(body, start, p)
  <2>1. pos = Len(body) + 1  BY <1>1, <1>2 DEF InString, TypeOK
  <2> QED  BY <1>2, <2>1 DEF InString, NoneCloses, TypeOK
<1>4. TypeOK'  BY <1>1 DEF TypeOK
<1>5. (Scanning /\ AtQuote /\ Fits /\ Unfinished /\ Padded)'
  BY <1>1 DEF Scanning, AtQuote, Fits, Unfinished, Padded
<1>6. RefusedForCause'  BY <1>1, <1>2, <1>3 DEF InString, RefusedForCause
<1> QED  BY <1>4, <1>5, <1>6

LEMMA InsertStep == ASSUME IInv, Insert PROVE IInv'
<1> USE DEF IInv
<1>1. /\ pc = "insert" /\ pc' = "done" /\ result' = "padded"
      /\ wire' = SubSeq(body, 1, pos - 1) \o Pad \o SubSeq(body, pos, Len(body))
      /\ UNCHANGED <<body, target, start, pos, escaped>>
  BY DEF Insert, Finish
<1>2. InString /\ Len(body) < target  BY <1>1 DEF Scanning, Fits
<1>3. pos <= Len(body) /\ Closes(body, start, pos)  BY <1>1 DEF AtQuote
<1>4. wire' \in Seq(Cells \cup {Space})
  <2> DEFINE k == target - Len(body)
             w == wire'
  <2>1. k \in Nat  BY <1>2 DEF TypeOK
  <2>2. pos \in 1 .. Len(body)  BY <1>2, <1>3 DEF InString, TypeOK
  <2>3. w = Inserted(body, pos, k, Space)  BY <1>1 DEF Pad, Inserted
  <2>4. body \in Seq(Cells \cup {Space})  BY DEF TypeOK
  <2>5. Space \in Cells \cup {Space}  OBVIOUS
  <2> HIDE DEF k, w
  <2>6. w \in Seq(Cells \cup {Space})  BY <2>1, <2>2, <2>3, <2>4, <2>5, InsertCells
  <2> QED  BY <2>6 DEF w
<1>5. TypeOK'  BY <1>1, <1>4 DEF TypeOK
<1>6. (Scanning /\ AtQuote /\ Fits /\ Unfinished /\ RefusedForCause)'
  BY <1>1 DEF Scanning, AtQuote, Fits, Unfinished, RefusedForCause
<1>7. Padded'  BY <1>1, <1>2, <1>3 DEF Padded, InString, Pad
<1> QED  BY <1>5, <1>6, <1>7

(* A finished call does not move: every step is one of the six above or a  *)
(* stutter.                                                                *)
THEOREM NextIInv == IInv /\ [Next]_vars => IInv'
<1>1. IInv /\ UNCHANGED vars => IInv'
  BY DEF vars, IInv, TypeOK, Scanning, AtQuote, Fits, Unfinished, Padded, Pad,
         RefusedForCause, InString
<1> QED
  BY <1>1, CheckLengthStep, FindMarkerStep, ScanByteStep, ScanFoundStep,
     ScanFailedStep, InsertStep DEF Next

(* The invariant holds in every state of every behaviour.                  *)
THEOREM Invariance == Spec => []IInv
BY InitIInv, NextIInv, PTL DEF Spec

(* Type correctness: the scan never reads past the body's end.             *)
THEOREM TypeCorrect == Spec => []TypeOK
<1>1. IInv => TypeOK  BY DEF IInv
<1> QED  BY <1>1, Invariance, PTL

(* The padding goes before the quote that closes the user's message, for   *)
(* every body, of any length and with any run of backslashes.              *)
THEOREM ClosingQuote == Spec => []PadAtClosingQuote
<1>1. IInv => PadAtClosingQuote
  BY DEF IInv, PadAtClosingQuote, Scanning, AtQuote, Padded, InString, NoneCloses
<1> QED  BY <1>1, Invariance, PTL

(* The padded body is the body with spaces inserted, nothing else.         *)
THEOREM OnlyAdded == Spec => []OnlySpacesAdded
<1>1. IInv => OnlySpacesAdded
  <2> SUFFICES ASSUME IInv, result = "padded"
               PROVE  LET n == target - Len(body) IN
                        /\ Len(wire) = target
                        /\ \A i \in 1 .. pos - 1 : wire[i] = body[i]
                        /\ \A i \in pos .. pos + n - 1 : wire[i] = Space
                        /\ \A i \in pos .. Len(body) : wire[i + n] = body[i]
    BY DEF OnlySpacesAdded
  <2> DEFINE n == target - Len(body)
  <2>1. n \in Nat /\ Len(body) + n = target  BY DEF IInv, Padded, TypeOK
  <2>2. pos \in 1 .. Len(body)  BY DEF IInv, Padded, InString, TypeOK
  <2>3. wire = Inserted(body, pos, n, Space)  BY DEF IInv, Padded, Pad, Inserted
  <2>4. body \in Seq(Cells \cup {Space})  BY DEF IInv, TypeOK
  <2>5. Space \in Cells \cup {Space}  OBVIOUS
  <2> DEFINE T == Cells \cup {Space}
             w == wire
  <2>7. body \in Seq(T) /\ Space \in T  BY <2>4, <2>5
  <2>8. w = Inserted(body, pos, n, Space)  BY <2>3
  <2> HIDE DEF n, T, w
  <2>6. AllKept(w, body, pos, n, Space)  BY <2>1, <2>2, <2>7, <2>8, InsertCells
  <2> QED  BY <2>1, <2>6, Zenon DEF AllKept, n, w
<1> QED  BY <1>1, Invariance, PTL

(* A body that would fit is refused only for cause.                        *)
THEOREM ForCause == Spec => []RefusedForCause
<1>1. IInv => RefusedForCause  BY DEF IInv
<1> QED  BY <1>1, Invariance, PTL

===============================================================================
