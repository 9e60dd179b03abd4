--------------------------- MODULE CommitmentProofs ---------------------------
(* Commitment: the types, the equality of the native and the circuit's     *)
(* commitment, and that packing loses nothing but zeros at the end, for    *)
(* every field, chunk size, exponent, number of rounds, round keys and     *)
(* input.                                                                  *)
EXTENDS Commitment, WellFoundedInduction, TLAPS

(* What the field's reductions need.                                       *)
LEMMA ModField == \A a \in Int : a % P \in Field
  BY FieldAssumption DEF Field

LEMMA ModSmall == \A a \in Field : a % P = a
  BY FieldAssumption DEF Field

(* A sum in the field can be undone.                                       *)
LEMMA UndoSum ==
  ASSUME NEW a \in Field, NEW f \in Field
  PROVE  (((a + f) % P) - f) % P = a
<1> DEFINE s == (a + f) % P
<1>0. /\ a \in Int /\ f \in Int /\ P \in Int
      /\ a >= 0 /\ f >= 0 /\ a < P /\ f < P
  BY FieldAssumption DEF Field
<1>1. CASE a + f < P
  <2>1. s = a + f
    BY <1>0, <1>1, ModSmall DEF Field
  <2> HIDE DEF s
  <2>2. s - f = a
    BY <1>0, <2>1
  <2>3. (s - f) % P = a
    BY <2>2, ModSmall
  <2>4. QED
    BY <2>3 DEF s
<1>2. CASE a + f >= P
  <2>1. s = a + f - P
    BY <1>0, <1>2
  <2> HIDE DEF s
  <2>2. s - f = a - P
    BY <1>0, <2>1
  <2>3. (a - P) % P = a
    BY <1>0
  <2>4. (s - f) % P = a
    BY <2>2, <2>3
  <2>5. QED
    BY <2>4 DEF s
<1>3. QED
  BY <1>0, <1>1, <1>2

(* A bit of an input is 0 or 1.                                            *)
LEMMA BitType ==
  ASSUME NEW d \in Seq(0 .. 2^ByteBits - 1), NEW i \in Nat, i < NBits(d)
  PROVE  BitOf(d, i) \in {0, 1}
<1> DEFINE byte == d[i \div ByteBits + 1]
           e == ByteBits - 1 - (i % ByteBits)
<1>1. i % ByteBits \in 0 .. ByteBits - 1
  BY SizesAssumption
<1>2. e \in 0 .. ByteBits
  BY <1>1, SizesAssumption
<1>3. 2^e \in Nat \ {0}
  BY <1>2, PowersAssumption, SizesAssumption
<1>4. i \div ByteBits + 1 \in 1 .. Len(d)
  BY SizesAssumption, Z3 DEF NBits
<1>5. byte \in Int
  <2>1. 2^ByteBits \in Int
    BY SizesAssumption, PowersAssumption
  <2>2. QED
    BY <1>4, <2>1
<1>6. byte \div 2^e \in Int
  BY <1>3, <1>5
<1>7. QED
  BY <1>6 DEF BitOf

(* One turn of a Feistel round stays in the field.                         *)
LEMMA MixType == \A i \in 0 .. Rounds - 1, l \in Field : Mix(i, l) \in Field
<1> SUFFICES ASSUME NEW i \in 0 .. Rounds - 1, NEW l \in Field
             PROVE  Mix(i, l) \in Field
  OBVIOUS
<1> DEFINE key == IF i = 0 THEN 0 ELSE RoundKeys[i]
           t == (K + l + key) % P
<1>1. key \in Int /\ K \in Int /\ l \in Int
  BY MimcAssumption, FieldAssumption DEF Field, K
<1>2. t \in Field
  BY <1>1, ModField
<1>3. t^Exponent \in Int
  BY <1>2, PowersAssumption DEF Field
<1>4. QED
  BY <1>3, ModField DEF Mix, Power

LEMMA HalvesType ==
  ASSUME NEW i \in 0 .. Rounds - 1, NEW l \in Field, NEW r \in Field
  PROVE  /\ Halves(i, l, r, Mix(i, l))[1] \in Field
         /\ Halves(i, l, r, Mix(i, l))[2] \in Field
<1>1. Mix(i, l) \in Field
  BY MixType
<1>2. (r + Mix(i, l)) % P \in Field
  BY <1>1, ModField, FieldAssumption DEF Field
<1>3. QED
  BY <1>2 DEF Halves

(* The circuit's copy of a turn computes what the native one does.         *)
LEMMA SameTurn ==
  ASSUME NEW i \in 0 .. Rounds - 1, NEW l \in Field, NEW r \in Field
  PROVE  HalvesVar(i, l, r, MixVar(i, l)) = Halves(i, l, r, Mix(i, l))
<1>1. l \in Int /\ i \in Int /\ (i # 0 => RoundKeys[i] \in Int)
  BY MimcAssumption, FieldAssumption DEF Field
<1>2. CASE i = 0
  <2>1. KVar + l = K + l + 0
    BY <1>1 DEF K, KVar
  <2> QED
    BY <1>2, <2>1 DEF MixVar, Mix, HalvesVar, Halves
<1>3. CASE i # 0
  <2>1. KVar + l + RoundKeys[i] = K + l + RoundKeys[i]
    BY DEF K, KVar
  <2> QED
    BY <1>3, <2>1 DEF MixVar, Mix, HalvesVar, Halves
<1> QED
  BY <1>2, <1>3

-------------------------------------------------------------------------------
(* The invariant: types, and the two programs' values equal.               *)
IInv == TypeOK /\ CircuitMatchesNative

THEOREM InitIInv == Init => IInv
<1> SUFFICES ASSUME Init PROVE IInv
  OBVIOUS
<1>1. 0 \in Field /\ 1 \in Field
  BY FieldAssumption DEF Field
<1>2. 0 \in 0 .. ChunkBits /\ 0 \in 0 .. Rounds
  BY SizesAssumption, MimcAssumption
<1>3. <<>> \in Seq(Field) /\ Len(<<>>) = 0
  OBVIOUS
<1>4. data \in Seq(0 .. 2^ByteBits - 1)
  BY InputsAssumption DEF Init
<1>5. QED
  BY <1>1, <1>2, <1>3, <1>4 DEF Init, IInv, TypeOK, CircuitMatchesNative

THEOREM NextIInv == IInv /\ [Next]_vars => IInv'
<1> SUFFICES ASSUME IInv, [Next]_vars PROVE IInv'
  OBVIOUS
<1> USE DEF IInv
<1>1. CASE PackBit
  <2> DEFINE there == start + bit < NBits(data)
             b == IF there THEN BitOf(data, start + bit) ELSE 0
             sum == (result + b * power) % P
  <2>1. b \in {0, 1}
    <3>1. start + bit \in Nat
      BY SizesAssumption DEF TypeOK
    <3>2. QED
      BY <3>1, BitType DEF TypeOK
  <2>2. b * power \in {0, power} /\ power \in Int /\ result \in Int
    BY <2>1, FieldAssumption DEF TypeOK, Field
  <2>3. sum \in Field
    BY <2>2, ModField
  <2>4. ~there => sum = result
    BY <2>2, ModSmall DEF TypeOK
  <2>5. result' = sum /\ var' = IF there THEN (var + b * power) % P ELSE var
    BY <1>1 DEF PackBit
  <2>6. result' \in Field /\ var' = result'
    BY <2>3, <2>4, <2>5 DEF CircuitMatchesNative
  <2>7. power' \in Field
    <3>1. 2 * power \in Int
      BY <2>2
    <3>2. QED
      BY <1>1, <3>1, ModField DEF PackBit
  <2>8. bit' \in 0 .. ChunkBits
    BY <1>1, SizesAssumption DEF PackBit, TypeOK
  <2>9. QED
    BY <1>1, <2>6, <2>7, <2>8 DEF PackBit, mixing, TypeOK, CircuitMatchesNative
<1>2. CASE PackChunk
  <2>1. blocks' = Append(blocks, result) /\ varBlocks' = blocks'
    BY <1>2 DEF PackChunk, CircuitMatchesNative
  <2>2. blocks' \in Seq(Field) /\ Len(blocks') = Len(blocks) + 1
    BY <2>1 DEF TypeOK
  <2>3. start' \in Nat
    BY <1>2, SizesAssumption DEF PackChunk, TypeOK
  <2>4. 0 \in Field /\ 1 \in Field /\ 0 \in 0 .. ChunkBits
    BY FieldAssumption, SizesAssumption DEF Field
  <2>5. absorbed' \in 0 .. Len(blocks')
    BY <1>2, <2>2 DEF PackChunk, mixing, TypeOK
  <2>6. QED
    BY <1>2, <2>1, <2>2, <2>3, <2>4, <2>5 DEF PackChunk, mixing, TypeOK, CircuitMatchesNative
<1>3. CASE PackEnd
  BY <1>3 DEF PackEnd, packing, mixing, TypeOK, CircuitMatchesNative
<1>4. CASE Absorb
  <2> DEFINE s == blocks[absorbed + 1]
  <2>1. s \in Field
    BY <1>4 DEF Absorb, TypeOK
  <2>2. left + s \in Int
    BY <2>1, FieldAssumption DEF TypeOK, Field
  <2>3. left' = (left + s) % P /\ varLeft' = left'
    BY <1>4 DEF Absorb, CircuitMatchesNative
  <2>4. left' \in Field
    BY <2>2, <2>3, ModField
  <2>5. absorbed' \in 0 .. Len(blocks) /\ round' \in 0 .. Rounds
    BY <1>4, MimcAssumption DEF Absorb, TypeOK
  <2>6. QED
    BY <1>4, <2>3, <2>4, <2>5 DEF Absorb, packing, TypeOK, CircuitMatchesNative
<1>5. CASE Round
  <2> DEFINE h == Halves(round, left, right, Mix(round, left))
  <2>1. round \in 0 .. Rounds - 1
    BY <1>5, MimcAssumption DEF Round, TypeOK
  <2>2. h[1] \in Field /\ h[2] \in Field
    BY <2>1, HalvesType DEF TypeOK
  <2>3. left' = h[1] /\ right' = h[2] /\ varLeft' = h[1] /\ varRight' = h[2]
    <3>1. left \in Field /\ right \in Field /\ varLeft = left /\ varRight = right
      BY DEF TypeOK, CircuitMatchesNative
    <3>2. HalvesVar(round, varLeft, varRight, MixVar(round, varLeft)) = h
      BY <2>1, <3>1, SameTurn
    <3> HIDE DEF h
    <3>3. /\ left' = Halves(round, left, right, Mix(round, left))[1]
          /\ right' = Halves(round, left, right, Mix(round, left))[2]
          /\ varLeft' = h[1] /\ varRight' = h[2]
      BY <1>5, <3>2 DEF Round
    <3> QED
      BY <3>3 DEF h
  <2>4. round' \in 0 .. Rounds
    BY <1>5, <2>1, MimcAssumption DEF Round
  <2> HIDE DEF h
  <2>5. QED
    BY <1>5, <2>2, <2>3, <2>4 DEF Round, packing, TypeOK, CircuitMatchesNative
<1>6. CASE RoundsEnd
  BY <1>6 DEF RoundsEnd, packing, mixing, TypeOK, CircuitMatchesNative
<1>7. CASE Output
  BY <1>7 DEF Output, packing, mixing, TypeOK, CircuitMatchesNative
<1>8. CASE UNCHANGED vars
  BY <1>8 DEF vars, TypeOK, CircuitMatchesNative
<1>9. QED
  BY <1>1, <1>2, <1>3, <1>4, <1>5, <1>6, <1>7, <1>8 DEF Next

THEOREM Invariance == Spec => []IInv
<1>1. QED
  BY InitIInv, NextIInv, PTL DEF Spec

(* All arithmetic stays in the field, for every field and input.           *)
THEOREM TypeCorrect == Spec => []TypeOK
<1>1. IInv => TypeOK
  BY DEF IInv
<1>2. QED
  BY <1>1, Invariance, PTL

(* The circuit forces the commitment to the value prove computes natively, *)
(* for every field, input, chunk size and choice of MiMC's constants.      *)
THEOREM CircuitMatches == Spec => []CircuitMatchesNative
<1>1. IInv => CircuitMatchesNative
  BY DEF IInv
<1>2. QED
  BY <1>1, Invariance, PTL

(* No round of the Feistel network loses anything, for every field, any    *)
(* number of rounds and any round keys.                                    *)
LEMMA RoundUndone ==
  ASSUME IInv, Round
  PROVE  UndoRound(round, left', right') = <<left, right>>
<1> DEFINE f == Mix(round, left)
<1>1. left \in Field /\ right \in Field /\ round \in 0 .. Rounds - 1
  BY MimcAssumption DEF IInv, TypeOK, Round
<1>2. f \in Field
  BY <1>1, MixType
<1>3. (((right + f) % P) - f) % P = right
  BY <1>1, <1>2, UndoSum
<1> HIDE DEF f
<1>4. CASE round < Rounds - 1
  <2>1. left' = (right + f) % P /\ right' = left
    BY <1>4 DEF Round, Halves, f
  <2>2. UndoRound(round, left', right') = <<right', (left' - Mix(round, right')) % P>>
    BY <1>4 DEF UndoRound
  <2>3. Mix(round, right') = f
    BY <2>1 DEF f
  <2>4. (left' - Mix(round, right')) % P = right
    BY <2>1, <2>3, <1>3
  <2>5. QED
    BY <2>1, <2>2, <2>4
<1>5. CASE ~(round < Rounds - 1)
  <2>1. left' = left /\ right' = (right + f) % P
    BY <1>5 DEF Round, Halves, f
  <2>2. UndoRound(round, left', right') = <<left', (right' - Mix(round, left')) % P>>
    BY <1>5 DEF UndoRound
  <2>3. Mix(round, left') = f
    BY <2>1 DEF f
  <2>4. (right' - Mix(round, left')) % P = right
    BY <2>1, <2>3, <1>3
  <2>5. QED
    BY <2>1, <2>2, <2>4
<1>6. QED
  BY <1>4, <1>5

THEOREM Invertible == Spec => RoundsInvertible
<1>1. IInv /\ [Next]_vars =>
        [pc = "round" /\ round' # round => UndoRound(round, left', right') = <<left, right>>]_vars
  <2> SUFFICES ASSUME IInv, [Next]_vars, pc = "round", round' # round
               PROVE  UndoRound(round, left', right') = <<left, right>>
    OBVIOUS
  <2>1. Round
    BY DEF Next, PackBit, PackChunk, PackEnd, Absorb, RoundsEnd, Output, mixing, vars
  <2>2. QED
    BY <2>1, RoundUndone
<1>2. QED
  BY <1>1, Invariance, PTL DEF Spec, RoundsInvertible

-------------------------------------------------------------------------------
(* Packing binds: what a chunk's element is, and that it determines the    *)
(* chunk's bits.                                                           *)

LEMMA LeastNatural ==
  ASSUME NEW T, T \subseteq Nat, T # {}
  PROVE  \E m \in T : \A k \in T : m <= k
<1> DEFINE R == OpToRel(<, Nat)
<1>1. IsWellFoundedOn(R, Nat)
  BY NatLessThanWellFounded
<1>2. \A i, j \in Nat : i < j => <<i, j>> \in R
  BY DEF OpToRel
<1> HIDE DEF R
<1>3. PICK m \in T : \A k \in T : ~(<<k, m>> \in R)
  BY <1>1, WFMin, Zenon
<1>4. \A k \in T : ~(k < m)
  BY <1>2, <1>3, Zenon
<1>5. \A k \in T : m <= k
  BY <1>4
<1> QED
  BY <1>5

(* The bits of d, with zeros behind them, and the value of those from m    *)
(* up to n, the lowest first.                                              *)
Bit(d, i) == IF i < NBits(d) THEN BitOf(d, i) ELSE 0

Recurs(h, b, m, n) ==
  /\ h[n] = 0
  /\ \A i \in m .. n - 1 : h[i] = b[i] + 2 * h[i + 1]

Horner(h, b, m, n) == h \in [m .. n -> Nat] /\ Recurs(h, b, m, n)

Bits(b, m, n) == \A i \in m .. n - 1 : b[i] \in {0, 1}

LEMMA HornerLonger ==
  ASSUME NEW m \in Nat, NEW n \in Nat, NEW b, NEW h,
         m < n, b[m] \in {0, 1}, Horner(h, b, m + 1, n)
  PROVE  \E g : Horner(g, b, m, n)
<1> PICK k \in Nat : k = m + 1
  OBVIOUS
<1> PICK x \in Nat : x = b[m]
  OBVIOUS
<1>1. Horner(h, b, k, n) /\ h[k] \in Nat
  <2>1. k \in k .. n
    OBVIOUS
  <2>2. QED
    BY <2>1 DEF Horner, Recurs
<1> DEFINE g == [i \in m .. n |-> IF i = m THEN x + 2 * h[k] ELSE h[i]]
<1>2. \A i \in m .. n : g[i] = IF i = m THEN x + 2 * h[k] ELSE h[i]
  OBVIOUS
<1>3. x + 2 * h[k] \in Nat
  BY <1>1
<1>4. \A i \in m .. n : i # m => i \in k .. n
  OBVIOUS
<1>5. g \in [m .. n -> Nat]
  BY <1>1, <1>3, <1>4 DEF Horner, Recurs
<1> HIDE DEF g
<1>6. g[n] = 0
  BY <1>1, <1>2 DEF Horner, Recurs
<1>7. ASSUME NEW i \in m .. n - 1 PROVE g[i] = b[i] + 2 * g[i + 1]
  <2>1. i \in m .. n /\ i + 1 \in m .. n /\ i + 1 # m
    OBVIOUS
  <2>2. g[i + 1] = h[i + 1]
    BY <1>2, <2>1
  <2>3. CASE i = m
    <3>1. i + 1 = k
      BY <2>3
    <3>2. QED
      BY <1>2, <2>1, <2>2, <2>3, <3>1
  <2>4. CASE i # m
    <3>1. i \in k .. n - 1
      BY <2>4
    <3>2. g[i] = h[i] /\ h[i] = b[i] + 2 * h[i + 1]
      BY <1>1, <1>2, <2>1, <2>4, <3>1 DEF Horner, Recurs
    <3>3. QED
      BY <2>2, <3>2
  <2>5. QED
    BY <2>3, <2>4
<1>8. QED
  BY <1>5, <1>6, <1>7 DEF Horner, Recurs

LEMMA NoBits ==
  ASSUME NEW n \in Nat, NEW b
  PROVE  \E z : Horner(z, b, n, n)
<1> DEFINE z == [i \in n .. n |-> 0]
<1>1. z \in [n .. n -> Nat] /\ z[n] = 0 /\ \A i \in n .. n - 1 : FALSE
  OBVIOUS
<1> HIDE DEF z
<1>2. Horner(z, b, n, n)
  BY <1>1 DEF Horner, Recurs
<1>3. QED
  BY <1>2

LEMMA HornerExists ==
  ASSUME NEW m \in Nat, NEW n \in Nat, NEW b, m <= n, Bits(b, m, n)
  PROVE  \E h : Horner(h, b, m, n)
<1> SUFFICES ASSUME ~\E h : Horner(h, b, m, n) PROVE FALSE
  OBVIOUS
<1> DEFINE T == {k \in 0 .. n - m : ~\E h : Horner(h, b, n - k, n)}
<1>1. T \subseteq Nat /\ T # {}
  <2>1. n - m \in 0 .. n - m /\ n - (n - m) = m
    OBVIOUS
  <2>2. n - m \in T
    BY <2>1
  <2>3. T \subseteq Nat
    OBVIOUS
  <2> HIDE DEF T
  <2>4. QED
    BY <2>2, <2>3
<1>2. PICK k \in T : \A j \in T : k <= j
  <2> HIDE DEF T
  <2>1. QED
    BY <1>1, LeastNatural
<1>3. k \in 0 .. n - m /\ ~\E h : Horner(h, b, n - k, n)
  OBVIOUS
<1>4. k # 0
  <2>1. k = 0 => n - k = n
    OBVIOUS
  <2>2. QED
    BY <1>3, <2>1, NoBits
<1>5. /\ k - 1 \in 0 .. n - m /\ k - 1 < k
      /\ n - k \in Nat /\ n - k < n /\ n - (k - 1) = (n - k) + 1 /\ n - k \in m .. n - 1
  BY <1>3, <1>4
<1>6. k - 1 \notin T
  <2> HIDE DEF T
  <2>1. QED
    BY <1>1, <1>2, <1>5
<1>7. PICK h : Horner(h, b, (n - k) + 1, n)
  BY <1>5, <1>6
<1>8. b[n - k] \in {0, 1}
  BY <1>5 DEF Bits
<1>9. \E g : Horner(g, b, n - k, n)
  BY <1>5, <1>7, <1>8, HornerLonger
<1>10. QED
  BY <1>3, <1>9

(* The value is the only one, and two values are the same only if the bits *)
(* are.                                                                    *)
LEMMA HornerUnique ==
  ASSUME NEW m \in Nat, NEW n \in Nat, NEW b, NEW h, NEW g,
         m <= n, Recurs(h, b, m, n), Recurs(g, b, m, n)
  PROVE  \A i \in m .. n : h[i] = g[i]
<1> SUFFICES ASSUME NEW i \in m .. n, h[i] # g[i] PROVE FALSE
  OBVIOUS
<1> DEFINE T == {k \in 0 .. n - m : h[n - k] # g[n - k]}
<1>1. T \subseteq Nat /\ T # {}
  <2>1. n - i \in 0 .. n - m /\ n - (n - i) = i
    OBVIOUS
  <2>2. n - i \in T
    BY <2>1
  <2>3. T \subseteq Nat
    OBVIOUS
  <2> HIDE DEF T
  <2>4. QED
    BY <2>2, <2>3
<1>2. PICK k \in T : \A j \in T : k <= j
  <2> HIDE DEF T
  <2>1. QED
    BY <1>1, LeastNatural
<1>3. k \in 0 .. n - m /\ h[n - k] # g[n - k]
  OBVIOUS
<1>4. k # 0
  <2>1. h[n] = g[n] /\ (k = 0 => n - k = n)
    BY DEF Horner, Recurs
  <2>2. QED
    BY <1>3, <2>1
<1>5. /\ k - 1 \in 0 .. n - m /\ k - 1 < k
      /\ n - (k - 1) = (n - k) + 1 /\ n - k \in m .. n - 1
  BY <1>3, <1>4
<1>6. k - 1 \notin T
  <2> HIDE DEF T
  <2>1. QED
    BY <1>1, <1>2, <1>5
<1>7. h[(n - k) + 1] = g[(n - k) + 1]
  BY <1>5, <1>6
<1>8. h[n - k] = b[n - k] + 2 * h[(n - k) + 1] /\ g[n - k] = b[n - k] + 2 * g[(n - k) + 1]
  BY <1>5 DEF Recurs
<1>9. QED
  BY <1>3, <1>7, <1>8

LEMMA Parity ==
  ASSUME NEW x \in {0, 1}, NEW y \in {0, 1}, NEW u \in Nat, NEW v \in Nat, x + 2 * u = y + 2 * v
  PROVE  x = y /\ u = v
OBVIOUS

LEMMA HornerBinds ==
  ASSUME NEW m \in Nat, NEW n \in Nat, NEW b, NEW c, NEW h, NEW g,
         m <= n, Bits(b, m, n), Bits(c, m, n),
         Horner(h, b, m, n), Horner(g, c, m, n), h[m] = g[m]
  PROVE  \A i \in m .. n - 1 : b[i] = c[i]
<1>1. ASSUME NEW i \in m .. n - 1, h[i] = g[i]
      PROVE  b[i] = c[i] /\ h[i + 1] = g[i + 1]
  <2>1. i + 1 \in m .. n
    OBVIOUS
  <2>2. h[i + 1] \in Nat /\ g[i + 1] \in Nat
    BY <2>1 DEF Horner, Recurs
  <2>3. b[i] \in {0, 1} /\ c[i] \in {0, 1}
    BY DEF Bits
  <2>4. h[i] = b[i] + 2 * h[i + 1] /\ g[i] = c[i] + 2 * g[i + 1]
    BY DEF Horner, Recurs
  <2>5. b[i] + 2 * h[i + 1] = c[i] + 2 * g[i + 1]
    BY <1>1, <2>4
  <2>6. QED
    BY <2>2, <2>3, <2>5, Parity
<1>2. \A i \in m .. n : h[i] = g[i]
  <2> SUFFICES ASSUME NEW i \in m .. n, h[i] # g[i] PROVE FALSE
    OBVIOUS
  <2> DEFINE T == {k \in m .. n : h[k] # g[k]}
  <2>1. T \subseteq Nat /\ T # {}
    OBVIOUS
  <2>2. PICK k \in T : \A j \in T : k <= j
    <3> HIDE DEF T
    <3>1. QED
      BY <2>1, LeastNatural
  <2>3. k \in m .. n /\ h[k] # g[k]
    OBVIOUS
  <2>4. k # m
    BY <2>3
  <2>5. k - 1 \in m .. n - 1 /\ k - 1 \in m .. n /\ k - 1 < k /\ (k - 1) + 1 = k
    BY <2>3, <2>4
  <2>6. k - 1 \notin T
    <3> HIDE DEF T
    <3>1. QED
      BY <2>1, <2>2, <2>5
  <2>7. h[k - 1] = g[k - 1]
    BY <2>5, <2>6
  <2>8. h[(k - 1) + 1] = g[(k - 1) + 1]
    BY <1>1, <2>5, <2>7
  <2>9. QED
    BY <2>3, <2>5, <2>8
<1>3. \A i \in m .. n - 1 : i \in m .. n
  OBVIOUS
<1>4. QED
  BY <1>1, <1>2, <1>3

(* A chunk's element is less than the field's modulus.                     *)
LEMMA HornerBound ==
  ASSUME NEW m \in Nat, NEW n \in Nat, NEW b, NEW h,
         n = m + ChunkBits, Bits(b, m, n), Horner(h, b, m, n)
  PROVE  h[m] < 2^ChunkBits
<1>0. ChunkBits \in Nat
  BY SizesAssumption
<1> DEFINE T == {k \in 0 .. ChunkBits : ~(h[n - k] < 2^k)}
<1>1. SUFFICES ASSUME T # {} PROVE FALSE
  <2>1. ChunkBits \in 0 .. ChunkBits /\ n - ChunkBits = m
    BY <1>0
  <2>2. QED
    BY <2>1
<1>2. T \subseteq Nat
  BY <1>0
<1>3. PICK k \in T : \A j \in T : k <= j
  <2> HIDE DEF T
  <2>1. QED
    BY <1>1, <1>2, LeastNatural
<1>4. k \in 0 .. ChunkBits /\ ~(h[n - k] < 2^k)
  OBVIOUS
<1>5. k # 0
  <2>1. k = 0 => n - k = n /\ h[n] = 0 /\ 2^k = 1
    BY PowersAssumption DEF Horner, Recurs
  <2>2. QED
    BY <1>4, <2>1
<1> PICK q \in Nat : q = k - 1
  BY <1>4, <1>5
<1>6. /\ q \in 0 .. ChunkBits - 1 /\ q \in 0 .. ChunkBits /\ q < k /\ k = q + 1
      /\ n - q = (n - k) + 1 /\ n - k \in m .. n - 1 /\ (n - k) + 1 \in m .. n
  BY <1>0, <1>4, <1>5
<1>7. q \notin T
  <2> HIDE DEF T
  <2>1. QED
    BY <1>2, <1>3, <1>6
<1>8. h[(n - k) + 1] < 2^q
  BY <1>6, <1>7
<1>9. h[n - k] = b[n - k] + 2 * h[(n - k) + 1] /\ b[n - k] \in {0, 1}
  BY <1>6 DEF Horner, Recurs, Bits
<1>10. 2^k = 2 * 2^q /\ 2^q \in Nat
  <2>1. q \in 0 .. ByteBits + ChunkBits
    BY <1>0, <1>6, SizesAssumption
  <2>2. 2^(q + 1) = 2 * 2^q /\ 2^q \in Nat
    BY <1>6, <2>1, PowersAssumption
  <2>3. QED
    BY <1>6, <2>2
<1>11. h[(n - k) + 1] \in Nat
  BY <1>6 DEF Horner
<1> PICK x \in Nat : x = h[(n - k) + 1]
  BY <1>11
<1> PICK p \in Nat : p = 2^q
  BY <1>10
<1>12. x < p /\ 2^k = 2 * p
  BY <1>8, <1>10
<1>13. h[n - k] = 2 * x \/ h[n - k] = 2 * x + 1
  BY <1>9
<1> HIDE DEF T
<1>14. h[n - k] < 2 * p
  BY <1>12, <1>13
<1>15. QED
  BY <1>4, <1>12, <1>14

(* The chunks of an input.                                                 *)
BitsOf(d) == [i \in Nat |-> Bit(d, i)]
Bytes == 0 .. 2^ByteBits - 1

LEMMA BitsType ==
  ASSUME NEW d \in Seq(Bytes), NEW m \in Nat, NEW n \in Nat
  PROVE  Bits(BitsOf(d), m, n)
<1>1. \A i \in Nat : Bit(d, i) \in {0, 1}
  BY BitType DEF Bit, Bytes
<1>2. \A i \in m .. n - 1 : i \in Nat
  OBVIOUS
<1>3. QED
  BY <1>1, <1>2 DEF Bits, BitsOf

LEMMA Zeros ==
  ASSUME NEW m \in Nat, NEW n \in Nat, NEW b, NEW h,
         m <= n, \A i \in m .. n - 1 : b[i] = 0, Recurs(h, b, m, n)
  PROVE  h[m] = 0
<1> DEFINE z == [i \in m .. n |-> 0]
<1>1. z[n] = 0 /\ z[m] = 0 /\ \A i \in m .. n - 1 : z[i] = 0 /\ z[i + 1] = 0
  <2>1. m \in m .. n /\ n \in m .. n /\ \A i \in m .. n - 1 : i \in m .. n /\ i + 1 \in m .. n
    OBVIOUS
  <2>2. \A i \in m .. n : z[i] = 0
    OBVIOUS
  <2> HIDE DEF z
  <2>3. QED
    BY <2>1, <2>2
<1> HIDE DEF z
<1>2. Recurs(z, b, m, n)
  BY <1>1 DEF Recurs
<1>3. m \in m .. n
  OBVIOUS
<1>4. h[m] = z[m]
  <2>1. \A i \in m .. n : h[i] = z[i]
    BY <1>2, HornerUnique
  <2>2. QED
    BY <1>3, <2>1
<1>5. QED
  BY <1>1, <1>4

LEMMA ChunkIs ==
  ASSUME NEW d \in Seq(Bytes), NEW j \in Nat \ {0}, NEW from \in Nat, NEW h,
         from = (j - 1) * ChunkBits, j * ChunkBits = from + ChunkBits,
         from < NBits(d), NBits(d) \in Nat,
         Horner(h, BitsOf(d), from, from + ChunkBits)
  PROVE  ChunkValue(d, j) = h[from]
<1>0. ChunkBits \in Nat \ {0}
  BY SizesAssumption
<1> PICK to \in Nat : to = IF j * ChunkBits < NBits(d) THEN j * ChunkBits ELSE NBits(d)
  BY <1>0
<1>1. from < to /\ to <= from + ChunkBits /\ to <= NBits(d)
      /\ (to < from + ChunkBits => to = NBits(d))
  BY <1>0
<1>2. h[to] = 0
  <2>1. CASE to = from + ChunkBits
    BY <2>1 DEF Horner, Recurs
  <2>2. CASE to < from + ChunkBits
    <3>1. \A i \in to .. (from + ChunkBits) - 1 : i \in Nat /\ ~(i < NBits(d))
      BY <1>0, <1>1, <2>2
    <3>2. \A i \in to .. (from + ChunkBits) - 1 : BitsOf(d)[i] = 0
      BY <3>1 DEF BitsOf, Bit
    <3>3. \A i \in to .. (from + ChunkBits) - 1 : i \in from .. (from + ChunkBits) - 1
      BY <1>0, <1>1
    <3>4. Recurs(h, BitsOf(d), to, from + ChunkBits)
      BY <3>3 DEF Horner, Recurs
    <3>5. from + ChunkBits \in Nat /\ to <= from + ChunkBits
      BY <1>0, <2>2
    <3>6. QED
      BY <3>2, <3>4, <3>5, Zeros
  <2>3. QED
    BY <1>0, <1>1, <2>1, <2>2
<1> DEFINE IsV(f) == f = [i \in from .. to |-> IF i = to THEN 0 ELSE BitOf(d, i) + 2 * f[i + 1]]
           v == CHOOSE f : IsV(f)
<1>3. ChunkValue(d, j) = v[from]
  BY DEF ChunkValue, v
<1>4. \A i \in from .. to - 1 :
        /\ i \in Nat /\ i < NBits(d) /\ i # to /\ i \in from .. to /\ i + 1 \in from .. to
        /\ i \in from .. (from + ChunkBits) - 1
  BY <1>0, <1>1
<1>5. \A i \in from .. to - 1 : BitsOf(d)[i] = BitOf(d, i)
  BY <1>4 DEF BitsOf, Bit
<1>6. \E f : IsV(f)
  <2> DEFINE w == [i \in from .. to |-> h[i]]
  <2>1. \A i \in from .. to : w[i] = h[i]
    OBVIOUS
  <2>2. ASSUME NEW i \in from .. to
        PROVE  w[i] = IF i = to THEN 0 ELSE BitOf(d, i) + 2 * w[i + 1]
    <3> HIDE DEF w
    <3>1. CASE i = to
      BY <1>2, <2>1, <3>1
    <3>2. CASE i # to
      <4>1. i \in from .. to - 1
        BY <3>2
      <4>2. h[i] = BitsOf(d)[i] + 2 * h[i + 1]
        BY <1>4, <4>1 DEF Horner, Recurs
      <4>3. w[i + 1] = h[i + 1] /\ w[i] = h[i] /\ BitsOf(d)[i] = BitOf(d, i)
        BY <1>4, <1>5, <2>1, <4>1
      <4>4. QED
        BY <3>2, <4>2, <4>3
    <3>3. QED
      BY <3>1, <3>2
  <2>3. IsV(w)
    BY <2>2
  <2>4. QED
    BY <2>3
<1>7. IsV(v)
  BY <1>6
<1> HIDE DEF v
<1>8. Recurs(v, BitsOf(d), from, to)
  <2>1. v[to] = 0
    BY <1>1, <1>7
  <2>2. \A i \in from .. to - 1 : v[i] = BitOf(d, i) + 2 * v[i + 1]
    BY <1>4, <1>7
  <2>3. QED
    BY <1>5, <2>1, <2>2 DEF Recurs
<1>9. Recurs(h, BitsOf(d), from, to)
  BY <1>2, <1>4 DEF Horner, Recurs
<1>10. from \in from .. to /\ from <= to
  BY <1>1
<1>11. v[from] = h[from]
  <2>1. \A i \in from .. to : v[i] = h[i]
    BY <1>8, <1>9, <1>10, HornerUnique
  <2>2. QED
    BY <1>10, <2>1
<1>12. QED
  BY <1>3, <1>11

(* Where the chunks begin and how many there are.                          *)
LEMMA Times ==
  /\ \A j \in Nat : j * ChunkBits \in Nat /\ (j + 1) * ChunkBits = j * ChunkBits + ChunkBits
  /\ 0 * ChunkBits = 0
BY SizesAssumption

LEMMA TimesMonotone ==
  ASSUME NEW j \in Nat, NEW k \in Nat, j <= k PROVE j * ChunkBits <= k * ChunkBits
<1> PICK C \in Nat : C = ChunkBits
  BY SizesAssumption
<1> PICK e \in Nat : k = j + e
  <2>1. k - j \in Nat /\ k = j + (k - j)
    OBVIOUS
  <2>2. QED
    BY <2>1
<1>1. k * C = j * C + e * C /\ e * C \in Nat /\ j * C \in Nat
  OBVIOUS
<1> PICK x \in Nat : x = j * C
  BY <1>1
<1> PICK y \in Nat : y = e * C
  BY <1>1
<1>2. k * C = x + y
  BY <1>1
<1>3. x <= x + y
  OBVIOUS
<1>4. QED
  BY <1>2, <1>3

LEMMA Quotient ==
  ASSUME NEW n \in Nat, NEW c \in Nat \ {0}
  PROVE  /\ (n + c - 1) \div c \in Nat
         /\ n <= ((n + c - 1) \div c) * c
         /\ ((n + c - 1) \div c) * c < n + c
<1> PICK a \in Nat : a = n + c - 1
  OBVIOUS
<1>1. a \div c \in Nat /\ (a \div c) * c <= a /\ a < (a \div c) * c + c
  BY Z3
<1> PICK q \in Nat : q = a \div c
  BY <1>1
<1>2. q * c \in Nat
  OBVIOUS
<1> PICK p \in Nat : p = q * c
  BY <1>2
<1>3. p <= a /\ a < p + c
  BY <1>1
<1>4. n <= p /\ p < n + c
  BY <1>3
<1>5. QED
  BY <1>4

LEMMA ChunkCount ==
  ASSUME NEW d \in Seq(Bytes)
  PROVE  /\ NBits(d) \in Nat /\ Chunks(d) \in Nat
         /\ NBits(d) <= Chunks(d) * ChunkBits
         /\ \A j \in Nat : j + 1 <= Chunks(d) => j * ChunkBits < NBits(d)
         /\ \A c \in Nat : /\ NBits(d) <= c * ChunkBits
                           /\ \A j \in Nat : j + 1 = c => j * ChunkBits < NBits(d)
                           => c = Chunks(d)
<1>1. NBits(d) \in Nat /\ ChunkBits \in Nat \ {0}
  BY SizesAssumption DEF NBits
<1> PICK n \in Nat : n = NBits(d)
  BY <1>1
<1>2. /\ Chunks(d) \in Nat /\ n <= Chunks(d) * ChunkBits /\ Chunks(d) * ChunkBits < n + ChunkBits
  <2>1. Chunks(d) = (n + ChunkBits - 1) \div ChunkBits
    BY DEF Chunks
  <2>2. QED
    BY <1>1, <2>1, Quotient
<1> PICK q \in Nat : q = Chunks(d)
  BY <1>2
<1>3. n <= q * ChunkBits /\ q * ChunkBits < n + ChunkBits
  BY <1>2
<1>4. ASSUME NEW j \in Nat, j + 1 <= q PROVE j * ChunkBits < n
  <2>1. (j + 1) * ChunkBits <= q * ChunkBits
    BY <1>4, TimesMonotone
  <2>2. (j + 1) * ChunkBits = j * ChunkBits + ChunkBits /\ j * ChunkBits \in Nat
    BY Times
  <2> PICK x \in Nat : x = j * ChunkBits
    BY <2>2
  <2> PICK y \in Nat : y = q * ChunkBits
    BY Times
  <2>3. x + ChunkBits <= y /\ y < n + ChunkBits
    BY <1>3, <2>1, <2>2
  <2>4. x < n
    BY <1>1, <2>3
  <2>5. QED
    BY <2>4
<1>5. ASSUME NEW c \in Nat, n <= c * ChunkBits,
             \A j \in Nat : j + 1 = c => j * ChunkBits < n
      PROVE  c = q
  <2>1. CASE c < q
    <3>1. c * ChunkBits < n
      BY <1>4, <2>1
    <3>2. c * ChunkBits \in Nat
      BY Times
    <3>3. QED
      BY <1>5, <3>1, <3>2
  <2>2. CASE q < c
    <3> PICK j \in Nat : j = c - 1
      BY <2>2
    <3>1. j + 1 = c /\ q <= j
      BY <2>2
    <3>2. j * ChunkBits < n
      BY <1>5, <3>1
    <3>3. q * ChunkBits <= j * ChunkBits
      BY <3>1, TimesMonotone
    <3>4. q * ChunkBits \in Nat /\ j * ChunkBits \in Nat
      BY Times
    <3>5. QED
      BY <1>3, <3>2, <3>3, <3>4
  <2>3. QED
    BY <2>1, <2>2
<1>6. QED
  BY <1>3, <1>4, <1>5

(* Every bit of c chunks is in one of them.                                *)
LEMMA InChunk ==
  ASSUME NEW c \in Nat, NEW i \in Nat, i < c * ChunkBits
  PROVE  \E j \in Nat : j + 1 <= c /\ j * ChunkBits <= i /\ i < j * ChunkBits + ChunkBits
<1> DEFINE T == {k \in 0 .. c : i < k * ChunkBits}
<1>1. T \subseteq Nat /\ c \in T
  OBVIOUS
<1>2. PICK k \in T : \A j \in T : k <= j
  <2> HIDE DEF T
  <2>1. QED
    BY <1>1, LeastNatural
<1>3. k \in 0 .. c /\ i < k * ChunkBits
  OBVIOUS
<1>4. k # 0
  BY <1>3, Times
<1> PICK j \in Nat : j = k - 1
  BY <1>3, <1>4
<1>5. j + 1 = k /\ j < k /\ j \in 0 .. c /\ j + 1 <= c
  BY <1>3, <1>4
<1>6. j \notin T
  <2> HIDE DEF T
  <2>1. QED
    BY <1>1, <1>2, <1>5
<1>7. ~(i < j * ChunkBits)
  BY <1>5, <1>6
<1>8. (j + 1) * ChunkBits = j * ChunkBits + ChunkBits /\ j * ChunkBits \in Nat
  BY Times
<1> HIDE DEF T
<1>9. i < j * ChunkBits + ChunkBits
  BY <1>3, <1>5, <1>8
<1>10. j * ChunkBits <= i
  BY <1>7, <1>8
<1>11. QED
  BY <1>5, <1>9, <1>10

(* Up to a chunk's last bit, the power is less than the modulus.           *)
LEMMA PowersBelow == \A q \in 0 .. ChunkBits - 1 : 2^q < P
<1> DEFINE T == {k \in 0 .. ChunkBits - 1 : ~(2^(ChunkBits - 1 - k) < P)}
<1> SUFFICES ASSUME NEW q \in 0 .. ChunkBits - 1, ~(2^q < P) PROVE FALSE
  OBVIOUS
<1>0. ChunkBits \in Nat \ {0} /\ P \in Nat
  BY SizesAssumption, FieldAssumption
<1>1. \A n \in 0 .. ChunkBits : 2^n \in Nat \ {0}
  BY PowersAssumption, SizesAssumption
<1>2. \A n \in 0 .. ChunkBits - 1 : 2^n < 2^(n + 1)
  <2> SUFFICES ASSUME NEW n \in 0 .. ChunkBits - 1 PROVE 2^n < 2^(n + 1)
    OBVIOUS
  <2>1. 2^(n + 1) = 2 * 2^n
    BY PowersAssumption
  <2>2. 2^n \in Nat \ {0}
    BY <1>0, <1>1
  <2>3. QED
    BY <2>1, <2>2
<1>3. 2^ChunkBits <= P /\ 2^ChunkBits \in Nat
  BY <1>0, <1>1, SizesAssumption
<1>4. T \subseteq Nat /\ T # {}
  <2>1. ChunkBits - 1 - q \in 0 .. ChunkBits - 1 /\ ChunkBits - 1 - (ChunkBits - 1 - q) = q
    BY <1>0
  <2>2. ChunkBits - 1 - q \in T
    BY <2>1
  <2>3. T \subseteq Nat
    OBVIOUS
  <2> HIDE DEF T
  <2>4. QED
    BY <2>2, <2>3
<1>5. PICK k \in T : \A j \in T : k <= j
  <2> HIDE DEF T
  <2>1. QED
    BY <1>4, LeastNatural
<1> PICK n : n = ChunkBits - 1 - k
  OBVIOUS
<1>6. k \in 0 .. ChunkBits - 1 /\ n \in 0 .. ChunkBits - 1 /\ ~(2^n < P) /\ 2^n \in Nat
  BY <1>0, <1>1
<1>7. 2^n < 2^(n + 1) /\ n + 1 \in 0 .. ChunkBits /\ 2^(n + 1) \in Nat
  BY <1>0, <1>1, <1>2, <1>6
<1>8. k # 0
  <2>1. k = 0 => n + 1 = ChunkBits
    BY <1>0, <1>6
  <2>2. QED
    BY <1>0, <1>3, <1>6, <1>7, <2>1
<1>9. k - 1 \in 0 .. ChunkBits - 1 /\ k - 1 < k /\ ChunkBits - 1 - (k - 1) = n + 1
  BY <1>0, <1>6, <1>8
<1>10. k - 1 \notin T
  <2> HIDE DEF T
  <2>1. QED
    BY <1>4, <1>5, <1>9
<1>11. 2^(n + 1) < P
  BY <1>9, <1>10
<1> HIDE DEF T
<1>12. QED
  BY <1>0, <1>6, <1>7, <1>11

(* The packing loop: the elements are the values of the chunks before      *)
(* start, and the bits left of this chunk make up what result lacks.       *)
Element(d, from, e) ==
  \E h : Horner(h, BitsOf(d), from, from + ChunkBits) /\ e = h[from]

Lacking(from, at, r, p) ==
  \E h : Horner(h, BitsOf(data), from, from + ChunkBits) /\ r + p * h[from + at] = h[from]

Packed ==
  /\ \A j \in Nat : j + 1 <= Len(blocks) => Element(data, j * ChunkBits, blocks[j + 1])
  /\ \A j \in Nat : j + 1 = Len(blocks) => j * ChunkBits < NBits(data)

PackInv ==
  /\ Packed
  /\ pc = "pack" =>
       /\ start = Len(blocks) * ChunkBits
       /\ Lacking(start, bit, result, 2^bit)
       /\ bit < ChunkBits => power = 2^bit
  /\ pc # "pack" => NBits(data) <= Len(blocks) * ChunkBits

(* A chunk begun lacks all of its bits.                                    *)
LEMMA AllLacking ==
  ASSUME NEW from \in Nat, data \in Seq(Bytes) PROVE Lacking(from, 0, 0, 2^0)
<1>1. ChunkBits \in Nat /\ from + ChunkBits \in Nat /\ from <= from + ChunkBits
      /\ from \in from .. from + ChunkBits
  BY SizesAssumption
<1>2. Bits(BitsOf(data), from, from + ChunkBits)
  BY <1>1, BitsType
<1>3. PICK h : Horner(h, BitsOf(data), from, from + ChunkBits)
  BY <1>1, <1>2, HornerExists
<1>4. h[from] \in Nat
  BY <1>1, <1>3 DEF Horner
<1>5. 2^0 = 1 /\ from + 0 = from
  BY PowersAssumption
<1>6. 0 + 2^0 * h[from + 0] = h[from]
  BY <1>4, <1>5
<1>7. QED
  BY <1>3, <1>6 DEF Lacking

Balanced(r, p, b, x, total) ==
  /\ r \in Nat /\ p \in Nat /\ b \in {0, 1} /\ x \in Nat /\ total \in Nat
  /\ r + p * (b + 2 * x) = total /\ total < P

Added(r, p, b, x, total) ==
  /\ (r + b * p) % P = r + b * p
  /\ (r + b * p) + (2 * p) * x = total

LEMMA AddBit ==
  ASSUME NEW r, NEW p, NEW b, NEW x, NEW total, Balanced(r, p, b, x, total)
  PROVE  Added(r, p, b, x, total)
<1>0. /\ r \in Nat /\ p \in Nat /\ b \in {0, 1} /\ x \in Nat /\ total \in Nat
      /\ r + p * (b + 2 * x) = total /\ total < P
  BY DEF Balanced
<1>1. P \in Nat
  BY FieldAssumption
<1>2. p * (2 * x) = (2 * p) * x /\ (2 * p) * x \in Nat
  BY <1>0
<1> PICK y \in Nat : y = (2 * p) * x
  BY <1>2
<1>3. b * p \in Nat /\ (r + b * p) + y = total
  <2>1. CASE b = 0
    <3>1. b * p = 0 /\ p * (b + 2 * x) = y
      BY <1>0, <1>2, <2>1
    <3>2. QED
      BY <1>0, <3>1
  <2>2. CASE b = 1
    <3>1. p * (1 + 2 * x) = p + p * (2 * x)
      BY <1>0
    <3>2. b * p = p /\ p * (b + 2 * x) = p + y
      BY <1>0, <1>2, <2>2, <3>1
    <3>3. r + (p + y) = total /\ r + p + y = total
      BY <1>0, <3>2
    <3>4. QED
      BY <1>0, <3>2, <3>3
  <2>3. QED
    BY <1>0, <2>1, <2>2
<1> PICK z \in Nat : z = r + b * p
  BY <1>0, <1>3
<1>4. z + y = total /\ z < P
  BY <1>0, <1>1, <1>3
<1>5. z % P = z
  BY <1>1, <1>4
<1>6. QED
  BY <1>4, <1>5 DEF Added

LEMMA PackInvBit ==
  ASSUME IInv, PackInv, PackBit PROVE PackInv'
<1> PICK there : there = (start + bit < NBits(data))
  OBVIOUS
<1> PICK b : b = IF start + bit < NBits(data) THEN BitOf(data, start + bit) ELSE 0
  OBVIOUS
<1>1. /\ pc = "pack" /\ bit < ChunkBits
      /\ result' = (result + b * power) % P
      /\ power' = (2 * power) % P /\ bit' = bit + 1
      /\ UNCHANGED <<data, pc, start, blocks>>
  BY DEF PackBit
<1>2. /\ start \in Nat /\ bit \in 0 .. ChunkBits - 1 /\ bit \in Nat /\ ChunkBits \in Nat
      /\ data \in Seq(Bytes) /\ P \in Nat /\ result \in Nat
  BY <1>1, SizesAssumption, FieldAssumption DEF IInv, TypeOK, Bytes, Field
<1>3. PICK h : /\ Horner(h, BitsOf(data), start, start + ChunkBits)
               /\ result + 2^bit * h[start + bit] = h[start]
  BY <1>1 DEF PackInv, Lacking
<1> PICK at \in Nat : at = start + bit
  BY <1>2
<1>4. /\ at \in start .. (start + ChunkBits) - 1 /\ at + 1 \in start .. start + ChunkBits
      /\ start \in start .. start + ChunkBits /\ start + (bit + 1) = at + 1
  BY <1>2
<1>5. h[at + 1] \in Nat /\ h[start] \in Nat
  BY <1>3, <1>4 DEF Horner
<1>6. Bits(BitsOf(data), start, start + ChunkBits)
  BY <1>2, BitsType
<1>7. BitsOf(data)[at] = b /\ b \in {0, 1}
  <2>1. BitsOf(data)[at] \in {0, 1}
    BY <1>4, <1>6 DEF Bits
  <2>2. BitsOf(data)[at] = Bit(data, at)
    BY DEF BitsOf
  <2>3. QED
    BY <2>1, <2>2 DEF Bit
<1>8. h[at] = b + 2 * h[at + 1]
  BY <1>3, <1>4, <1>7 DEF Horner, Recurs
<1>9. h[start] < P
  <2>1. h[start] < 2^ChunkBits
    BY <1>2, <1>3, <1>6, HornerBound
  <2>2. 2^ChunkBits \in Nat /\ 2^ChunkBits <= P
    <3>1. ChunkBits \in 0 .. ByteBits + ChunkBits
      BY SizesAssumption
    <3>2. QED
      BY <3>1, PowersAssumption, SizesAssumption
  <2>3. QED
    BY <1>2, <1>5, <2>1, <2>2
<1>10. power = 2^bit /\ 2^bit \in Nat /\ 2^(bit + 1) = 2 * 2^bit
  <2>1. bit \in 0 .. ByteBits + ChunkBits
    BY <1>2, SizesAssumption
  <2>2. QED
    BY <1>1, <1>2, <2>1, PowersAssumption DEF PackInv
<1> PICK p \in Nat : p = power
  BY <1>10
<1> PICK x \in Nat : x = h[at + 1]
  BY <1>5
<1> PICK r \in Nat : r = result
  BY <1>2
<1> PICK total \in Nat : total = h[start]
  BY <1>5
<1>11. r + p * (b + 2 * x) = total /\ total < P
  BY <1>3, <1>8, <1>9, <1>10
<1>12. (r + b * p) % P = r + b * p /\ (r + b * p) + (2 * p) * x = total
  <2>1. Balanced(r, p, b, x, total)
    BY <1>7, <1>11 DEF Balanced
  <2>2. Added(r, p, b, x, total)
    BY <2>1, AddBit
  <2>3. QED
    BY <2>2 DEF Added
<1>13. Lacking(start, bit, result, 2^bit)'
  <2>1. result' = r + b * p
    BY <1>1, <1>12
  <2>2. (2^bit)' = 2 * p /\ start' = start /\ bit' = bit + 1
    BY <1>1, <1>10
  <2>3. h[start' + bit'] = x
    BY <1>4, <2>2
  <2>4. result' + (2^bit)' * h[start' + bit'] = h[start']
    BY <1>12, <2>1, <2>2, <2>3
  <2>5. Horner(h, BitsOf(data), start, start + ChunkBits)'
    BY <1>1, <1>3
  <2>6. QED
    BY <2>4, <2>5 DEF Lacking
<1>14. bit' < ChunkBits => power' = 2^bit'
  <2> SUFFICES ASSUME bit + 1 < ChunkBits PROVE power' = 2^(bit + 1)
    BY <1>1
  <2>1. 2^(bit + 1) < P
    <3> PICK q \in Nat : q = bit + 1
      BY <1>2
    <3>1. q \in 0 .. ChunkBits - 1 /\ q \in 0 .. ByteBits + ChunkBits
      BY <1>2, SizesAssumption
    <3>2. 2^q < P
      BY <3>1, PowersBelow
    <3>3. QED
      BY <3>2
  <2>2. power' = (2^(bit + 1)) % P
    BY <1>1, <1>10
  <2>3. 2^(bit + 1) \in Nat
    BY <1>10
  <2>4. 2^(bit + 1) \in Field
    BY <1>2, <2>1, <2>3 DEF Field
  <2>5. QED
    BY <2>2, <2>4, ModSmall
<1>15. Packed'
  BY <1>1 DEF PackInv, Packed
<1>16. QED
  BY <1>1, <1>13, <1>14, <1>15 DEF PackInv

LEMMA PackInvChunk ==
  ASSUME IInv, PackInv, PackChunk PROVE PackInv'
<1>1. /\ pc = "pack" /\ start < NBits(data) /\ bit = ChunkBits
      /\ blocks' = Append(blocks, result) /\ start' = start + ChunkBits
      /\ bit' = 0 /\ result' = 0 /\ power' = 1 /\ UNCHANGED <<data, pc>>
  BY DEF PackChunk
<1>2. /\ start \in Nat /\ ChunkBits \in Nat /\ data \in Seq(Bytes) /\ result \in Nat
      /\ blocks \in Seq(Field) /\ start = Len(blocks) * ChunkBits
  BY <1>1, SizesAssumption, FieldAssumption DEF IInv, TypeOK, Bytes, Field, PackInv
<1> PICK c \in Nat : c = Len(blocks)
  BY <1>2
<1>3. /\ Len(blocks') = c + 1 /\ blocks'[c + 1] = result
      /\ \A j \in 1 .. c : blocks'[j] = blocks[j]
  BY <1>1, <1>2
<1>4. Element(data, start, result)
  <2>1. PICK h : /\ Horner(h, BitsOf(data), start, start + ChunkBits)
                 /\ result + 2^bit * h[start + bit] = h[start]
    BY <1>1 DEF PackInv, Lacking
  <2>2. h[start + bit] = 0
    BY <1>1, <2>1 DEF Horner, Recurs
  <2>3. 2^bit \in Nat
    <3>1. bit \in 0 .. ByteBits + ChunkBits
      BY <1>1, SizesAssumption
    <3>2. QED
      BY <3>1, PowersAssumption
  <2>4. 2^bit * h[start + bit] = 0
    BY <2>2, <2>3
  <2>5. result = h[start]
    BY <1>2, <2>1, <2>4
  <2>6. QED
    BY <2>1, <2>5 DEF Element
<1>5. Packed'
  <2>1. ASSUME NEW j \in Nat, j + 1 <= c + 1
        PROVE  Element(data, j * ChunkBits, blocks'[j + 1])
    <3>1. CASE j = c
      BY <1>2, <1>3, <1>4, <3>1
    <3>2. CASE j # c
      <4>1. j + 1 <= c /\ j + 1 \in 1 .. c
        BY <2>1, <3>2
      <4>2. QED
        BY <1>3, <4>1 DEF PackInv, Packed
    <3>3. QED
      BY <3>1, <3>2
  <2>2. ASSUME NEW j \in Nat, j + 1 = c + 1 PROVE j * ChunkBits < NBits(data)
    <3>1. j = c
      BY <2>2
    <3>2. QED
      BY <1>1, <1>2, <3>1
  <2>3. QED
    BY <1>1, <1>3, <2>1, <2>2 DEF Packed
<1>6. start' = Len(blocks') * ChunkBits
  <2>1. (c + 1) * ChunkBits = c * ChunkBits + ChunkBits
    BY Times
  <2>2. QED
    BY <1>1, <1>2, <1>3, <2>1
<1>7. Lacking(start, bit, result, 2^bit)'
  <2>1. start + ChunkBits \in Nat
    BY <1>2
  <2>2. Lacking(start + ChunkBits, 0, 0, 2^0)
    BY <1>2, <2>1, AllLacking
  <2>3. QED
    BY <1>1, <2>2 DEF Lacking
<1>8. power' = 2^bit'
  BY <1>1, PowersAssumption
<1>9. QED
  BY <1>1, <1>5, <1>6, <1>7, <1>8 DEF PackInv

LEMMA PackInvNext == IInv /\ PackInv /\ [Next]_vars => PackInv'
<1> SUFFICES ASSUME IInv, PackInv, [Next]_vars PROVE PackInv'
  OBVIOUS
<1>1. CASE PackEnd
  <2>1. /\ pc = "pack" /\ pc' = "absorb" /\ NBits(data) <= start /\ UNCHANGED <<data, blocks>>
    <3>1. start \in Nat /\ NBits(data) \in Nat /\ start >= NBits(data)
      BY <1>1, ChunkCount DEF PackEnd, IInv, TypeOK, Bytes
    <3>2. QED
      BY <1>1, <3>1 DEF PackEnd, packing
  <2>2. Packed'
    BY <2>1 DEF PackInv, Packed
  <2>3. QED
    BY <2>1, <2>2 DEF PackInv
<1>2. CASE UNCHANGED <<data, pc, start, bit, result, power, blocks>>
  BY <1>2 DEF PackInv, Packed, Lacking
<1>3. CASE pc # "pack" /\ pc' # "pack" /\ UNCHANGED <<data, blocks>>
  BY <1>3 DEF PackInv, Packed
<1>4. CASE Absorb \/ Round \/ RoundsEnd \/ Output
  BY <1>3, <1>4 DEF Absorb, Round, RoundsEnd, Output, packing
<1>5. QED
  BY <1>1, <1>2, <1>4, PackInvBit, PackInvChunk DEF Next, vars

LEMMA PackInvInit == Init => PackInv
<1> SUFFICES ASSUME Init PROVE PackInv
  OBVIOUS
<1>1. data \in Seq(Bytes)
  BY InputsAssumption DEF Init, Bytes
<1>2. Len(blocks) = 0 /\ 0 * ChunkBits = 0
  BY Times DEF Init
<1>3. Packed
  BY <1>2 DEF Packed
<1>4. Lacking(0, 0, 0, 2^0)
  BY <1>1, AllLacking
<1>5. QED
  BY <1>2, <1>3, <1>4, PowersAssumption DEF Init, PackInv

(* The elements of an input have one length and one value each, and those  *)
(* values tell the bits.                                                   *)
LEMMA ChunkElement ==
  ASSUME NEW d \in Seq(Bytes), NEW j \in Nat, j * ChunkBits < NBits(d)
  PROVE  Element(d, j * ChunkBits, ChunkValue(d, j + 1))
<1> PICK from \in Nat : from = j * ChunkBits
  BY Times
<1>1. ChunkBits \in Nat /\ from + ChunkBits \in Nat /\ from <= from + ChunkBits
  BY SizesAssumption
<1>2. PICK h : Horner(h, BitsOf(d), from, from + ChunkBits)
  BY <1>1, BitsType, HornerExists
<1>3. j + 1 \in Nat \ {0} /\ (j + 1) - 1 = j /\ (j + 1) * ChunkBits = from + ChunkBits
  BY Times
<1>4. NBits(d) \in Nat /\ from < NBits(d) /\ from = ((j + 1) - 1) * ChunkBits
  BY <1>3, ChunkCount
<1>5. ChunkValue(d, j + 1) = h[from]
  BY <1>2, <1>3, <1>4, ChunkIs
<1>6. QED
  BY <1>2, <1>5 DEF Element

SameBits(d, e, from) ==
  \A i \in from .. (from + ChunkBits) - 1 : Bit(d, i) = Bit(e, i)

LEMMA ElementBinds ==
  ASSUME NEW d \in Seq(Bytes), NEW e \in Seq(Bytes), NEW from \in Nat, NEW x, NEW y,
         Element(d, from, x), Element(e, from, y)
  PROVE  x = y <=> SameBits(d, e, from)
<1>1. PICK h : Horner(h, BitsOf(d), from, from + ChunkBits) /\ x = h[from]
  BY DEF Element
<1>2. PICK g : Horner(g, BitsOf(e), from, from + ChunkBits) /\ y = g[from]
  BY DEF Element
<1>3. /\ ChunkBits \in Nat /\ from + ChunkBits \in Nat /\ from <= from + ChunkBits
      /\ from \in from .. from + ChunkBits
  BY SizesAssumption
<1>4. \A i \in from .. (from + ChunkBits) - 1 :
        BitsOf(d)[i] = Bit(d, i) /\ BitsOf(e)[i] = Bit(e, i)
  BY <1>3 DEF BitsOf
<1>5. Bits(BitsOf(d), from, from + ChunkBits) /\ Bits(BitsOf(e), from, from + ChunkBits)
  BY <1>3, BitsType
<1>6. ASSUME x = y
      PROVE  \A i \in from .. (from + ChunkBits) - 1 : Bit(d, i) = Bit(e, i)
  <2>1. h[from] = g[from]
    BY <1>1, <1>2, <1>6
  <2>2. \A i \in from .. (from + ChunkBits) - 1 : BitsOf(d)[i] = BitsOf(e)[i]
    BY <1>1, <1>2, <1>3, <1>5, <2>1, HornerBinds
  <2>3. QED
    BY <1>4, <2>2
<1>7. ASSUME \A i \in from .. (from + ChunkBits) - 1 : Bit(d, i) = Bit(e, i)
      PROVE  x = y
  <2>1. \A i \in from .. (from + ChunkBits) - 1 : BitsOf(d)[i] = BitsOf(e)[i]
    BY <1>4, <1>7
  <2>2. Recurs(g, BitsOf(d), from, from + ChunkBits)
    BY <1>2, <2>1 DEF Horner, Recurs
  <2>3. \A i \in from .. from + ChunkBits : h[i] = g[i]
    BY <1>1, <1>3, <2>2, HornerUnique DEF Horner
  <2>4. QED
    BY <1>1, <1>2, <1>3, <2>3
<1>8. QED
  BY <1>6, <1>7 DEF SameBits

LEMMA BlocksBind ==
  ASSUME IInv, PackInv, pc = "absorb", NEW d \in Inputs
  PROVE  blocks = [j \in 1 .. Chunks(d) |-> ChunkValue(d, j)]
           <=> Chunks(d) = Chunks(data) /\ EqualUpToZeros(d, data)
<1>1. d \in Seq(Bytes) /\ data \in Seq(Bytes) /\ blocks \in Seq(Field)
  BY InputsAssumption DEF IInv, TypeOK, Bytes
<1> PICK c \in Nat : c = Len(blocks)
  BY <1>1
<1>2. c = Chunks(data)
  BY <1>1, ChunkCount DEF PackInv, Packed
<1>3. Chunks(d) \in Nat /\ \A j \in Nat : j + 1 <= Chunks(d) => j * ChunkBits < NBits(d)
  BY <1>1, ChunkCount
<1>4. ASSUME NEW j \in Nat, j + 1 <= c, Chunks(d) = c
      PROVE  blocks[j + 1] = ChunkValue(d, j + 1) <=> SameBits(d, data, j * ChunkBits)
  <2> PICK from \in Nat : from = j * ChunkBits
    BY Times
  <2> PICK x : x = ChunkValue(d, j + 1)
    OBVIOUS
  <2> PICK y : y = blocks[j + 1]
    OBVIOUS
  <2>1. Element(d, from, x)
    BY <1>1, <1>3, <1>4, ChunkElement
  <2>2. Element(data, from, y)
    BY <1>4 DEF PackInv, Packed
  <2>3. x = y <=> SameBits(d, data, from)
    BY <1>1, <2>1, <2>2, ElementBinds
  <2>4. QED
    BY <2>3
<1>5. EqualUpToZeros(d, data) <=>
        \A i \in 0 .. Chunks(d) * ChunkBits - 1 : Bit(d, i) = Bit(data, i)
  BY DEF EqualUpToZeros, Bit
<1> DEFINE chunked == \A j \in Nat : j + 1 <= c => blocks[j + 1] = ChunkValue(d, j + 1)
<1>6. blocks = [j \in 1 .. Chunks(d) |-> ChunkValue(d, j)] <=> Chunks(d) = c /\ chunked
  <2>1. DOMAIN blocks = 1 .. c /\ blocks = [j \in 1 .. c |-> blocks[j]]
    BY <1>1
  <2>2. ASSUME blocks = [j \in 1 .. Chunks(d) |-> ChunkValue(d, j)]
        PROVE  Chunks(d) = c /\ chunked
    <3> PICK k \in Nat : k = Chunks(d)
      BY <1>3
    <3>1. 1 .. c = 1 .. k
      BY <2>1, <2>2
    <3>2. c = k
      <4>1. \A i \in Nat : i \in 1 .. c <=> i \in 1 .. k
        BY <3>1
      <4>2. c + 1 \notin 1 .. c /\ k + 1 \notin 1 .. k
        OBVIOUS
      <4>3. CASE c < k
        <5>1. c + 1 \in 1 .. k
          BY <4>3
        <5>2. QED
          BY <4>1, <4>2, <5>1
      <4>4. CASE k < c
        <5>1. k + 1 \in 1 .. c
          BY <4>4
        <5>2. QED
          BY <4>1, <4>2, <5>1
      <4>5. QED
        BY <4>3, <4>4
    <3>3. \A j \in 1 .. k : blocks[j] = ChunkValue(d, j)
      BY <2>2
    <3>4. \A j \in Nat : j + 1 <= c => j + 1 \in 1 .. k
      BY <3>2
    <3>5. QED
      BY <3>2, <3>3, <3>4
  <2>3. ASSUME Chunks(d) = c, chunked
        PROVE  blocks = [j \in 1 .. Chunks(d) |-> ChunkValue(d, j)]
    <3>1. ASSUME NEW j \in 1 .. c PROVE blocks[j] = ChunkValue(d, j)
      <4> PICK q \in Nat : q = j - 1
        OBVIOUS
      <4>1. q + 1 = j /\ q + 1 <= c
        OBVIOUS
      <4>2. QED
        BY <2>3, <4>1
    <3>2. QED
      BY <2>1, <2>3, <3>1
  <2>4. QED
    BY <2>2, <2>3
<1> HIDE DEF chunked
<1>7. ASSUME Chunks(d) = c
      PROVE  chunked <=> EqualUpToZeros(d, data)
  <2>1. ASSUME chunked, NEW i \in 0 .. c * ChunkBits - 1
        PROVE  Bit(d, i) = Bit(data, i)
    <3>1. i \in Nat /\ i < c * ChunkBits /\ c * ChunkBits \in Nat
      BY Times
    <3>2. PICK j \in Nat : j + 1 <= c /\ j * ChunkBits <= i /\ i < j * ChunkBits + ChunkBits
      BY <3>1, InChunk
    <3>3. j * ChunkBits \in Nat /\ ChunkBits \in Nat
      BY Times, SizesAssumption
    <3>4. i \in j * ChunkBits .. (j * ChunkBits + ChunkBits) - 1
      <4> PICK x \in Nat : x = j * ChunkBits
        BY <3>3
      <4>1. x <= i /\ i < x + ChunkBits
        BY <3>2
      <4>2. QED
        BY <3>1, <3>3, <4>1
    <3>5. QED
      BY <1>4, <1>7, <2>1, <3>2, <3>4 DEF chunked, SameBits
  <2>2. ASSUME \A i \in 0 .. c * ChunkBits - 1 : Bit(d, i) = Bit(data, i),
               NEW j \in Nat, j + 1 <= c
        PROVE  blocks[j + 1] = ChunkValue(d, j + 1)
    <3>1. /\ j * ChunkBits \in Nat /\ ChunkBits \in Nat /\ c * ChunkBits \in Nat
          /\ (j + 1) * ChunkBits = j * ChunkBits + ChunkBits
      BY Times, SizesAssumption
    <3>2. (j + 1) * ChunkBits <= c * ChunkBits
      BY <2>2, TimesMonotone
    <3>3. \A i \in j * ChunkBits .. (j * ChunkBits + ChunkBits) - 1 : i \in 0 .. c * ChunkBits - 1
      <4> PICK x \in Nat : x = j * ChunkBits
        BY <3>1
      <4> PICK y \in Nat : y = c * ChunkBits
        BY <3>1
      <4>1. x + ChunkBits <= y
        BY <3>1, <3>2
      <4>2. \A i \in x .. (x + ChunkBits) - 1 : i \in 0 .. y - 1
        BY <3>1, <4>1
      <4>3. QED
        BY <4>2
    <3>4. QED
      BY <1>4, <1>7, <2>2, <3>3 DEF SameBits
  <2>3. QED
    BY <1>5, <1>7, <2>1, <2>2 DEF chunked
<1>8. QED
  BY <1>2, <1>6, <1>7

(* For every field, size of byte and of chunk and any set of inputs: the   *)
(* elements of compress_bytes (commitment.rs:29-41) are those of another   *)
(* input only if it has as many chunks and the same bits up to zeros at    *)
(* the end.                                                                *)
THEOREM Binding == Spec => []PackingBinds
<1>1. IInv /\ PackInv => PackingBinds
  BY BlocksBind DEF PackingBinds
<1>2. QED
  BY <1>1, PackInvInit, InitIInv, PackInvNext, NextIInv, PTL DEF Spec

-------------------------------------------------------------------------------
(* The whole permutation: h are the halves after each round, as            *)
(* FeistelRound leaves them.                                               *)

Network(h) ==
  /\ h \in [0 .. Rounds -> Field \X Field]
  /\ \A i \in 0 .. Rounds - 1 : h[i + 1] = Halves(i, h[i][1], h[i][2], Mix(i, h[i][1]))

(* What a round leaves gives back what it began with.                     *)
LEMMA HalvesUndone ==
  ASSUME NEW i \in 0 .. Rounds - 1, NEW l \in Field, NEW r \in Field, NEW p,
         p = Halves(i, l, r, Mix(i, l))
  PROVE  UndoRound(i, p[1], p[2]) = <<l, r>>
<1> PICK f \in Field : f = Mix(i, l)
  BY MixType
<1>1. (((r + f) % P) - f) % P = r
  BY UndoSum
<1>2. CASE i < Rounds - 1
  <2>1. p = <<(r + f) % P, l>>
    BY <1>2, Zenon DEF Halves
  <2>2. p[1] = (r + f) % P /\ p[2] = l
    BY <2>1
  <2>3. UndoRound(i, p[1], p[2]) = <<p[2], (p[1] - Mix(i, p[2])) % P>>
    BY <1>2, Zenon DEF UndoRound
  <2>4. QED
    BY <1>1, <2>2, <2>3, Zenon
<1>3. CASE ~(i < Rounds - 1)
  <2>1. p = <<l, (r + f) % P>>
    BY <1>3, Zenon DEF Halves
  <2>2. p[1] = l /\ p[2] = (r + f) % P
    BY <2>1
  <2>3. UndoRound(i, p[1], p[2]) = <<p[1], (p[2] - Mix(i, p[1])) % P>>
    BY <1>3, Zenon DEF UndoRound
  <2>4. QED
    BY <1>1, <2>2, <2>3, Zenon
<1>4. QED
  BY <1>2, <1>3

(* Two pairs of halves the permutation takes to the same pair are the      *)
(* same, for every field, any rounds and any keys: or there were a last    *)
(* round behind which the two were together for the first time             *)
(* (mimc/mod.rs:29-45, `feistel`).                                         *)
THEOREM Permutation ==
  ASSUME NEW h, NEW g, Network(h), Network(g), h[Rounds] = g[Rounds]
  PROVE  h[0] = g[0]
<1>0. Rounds \in Nat
  BY MimcAssumption
<1>1. \A i \in 0 .. Rounds : h[i] \in Field \X Field /\ g[i] \in Field \X Field
  BY DEF Network
<1>2. ASSUME NEW i \in 0 .. Rounds - 1, h[i + 1] = g[i + 1] PROVE h[i] = g[i]
  <2>1. i \in 0 .. Rounds
    BY <1>0
  <2>2. /\ h[i + 1] = Halves(i, h[i][1], h[i][2], Mix(i, h[i][1]))
        /\ g[i + 1] = Halves(i, g[i][1], g[i][2], Mix(i, g[i][1]))
    BY DEF Network
  <2>3. h[i][1] \in Field /\ h[i][2] \in Field /\ h[i] = <<h[i][1], h[i][2]>>
    BY <1>1, <2>1
  <2>4. g[i][1] \in Field /\ g[i][2] \in Field /\ g[i] = <<g[i][1], g[i][2]>>
    BY <1>1, <2>1
  <2>5. UndoRound(i, h[i + 1][1], h[i + 1][2]) = h[i]
    BY <2>2, <2>3, HalvesUndone, Zenon
  <2>6. UndoRound(i, g[i + 1][1], g[i + 1][2]) = g[i]
    BY <2>2, <2>4, HalvesUndone, Zenon
  <2>7. QED
    BY <1>2, <2>5, <2>6, Zenon
<1> DEFINE T == {k \in 0 .. Rounds : h[Rounds - k] # g[Rounds - k]}
<1> SUFFICES ASSUME h[0] # g[0] PROVE FALSE
  OBVIOUS
<1>3. T \subseteq Nat
  OBVIOUS
<1>4. Rounds \in T
  BY <1>0
<1>5. PICK k \in T : \A j \in T : k <= j
  <2> HIDE DEF T
  <2>1. QED
    BY <1>3, <1>4, LeastNatural
<1>6. k \in 0 .. Rounds /\ h[Rounds - k] # g[Rounds - k]
  OBVIOUS
<1>7. k # 0
  BY <1>0, <1>6
<1>8. k - 1 \notin T
  <2>1. k - 1 < k
    BY <1>6
  <2> HIDE DEF T
  <2>2. k \in Nat
    BY <1>6
  <2>3. QED
    BY <1>5, <2>1, <2>2
<1> PICK i \in 0 .. Rounds - 1 : i = Rounds - k
  BY <1>0, <1>6, <1>7
<1>9. k - 1 \in 0 .. Rounds /\ Rounds - (k - 1) = i + 1
  BY <1>0, <1>6, <1>7
<1>10. h[i + 1] = g[i + 1]
  BY <1>8, <1>9
<1>11. QED
  BY <1>2, <1>6, <1>10

===============================================================================
