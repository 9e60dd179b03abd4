---------------------------- MODULE ChaCha20Proofs ----------------------------
(* Proofs about ChaCha20, for every key, nonce, counter and message: the   *)
(* words stay words, every quarter round can be undone, and what the       *)
(* circuit computes is the ChaCha20 of the standard: its eight quarter     *)
(* rounds in place are the double round on rows (EightAreDoubleRound),     *)
(* eighty of them ten double rounds (TrailTen), and its counter of a       *)
(* block, one more each time, the counter of the block's number            *)
(* (NextBlock).                                                            *)
EXTENDS ChaCha20, WellFoundedInduction, SequenceTheorems, TLAPS

-------------------------------------------------------------------------------
(* The adder of the circuit and its inverse.                               *)

(* A nonempty set of natural numbers has a least element.                  *)
LEMMA LeastNatural ==
  ASSUME NEW T, T \subseteq Nat, T # {}
  PROVE  \E m \in T : \A k \in T : m <= k
<1> DEFINE R == OpToRel(<, Nat)
<1>1. IsWellFoundedOn(R, Nat)
  BY NatLessThanWellFounded
<1>2. \A i, j \in Nat : i < j => <<i, j>> \in R
  BY DEF OpToRel
<1> HIDE DEF R
<1>3. PICK m \in T : \A k \in T : ~(<<k, m>> \in R)
  BY <1>1, WFMin, Zenon
<1>4. \A k \in T : ~(k < m)
  BY <1>2, <1>3, Zenon
<1>5. \A k \in T : m <= k
  BY <1>4
<1> QED
  BY <1>5

(* The carry of a bit, from the bit below it: the recurrence the closed    *)
(* form stands for.                                                        *)
LEMMA CarryStep ==
  ASSUME NEW x \in Word, NEW y \in Word
  PROVE  /\ ~Carry(x, y, 0)
         /\ \A i \in 0 .. 30 :
              Carry(x, y, i + 1) <=>
                \/ i \in x /\ i \in y
                \/ (i \in x \/ i \in y) /\ Carry(x, y, i)
<1>1. x \subseteq 0 .. 31 /\ y \subseteq 0 .. 31
  BY DEF Word
<1>2. ~Carry(x, y, 0)
  BY <1>1 DEF Carry
<1>3. ASSUME NEW i \in 0 .. 30
      PROVE  Carry(x, y, i + 1) <=>
                \/ i \in x /\ i \in y
                \/ (i \in x \/ i \in y) /\ Carry(x, y, i)
  <2>1. ASSUME Carry(x, y, i + 1), ~(i \in x /\ i \in y)
        PROVE  (i \in x \/ i \in y) /\ Carry(x, y, i)
    <3>1. PICK j \in x \cap y :
            j < i + 1 /\ \A k \in j + 1 .. (i + 1) - 1 : k \in x \cup y
      BY <2>1 DEF Carry
    <3>2. j < i /\ j \in 0 .. 31
      BY <1>1, <2>1, <3>1
    <3>3. i \in j + 1 .. (i + 1) - 1
      BY <3>2
    <3>4. \A k \in j + 1 .. i - 1 : k \in j + 1 .. (i + 1) - 1
      BY <3>2
    <3> QED
      BY <3>1, <3>2, <3>3, <3>4 DEF Carry
  <2>2. ASSUME i \in x, i \in y PROVE Carry(x, y, i + 1)
    BY <2>2 DEF Carry
  <2>3. ASSUME i \in x \/ i \in y, Carry(x, y, i) PROVE Carry(x, y, i + 1)
    <3>1. PICK j \in x \cap y : j < i /\ \A k \in j + 1 .. i - 1 : k \in x \cup y
      BY <2>3 DEF Carry
    <3>2. j \in 0 .. 31
      BY <1>1
    <3>3. \A k \in j + 1 .. (i + 1) - 1 : k = i \/ k \in j + 1 .. i - 1
      BY <3>2
    <3>4. \A k \in j + 1 .. (i + 1) - 1 : k \in x \cup y
      BY <2>3, <3>1, <3>3
    <3>5. j < i + 1
      BY <3>1, <3>2
    <3> QED
      BY <3>4, <3>5 DEF Carry
  <2> QED
    BY <2>1, <2>2, <2>3
<1> QED
  BY <1>2, <1>3

(* The same of the borrow.                                                 *)
LEMMA BorrowStep ==
  ASSUME NEW z \in Word, NEW y \in Word
  PROVE  /\ ~Borrow(z, y, 0)
         /\ \A i \in 0 .. 30 :
              Borrow(z, y, i + 1) <=>
                \/ i \in y /\ i \notin z
                \/ ~(i \in z /\ i \notin y) /\ Borrow(z, y, i)
<1>1. z \subseteq 0 .. 31 /\ y \subseteq 0 .. 31
  BY DEF Word
<1>2. ~Borrow(z, y, 0)
  BY <1>1 DEF Borrow
<1>3. ASSUME NEW i \in 0 .. 30
      PROVE  Borrow(z, y, i + 1) <=>
                \/ i \in y /\ i \notin z
                \/ ~(i \in z /\ i \notin y) /\ Borrow(z, y, i)
  <2>1. ASSUME Borrow(z, y, i + 1), ~(i \in y /\ i \notin z)
        PROVE  ~(i \in z /\ i \notin y) /\ Borrow(z, y, i)
    <3>1. PICK j \in y \ z :
            j < i + 1 /\ \A k \in j + 1 .. (i + 1) - 1 : k \notin z \ y
      BY <2>1 DEF Borrow
    <3>2. j < i /\ j \in 0 .. 31
      BY <1>1, <2>1, <3>1
    <3>3. i \in j + 1 .. (i + 1) - 1
      BY <3>2
    <3>4. \A k \in j + 1 .. i - 1 : k \in j + 1 .. (i + 1) - 1
      BY <3>2
    <3> QED
      BY <3>1, <3>2, <3>3, <3>4 DEF Borrow
  <2>2. ASSUME i \in y, i \notin z PROVE Borrow(z, y, i + 1)
    BY <2>2 DEF Borrow
  <2>3. ASSUME ~(i \in z /\ i \notin y), Borrow(z, y, i) PROVE Borrow(z, y, i + 1)
    <3>1. PICK j \in y \ z : j < i /\ \A k \in j + 1 .. i - 1 : k \notin z \ y
      BY <2>3 DEF Borrow
    <3>2. j \in 0 .. 31
      BY <1>1
    <3>3. \A k \in j + 1 .. (i + 1) - 1 : k = i \/ k \in j + 1 .. i - 1
      BY <3>2
    <3>4. \A k \in j + 1 .. (i + 1) - 1 : k \notin z \ y
      BY <2>3, <3>1, <3>3
    <3>5. j < i + 1
      BY <3>1, <3>2
    <3> QED
      BY <3>4, <3>5 DEF Borrow
  <2> QED
    BY <2>1, <2>2, <2>3
<1> QED
  BY <1>2, <1>3

(* Subtracting what was added gives the word back: bit by bit the borrow   *)
(* of the subtraction is the carry of the addition, or there were a lowest *)
(* bit where it is not.                                                    *)
LEMMA SubAdd ==
  ASSUME NEW x \in Word, NEW y \in Word
  PROVE  WrappingAdd(x, y) \in Word /\ WrappingSub(WrappingAdd(x, y), y) = x
<1> DEFINE z == WrappingAdd(x, y)
<1>1. x \subseteq 0 .. 31 /\ y \subseteq 0 .. 31
  BY DEF Word
<1>2. z \in Word
  BY DEF WrappingAdd, Word
<1>3. \A i \in 0 .. 31 : i \in z <=> ~(i \in Xor(x, y) <=> Carry(x, y, i))
  BY DEF WrappingAdd
<1> HIDE DEF z
<1> DEFINE T == {i \in 0 .. 31 : ~(Borrow(z, y, i) <=> Carry(x, y, i))}
<1>4. T = {}
  <2> SUFFICES ASSUME T # {} PROVE FALSE
    OBVIOUS
  <2>1. T \subseteq Nat
    OBVIOUS
  <2>2. PICK m \in T : \A k \in T : m <= k
    <3> HIDE DEF T
    <3> QED
      BY <2>1, LeastNatural
  <2>3. m \in 0 .. 31 /\ ~(Borrow(z, y, m) <=> Carry(x, y, m))
    OBVIOUS
  <2>4. m # 0
    BY <2>3, <1>2, CarryStep, BorrowStep
  <2> DEFINE i == m - 1
  <2>5. i \in 0 .. 30 /\ m = i + 1 /\ i \in 0 .. 31 /\ i < m
    BY <2>3, <2>4
  <2>6. Borrow(z, y, i) <=> Carry(x, y, i)
    <3>1. i \notin T
      <4> HIDE DEF T
      <4> QED
        BY <2>2, <2>5, <2>1
    <3> QED
      BY <3>1, <2>5
  <2>7. i \in z <=> ~(i \in Xor(x, y) <=> Carry(x, y, i))
    BY <1>3, <2>5
  <2>8. i \in Xor(x, y) <=> ~(i \in x <=> i \in y)
    BY DEF Xor
  <2>9. Carry(x, y, m) <=>
          \/ i \in x /\ i \in y
          \/ (i \in x \/ i \in y) /\ Carry(x, y, i)
    BY <2>5, CarryStep
  <2>10. Borrow(z, y, m) <=>
          \/ i \in y /\ i \notin z
          \/ ~(i \in z /\ i \notin y) /\ Borrow(z, y, i)
    BY <2>5, <1>2, BorrowStep
  <2> HIDE DEF i
  <2>11. i \in z <=> ~(~(i \in x <=> i \in y) <=> Carry(x, y, i))
    BY <2>7, <2>8, Zenon
  <2> QED
    BY <2>3, <2>6, <2>9, <2>10, <2>11, Zenon
<1>5. \A i \in 0 .. 31 : i \in WrappingSub(z, y) <=> i \in x
  <2> SUFFICES ASSUME NEW i \in 0 .. 31
               PROVE  i \in WrappingSub(z, y) <=> i \in x
    OBVIOUS
  <2>1. Borrow(z, y, i) <=> Carry(x, y, i)
    BY <1>4
  <2>2. i \in Xor(x, y) <=> ~(i \in x <=> i \in y)
    BY DEF Xor
  <2>3. i \in Xor(z, y) <=> ~(i \in z <=> i \in y)
    BY DEF Xor
  <2>4. i \in WrappingSub(z, y) <=> ~(i \in Xor(z, y) <=> Borrow(z, y, i))
    BY DEF WrappingSub
  <2>5. i \in z <=> ~(i \in Xor(x, y) <=> Carry(x, y, i))
    BY <1>3
  <2> QED
    BY <2>1, <2>2, <2>3, <2>4, <2>5, Zenon
<1>6. WrappingSub(z, y) \subseteq 0 .. 31
  BY DEF WrappingSub
<1>7. WrappingSub(z, y) = x
  BY <1>1, <1>5, <1>6
<1> QED
  BY <1>2, <1>7 DEF z

(* A rotation is undone by the rotation back.                              *)
LEMMA RotateBack ==
  ASSUME NEW x \in Word, NEW n \in 0 .. 31
  PROVE  RotateLeft(x, n) \in Word /\ RotateRight(RotateLeft(x, n), n) = x
<1>1. RotateLeft(x, n) \in Word
  BY DEF RotateLeft, Word
<1>2. ASSUME NEW i \in 0 .. 31
      PROVE  i \in RotateRight(RotateLeft(x, n), n) <=> i \in x
  <2>1. (i + n) % 32 \in 0 .. 31
    OBVIOUS
  <2>2. (((i + n) % 32) - n) % 32 = i
    OBVIOUS
  <2> QED
    BY <2>1, <2>2 DEF RotateRight, RotateLeft
<1>3. RotateRight(RotateLeft(x, n), n) \subseteq 0 .. 31 /\ x \subseteq 0 .. 31
  BY DEF RotateRight, Word
<1> QED
  BY <1>1, <1>2, <1>3

LEMMA XorBack ==
  ASSUME NEW x \in Word, NEW y \in Word
  PROVE  Xor(x, y) \in Word /\ Xor(Xor(x, y), y) = x
BY DEF Xor, Word

(* One bit of an adder: what it leaves and what it carries out.            *)
SumOut(p, q, c) == ~(~(p <=> q) <=> c)
CarryOut(p, q, c) == (p /\ q) \/ ((p \/ q) /\ c)

LEMMA SumBit ==
  ASSUME NEW x \in Word, NEW y \in Word, NEW i \in 0 .. 31
  PROVE  i \in WrappingAdd(x, y) <=> SumOut(i \in x, i \in y, Carry(x, y, i))
BY DEF WrappingAdd, Xor, SumOut

LEMMA CarryNext ==
  ASSUME NEW x \in Word, NEW y \in Word, NEW i \in 0 .. 30
  PROVE  Carry(x, y, i + 1) <=> CarryOut(i \in x, i \in y, Carry(x, y, i))
<1>1. \A j \in 0 .. 30 : Carry(x, y, j + 1) <=>
                \/ j \in x /\ j \in y
                \/ (j \in x \/ j \in y) /\ Carry(x, y, j)
  BY CarryStep
<1> QED
  BY <1>1, Zenon DEF CarryOut

(* As many carries in a and b as in c and d.                               *)
SameCarries(a, b, c, d) == ((a <=> b) <=> (c <=> d)) /\ ((a /\ b) <=> (c /\ d))

(* Words are added in any grouping: into every bit the two additions of    *)
(* one grouping carry as often as those of the other, or there were a      *)
(* lowest bit where they do not.                                           *)
LEMMA AddAssociative ==
  ASSUME NEW x \in Word, NEW y \in Word, NEW z \in Word
  PROVE  WrappingAdd(WrappingAdd(x, y), z) = WrappingAdd(x, WrappingAdd(y, z))
<1> PICK s : s = WrappingAdd(x, y)
  OBVIOUS
<1> PICK t : t = WrappingAdd(y, z)
  OBVIOUS
<1>1. s \in Word /\ t \in Word
  BY SubAdd
<1> DEFINE Same(i) == SameCarries(Carry(x, y, i), Carry(s, z, i), Carry(y, z, i), Carry(x, t, i))
<1>2. Same(0)
  BY <1>1, CarryStep DEF SameCarries
<1>3. ASSUME NEW i \in 0 .. 30, Same(i) PROVE Same(i + 1)
  <2>1. Carry(x, y, i + 1) <=> CarryOut(i \in x, i \in y, Carry(x, y, i))
    BY CarryNext, Zenon
  <2>2. Carry(s, z, i + 1) <=> CarryOut(i \in s, i \in z, Carry(s, z, i))
    BY <1>1, CarryNext, Zenon
  <2>3. Carry(y, z, i + 1) <=> CarryOut(i \in y, i \in z, Carry(y, z, i))
    BY CarryNext, Zenon
  <2>4. Carry(x, t, i + 1) <=> CarryOut(i \in x, i \in t, Carry(x, t, i))
    BY <1>1, CarryNext, Zenon
  <2>5. i \in s <=> SumOut(i \in x, i \in y, Carry(x, y, i))
    BY SumBit
  <2>6. i \in t <=> SumOut(i \in y, i \in z, Carry(y, z, i))
    BY SumBit
  <2>7. SameCarries(Carry(x, y, i), Carry(s, z, i), Carry(y, z, i), Carry(x, t, i))
    BY <1>3
  <2> QED
    BY <2>1, <2>2, <2>3, <2>4, <2>5, <2>6, <2>7 DEF SameCarries, SumOut, CarryOut
<1>4. \A i \in 0 .. 31 : Same(i)
  <2> HIDE DEF Same
  <2> SUFFICES ASSUME ~ \A i \in 0 .. 31 : Same(i) PROVE FALSE
    OBVIOUS
  <2> DEFINE T == {i \in 0 .. 31 : ~Same(i)}
  <2>1. T # {} /\ T \subseteq Nat
    OBVIOUS
  <2>2. PICK m \in T : \A k \in T : m <= k
    <3> HIDE DEF T
    <3> QED
      BY <2>1, LeastNatural
  <2>3. m \in 0 .. 31 /\ ~Same(m)
    OBVIOUS
  <2>4. m # 0
    BY <1>2, <2>3
  <2> PICK i \in 0 .. 30 : m = i + 1
    BY <2>3, <2>4
  <2>5. i \notin T
    <3> HIDE DEF T
    <3>1. i < m /\ i \in Nat /\ m \in Nat
      BY <2>3
    <3> QED
      BY <2>2, <3>1
  <2>6. Same(i)
    BY <2>5
  <2> QED
    BY <1>3, <2>3, <2>6
<1>5. ASSUME NEW i \in 0 .. 31
      PROVE  i \in WrappingAdd(s, z) <=> i \in WrappingAdd(x, t)
  <2>1. i \in s <=> SumOut(i \in x, i \in y, Carry(x, y, i))
    BY SumBit
  <2>2. i \in t <=> SumOut(i \in y, i \in z, Carry(y, z, i))
    BY SumBit
  <2>3. i \in WrappingAdd(s, z) <=> SumOut(i \in s, i \in z, Carry(s, z, i))
    BY <1>1, SumBit
  <2>4. i \in WrappingAdd(x, t) <=> SumOut(i \in x, i \in t, Carry(x, t, i))
    BY <1>1, SumBit
  <2>5. SameCarries(Carry(x, y, i), Carry(s, z, i), Carry(y, z, i), Carry(x, t, i))
    BY <1>4
  <2> QED
    BY <2>1, <2>2, <2>3, <2>4, <2>5 DEF SameCarries, SumOut
<1>6. WrappingAdd(s, z) \subseteq 0 .. 31 /\ WrappingAdd(x, t) \subseteq 0 .. 31
  BY DEF WrappingAdd
<1> QED
  BY <1>5, <1>6

(* Adding nothing changes nothing.                                         *)
LEMMA AddZero ==
  ASSUME NEW x \in Word
  PROVE  WrappingAdd(x, {}) = x
<1>1. \A i \in 0 .. 31 : ~Carry(x, {}, i)
  BY DEF Carry
<1>2. Xor(x, {}) = x
  BY DEF Xor
<1> QED
  BY <1>1, <1>2 DEF WrappingAdd, Word

-------------------------------------------------------------------------------
(* The numbers of the blocks as words.                                     *)

(* h halves n again and again, k times.                                    *)
Halving(h, n, k) ==
  /\ h \in [0 .. k -> Nat] /\ h[0] = n
  /\ \A i \in 0 .. k - 1 : h[i + 1] = h[i] \div 2

LEMMA HalvingLonger ==
  ASSUME NEW n \in Nat, NEW k \in Nat, NEW h, Halving(h, n, k)
  PROVE  \E g : Halving(g, n, k + 1)
<1> DEFINE g == [i \in 0 .. k + 1 |-> IF i = k + 1 THEN h[k] \div 2 ELSE h[i]]
<1>1. h \in [0 .. k -> Nat] /\ h[0] = n /\ \A i \in 0 .. k - 1 : h[i + 1] = h[i] \div 2
  BY DEF Halving
<1>2. h[k] \in Nat /\ h[k] \div 2 \in Nat
  <2>1. k \in 0 .. k
    OBVIOUS
  <2>2. h[k] \in Nat
    BY <1>1, <2>1
  <2> QED
    BY <2>2
<1>3. \A i \in 0 .. k : g[i] = h[i] /\ i \in 0 .. k + 1 /\ i # k + 1
  OBVIOUS
<1>4. g[k + 1] = h[k] \div 2
  OBVIOUS
<1>5. \A i \in 0 .. k + 1 : i = k + 1 \/ i \in 0 .. k
  OBVIOUS
<1>6. g \in [0 .. k + 1 -> Nat]
  BY <1>1, <1>2, <1>5
<1> HIDE DEF g
<1>7. 0 \in 0 .. k /\ (k + 1) - 1 = k /\ k \in 0 .. k
  OBVIOUS
<1>8. ASSUME NEW i \in 0 .. (k + 1) - 1 PROVE g[i + 1] = g[i] \div 2
  <2>1. i \in 0 .. k
    OBVIOUS
  <2>2. CASE i = k
    BY <1>3, <1>4, <2>1, <2>2
  <2>3. CASE i # k
    <3>1. i \in 0 .. k - 1 /\ i + 1 \in 0 .. k
      BY <2>1, <2>3
    <3> QED
      BY <1>1, <1>3, <2>1, <3>1
  <2> QED
    BY <2>2, <2>3
<1> QED
  BY <1>1, <1>3, <1>6, <1>7, <1>8 DEF Halving

LEMMA HalvingOnce ==
  ASSUME NEW n \in Nat
  PROVE  \E h : Halving(h, n, 0)
<1> DEFINE h == [i \in 0 .. 0 |-> n]
<1>1. h \in [0 .. 0 -> Nat] /\ h[0] = n /\ \A i \in 0 .. 0 - 1 : FALSE
  OBVIOUS
<1> HIDE DEF h
<1> QED
  BY <1>1 DEF Halving

(* The halving function exists, or there were a least number of times      *)
(* that no function halves n.                                              *)
LEMMA HalvingExists ==
  ASSUME NEW n \in Nat, NEW k \in Nat
  PROVE  \E h : Halving(h, n, k)
<1> DEFINE T == {j \in Nat : ~\E h : Halving(h, n, j)}
<1> SUFFICES ASSUME T # {} PROVE FALSE
  OBVIOUS
<1>1. T \subseteq Nat
  OBVIOUS
<1>2. PICK m \in T : \A j \in T : m <= j
  <2> HIDE DEF T
  <2> QED
    BY <1>1, LeastNatural
<1>3. m \in Nat /\ ~\E h : Halving(h, n, m)
  OBVIOUS
<1>4. m # 0
  BY <1>3, HalvingOnce
<1> PICK i \in Nat : m = i + 1
  <2>1. m - 1 \in Nat /\ m = (m - 1) + 1
    BY <1>3, <1>4
  <2> QED
    BY <2>1
<1>5. i \notin T
  <2> HIDE DEF T
  <2>1. i < m
    BY <1>3
  <2> QED
    BY <1>2, <2>1, <1>3
<1>6. \E h : Halving(h, n, i)
  BY <1>5
<1> QED
  BY <1>3, <1>6, HalvingLonger

(* The bits of a number are the lowest of its halves.                      *)
LEMMA WordOfHalves ==
  ASSUME NEW n \in Nat, NEW h, Halving(h, n, 31)
  PROVE  WordOf(n) = {i \in 0 .. 31 : h[i] % 2 = 1}
<1> DEFINE IsHalf(f) == f = [i \in 0 .. 31 |-> IF i = 0 THEN n ELSE f[i-1] \div 2]
           half == CHOOSE f : IsHalf(f)
<1>1. WordOf(n) = {i \in 0 .. 31 : half[i] % 2 = 1}
  BY DEF WordOf
<1>2. h \in [0 .. 31 -> Nat] /\ h[0] = n /\ \A i \in 0 .. 30 : h[i + 1] = h[i] \div 2
  BY DEF Halving
<1>3. \A i \in 0 .. 31 : h[i] = IF i = 0 THEN n ELSE h[i-1] \div 2
  <2> SUFFICES ASSUME NEW i \in 0 .. 31
               PROVE  h[i] = IF i = 0 THEN n ELSE h[i-1] \div 2
    OBVIOUS
  <2>1. CASE i = 0
    BY <1>2, <2>1
  <2>2. CASE i # 0
    <3> PICK j \in 0 .. 30 : i = j + 1
      <4>1. i - 1 \in 0 .. 30 /\ i = (i - 1) + 1
        BY <2>2
      <4> QED
        BY <4>1
    <3>1. i - 1 = j
      OBVIOUS
    <3> QED
      BY <1>2, <2>2, <3>1
  <2> QED
    BY <2>1, <2>2
<1>4. h = [i \in 0 .. 31 |-> h[i]]
  BY <1>2
<1>5. IsHalf(h)
  BY <1>3, <1>4
<1>6. IsHalf(half)
  BY <1>5
<1> HIDE DEF half
<1>7. \A i \in 0 .. 31 : half[i] = IF i = 0 THEN n ELSE half[i-1] \div 2
  BY <1>6
<1>8. \A i \in 0 .. 31 : half[i] = h[i]
  <2> DEFINE T == {i \in 0 .. 31 : half[i] # h[i]}
  <2> SUFFICES ASSUME T # {} PROVE FALSE
    OBVIOUS
  <2>1. T \subseteq Nat
    OBVIOUS
  <2>2. PICK m \in T : \A j \in T : m <= j
    <3> HIDE DEF T
    <3> QED
      BY <2>1, LeastNatural
  <2>3. m \in 0 .. 31 /\ half[m] # h[m]
    OBVIOUS
  <2>4. m # 0
    BY <1>3, <1>7, <2>3
  <2>5. m - 1 \in 0 .. 31 /\ m - 1 < m
    BY <2>3, <2>4
  <2>6. m - 1 \notin T
    <3> HIDE DEF T
    <3> QED
      BY <2>1, <2>2, <2>5
  <2>7. half[m - 1] = h[m - 1]
    BY <2>5, <2>6
  <2>8. half[m] = half[m - 1] \div 2 /\ h[m] = h[m - 1] \div 2
    BY <1>3, <1>7, <2>3, <2>4
  <2> QED
    BY <2>3, <2>7, <2>8
<1> QED
  BY <1>1, <1>8

LEMMA ZeroWord == WordOf(0) = {}
<1> DEFINE h == [i \in 0 .. 31 |-> 0]
<1>1. \A i \in 0 .. 31 : h[i] = 0
  OBVIOUS
<1>2. h \in [0 .. 31 -> Nat]
  OBVIOUS
<1> HIDE DEF h
<1>3. Halving(h, 0, 31)
  <2>1. \A i \in 0 .. 31 - 1 : i \in 0 .. 31 /\ i + 1 \in 0 .. 31
    OBVIOUS
  <2> QED
    BY <1>1, <1>2, <2>1 DEF Halving
<1> QED
  BY <1>1, <1>3, WordOfHalves

(* Counting on by one adds one.                                            *)
LEMMA NextWord ==
  ASSUME NEW n \in Nat
  PROVE  WordOf(n + 1) = WrappingAdd(WordOf(n), One)
<1> PICK h : Halving(h, n, 31)
  BY HalvingExists
<1> PICK g : Halving(g, n + 1, 31)
  BY HalvingExists
<1> PICK x : x = WordOf(n)
  OBVIOUS
<1>1. x = {i \in 0 .. 31 : h[i] % 2 = 1} /\ WordOf(n + 1) = {i \in 0 .. 31 : g[i] % 2 = 1}
  BY WordOfHalves
<1>2. x \in Word /\ One \in Word
  BY <1>1 DEF Word, One
<1>3. /\ h \in [0 .. 31 -> Nat] /\ h[0] = n /\ \A i \in 0 .. 30 : h[i + 1] = h[i] \div 2
      /\ g \in [0 .. 31 -> Nat] /\ g[0] = n + 1 /\ \A i \in 0 .. 30 : g[i + 1] = g[i] \div 2
  BY DEF Halving
<1> DEFINE More(i) == (Carry(x, One, i) /\ g[i] = h[i] + 1) \/ (~Carry(x, One, i) /\ g[i] = h[i])
<1>4. ASSUME NEW i \in 0 .. 30
      PROVE  Carry(x, One, i + 1) <=> h[i] % 2 = 1 /\ (i = 0 \/ Carry(x, One, i))
  <2>1. Carry(x, One, i + 1) <=> CarryOut(i \in x, i \in One, Carry(x, One, i))
    BY <1>2, CarryNext, Zenon
  <2>2. i \in x <=> h[i] % 2 = 1
    BY <1>1
  <2>3. i \in One <=> i = 0
    BY DEF One
  <2>4. i = 0 => ~Carry(x, One, i)
    BY <1>2, CarryStep
  <2> QED
    BY <2>1, <2>2, <2>3, <2>4 DEF CarryOut
<1>5. More(1)
  <2>1. Carry(x, One, 1) <=> h[0] % 2 = 1
    <3>1. Carry(x, One, 0 + 1) <=> h[0] % 2 = 1
      BY <1>4
    <3> QED
      BY <3>1
  <2>2. h[1] = n \div 2 /\ g[1] = (n + 1) \div 2
    <3>1. h[0 + 1] = n \div 2 /\ g[0 + 1] = (n + 1) \div 2
      BY <1>3
    <3> QED
      BY <3>1
  <2>3. (n + 1) \div 2 = IF n % 2 = 1 THEN n \div 2 + 1 ELSE n \div 2
    OBVIOUS
  <2> QED
    BY <1>3, <2>1, <2>2, <2>3
<1>6. ASSUME NEW i \in 1 .. 30, More(i) PROVE More(i + 1)
  <2> PICK p \in Nat : p = h[i]
    BY <1>3
  <2>1. h[i + 1] = p \div 2 /\ g[i + 1] = g[i] \div 2
    BY <1>3
  <2>2. Carry(x, One, i + 1) <=> p % 2 = 1 /\ Carry(x, One, i)
    BY <1>4
  <2>3. CASE Carry(x, One, i)
    <3>1. g[i + 1] = (p + 1) \div 2
      BY <1>6, <2>1, <2>3
    <3>2. (p + 1) \div 2 = IF p % 2 = 1 THEN p \div 2 + 1 ELSE p \div 2
      OBVIOUS
    <3> QED
      BY <2>1, <2>2, <2>3, <3>1, <3>2
  <2>4. CASE ~Carry(x, One, i)
    BY <1>6, <2>1, <2>2, <2>4
  <2> QED
    BY <2>3, <2>4
<1>7. \A i \in 1 .. 31 : More(i)
  <2> HIDE DEF More
  <2> DEFINE T == {i \in 1 .. 31 : ~More(i)}
  <2> SUFFICES ASSUME T # {} PROVE FALSE
    OBVIOUS
  <2>1. T \subseteq Nat
    OBVIOUS
  <2>2. PICK m \in T : \A j \in T : m <= j
    <3> HIDE DEF T
    <3> QED
      BY <2>1, LeastNatural
  <2>3. m \in 1 .. 31 /\ ~More(m)
    OBVIOUS
  <2>4. m # 1
    BY <1>5, <2>3
  <2> PICK i \in 1 .. 30 : m = i + 1
    <3>1. m - 1 \in 1 .. 30 /\ m = (m - 1) + 1
      BY <2>3, <2>4
    <3> QED
      BY <3>1
  <2>5. i \notin T
    <3> HIDE DEF T
    <3>1. i < m /\ i \in Nat /\ m \in Nat
      BY <2>3
    <3> QED
      BY <2>2, <3>1
  <2> QED
    BY <1>6, <2>3, <2>5
<1>8. ASSUME NEW i \in 0 .. 31
      PROVE  g[i] % 2 = 1 <=> i \in WrappingAdd(x, One)
  <2> PICK p \in Nat : p = h[i]
    BY <1>3
  <2>1. i \in WrappingAdd(x, One) <=> SumOut(i \in x, i \in One, Carry(x, One, i))
    BY <1>2, SumBit
  <2>2. i \in x <=> p % 2 = 1
    BY <1>1
  <2>3. i \in One <=> i = 0
    BY DEF One
  <2>4. (p + 1) % 2 = 1 <=> ~(p % 2 = 1)
    OBVIOUS
  <2>5. CASE i = 0
    <3>1. ~Carry(x, One, i)
      BY <1>2, <2>5, CarryStep
    <3>2. g[i] = p + 1
      BY <1>3, <2>5
    <3> QED
      BY <2>1, <2>2, <2>3, <2>4, <2>5, <3>1, <3>2 DEF SumOut
  <2>6. CASE i # 0
    <3>1. More(i)
      BY <1>7, <2>6
    <3>2. (Carry(x, One, i) /\ g[i] = p + 1) \/ (~Carry(x, One, i) /\ g[i] = p)
      BY <3>1
    <3> QED
      BY <2>1, <2>2, <2>3, <2>4, <2>6, <3>2 DEF SumOut
  <2> QED
    BY <2>5, <2>6
<1>9. WrappingAdd(x, One) \subseteq 0 .. 31
  BY DEF WrappingAdd
<1> QED
  BY <1>1, <1>8, <1>9

-------------------------------------------------------------------------------
(* The quarter round.                                                      *)

Index == 0 .. 15
State == [Index -> Word]

\* the rotations of a quarter round
Turns == {7, 8, 12, 16}

Apart(a, b, d) == a # b /\ a # d /\ b # d

\* one half of half a quarter round loses nothing
HalfBack(w, a, b, d, n) ==
  Mix(w, a, b, d, n) \in State /\ Unmix(Mix(w, a, b, d, n), a, b, d, n) = w

LEMMA MixBack ==
  ASSUME NEW w \in State, NEW a \in Index, NEW b \in Index, NEW d \in Index,
         NEW n \in Turns, Apart(a, b, d)
  PROVE  HalfBack(w, a, b, d, n)
<1> DEFINE sum == WrappingAdd(w[a], w[b])
           x == Xor(w[d], sum)
           v == Mix(w, a, b, d, n)
<1>0. a # b /\ a # d /\ b # d
  BY DEF Apart
<1>1. w[a] \in Word /\ w[b] \in Word /\ w[d] \in Word
  BY DEF State
<1>2. sum \in Word /\ WrappingSub(sum, w[b]) = w[a]
  BY <1>1, SubAdd
<1>3. x \in Word /\ Xor(x, sum) = w[d]
  BY <1>1, <1>2, XorBack
<1>4. RotateLeft(x, n) \in Word /\ RotateRight(RotateLeft(x, n), n) = x
  <2>1. n \in 0 .. 31
    BY DEF Turns
  <2> QED
    BY <2>1, <1>3, RotateBack
<1>5. v = [w EXCEPT ![a] = sum, ![d] = RotateLeft(x, n)]
  BY DEF Mix
<1> HIDE DEF sum, x, v
<1>6. v \in State
  BY <1>2, <1>4, <1>5 DEF State
<1>7. /\ v[a] = sum /\ v[b] = w[b] /\ v[d] = RotateLeft(x, n)
      /\ \A k \in Index : k # a /\ k # d => v[k] = w[k]
  BY <1>0, <1>5 DEF State
<1>8. Unmix(v, a, b, d, n) = [v EXCEPT ![a] = w[a], ![d] = w[d]]
  BY <1>2, <1>3, <1>4, <1>7 DEF Unmix
<1>9. [v EXCEPT ![a] = w[a], ![d] = w[d]] = w
  BY <1>6, <1>7 DEF State
<1> QED
  BY <1>6, <1>8, <1>9 DEF v, HalfBack

Quarter == {q \in [1 .. 4 -> Index] : \A i, j \in 1 .. 4 : i # j => q[i] # q[j]}

(* Four halves, each undone in turn.                                       *)
QuarterMixed(w, a, b, c, d) ==
  Mix(Mix(Mix(Mix(w, a, b, d, 16), c, d, b, 12), a, b, d, 8), c, d, b, 7)
QuarterUnmixed(w, a, b, c, d) ==
  Unmix(Unmix(Unmix(Unmix(w, c, d, b, 7), a, b, d, 8), c, d, b, 12), a, b, d, 16)

QuarterBack(w, a, b, c, d) ==
  /\ QuarterMixed(w, a, b, c, d) \in State
  /\ QuarterUnmixed(QuarterMixed(w, a, b, c, d), a, b, c, d) = w

LEMMA FourMixesBack ==
  ASSUME NEW w \in State, NEW a \in Index, NEW b \in Index,
         NEW c \in Index, NEW d \in Index, Apart(a, b, d), Apart(c, d, b)
  PROVE  QuarterBack(w, a, b, c, d)
<1>1. \A v \in State, n \in Turns : HalfBack(v, a, b, d, n)
  BY MixBack, Zenon
<1>2. \A v \in State, n \in Turns : HalfBack(v, c, d, b, n)
  BY MixBack, Zenon
<1>3. 16 \in Turns /\ 12 \in Turns /\ 8 \in Turns /\ 7 \in Turns
  BY DEF Turns
<1> DEFINE w1 == Mix(w, a, b, d, 16)
           w2 == Mix(w1, c, d, b, 12)
           w3 == Mix(w2, a, b, d, 8)
           w4 == Mix(w3, c, d, b, 7)
<1>4. QuarterMixed(w, a, b, c, d) = w4
  BY DEF QuarterMixed
<1>5. w1 \in State /\ Unmix(w1, a, b, d, 16) = w
  BY <1>1, <1>3 DEF HalfBack
<1> HIDE DEF w1
<1>6. w2 \in State /\ Unmix(w2, c, d, b, 12) = w1
  BY <1>2, <1>3, <1>5 DEF HalfBack
<1> HIDE DEF w2
<1>7. w3 \in State /\ Unmix(w3, a, b, d, 8) = w2
  BY <1>1, <1>3, <1>6 DEF HalfBack
<1> HIDE DEF w3
<1>8. w4 \in State /\ Unmix(w4, c, d, b, 7) = w3
  BY <1>2, <1>3, <1>7 DEF HalfBack
<1> HIDE DEF w4
<1> QED
  BY <1>4, <1>5, <1>6, <1>7, <1>8 DEF QuarterUnmixed, QuarterBack

LEMMA QuarterRoundBack ==
  ASSUME NEW w \in State, NEW q \in Quarter
  PROVE  QuarterRound(w, q) \in State /\ UndoQuarterRound(QuarterRound(w, q), q) = w
<1>1. /\ q[1] \in Index /\ q[2] \in Index /\ q[3] \in Index /\ q[4] \in Index
      /\ Apart(q[1], q[2], q[4]) /\ Apart(q[3], q[4], q[2])
  BY DEF Quarter, Apart
<1>2. \A v : QuarterRound(v, q) = QuarterMixed(v, q[1], q[2], q[3], q[4])
  BY DEF QuarterRound, QuarterMixed
<1>3. \A v : UndoQuarterRound(v, q) = QuarterUnmixed(v, q[1], q[2], q[3], q[4])
  BY DEF UndoQuarterRound, QuarterUnmixed
<1>4. QuarterBack(w, q[1], q[2], q[3], q[4])
  BY <1>1, FourMixesBack, Zenon
<1> QED
  BY <1>2, <1>3, <1>4, Zenon DEF QuarterBack

LEMMA QuartersDistinct ==
  ASSUME NEW i \in 1 .. 8
  PROVE  Quarters[i] \in Quarter
<1>1. CASE i = 1
  BY <1>1 DEF Quarters, Quarter, Index
<1>2. CASE i = 2
  BY <1>2 DEF Quarters, Quarter, Index
<1>3. CASE i = 3
  BY <1>3 DEF Quarters, Quarter, Index
<1>4. CASE i = 4
  BY <1>4 DEF Quarters, Quarter, Index
<1>5. CASE i = 5
  BY <1>5 DEF Quarters, Quarter, Index
<1>6. CASE i = 6
  BY <1>6 DEF Quarters, Quarter, Index
<1>7. CASE i = 7
  BY <1>7 DEF Quarters, Quarter, Index
<1>8. CASE i = 8
  BY <1>8 DEF Quarters, Quarter, Index
<1> QED
  BY <1>1, <1>2, <1>3, <1>4, <1>5, <1>6, <1>7, <1>8

-------------------------------------------------------------------------------
(* The quarter rounds of the code and the rounds on rows.                  *)

(* A quarter round on four words alone.                                    *)
Quad(a, b, c, d) ==
  LET a1 == WrappingAdd(a, b)
      d1 == RotateLeft(Xor(d, a1), 16)
      c1 == WrappingAdd(c, d1)
      b1 == RotateLeft(Xor(b, c1), 12)
      a2 == WrappingAdd(a1, b1)
      d2 == RotateLeft(Xor(d1, a2), 8)
      c2 == WrappingAdd(c1, d2)
      b2 == RotateLeft(Xor(b1, c2), 7)
  IN <<a2, b2, c2, d2>>

(* What the words are after each of its halves.                            *)
QuadSteps(a, b, c, d, a1, d1, c1, b1, a2, d2, c2, b2) ==
  /\ a1 = WrappingAdd(a, b)   /\ d1 = RotateLeft(Xor(d, a1), 16)
  /\ c1 = WrappingAdd(c, d1)  /\ b1 = RotateLeft(Xor(b, c1), 12)
  /\ a2 = WrappingAdd(a1, b1) /\ d2 = RotateLeft(Xor(d1, a2), 8)
  /\ c2 = WrappingAdd(c1, d2) /\ b2 = RotateLeft(Xor(b1, c2), 7)

Four(q, a, b, c, d) == q[1] = a /\ q[2] = b /\ q[3] = c /\ q[4] = d

LEMMA QuadIs ==
  ASSUME NEW a, NEW b, NEW c, NEW d, NEW a1, NEW d1, NEW c1, NEW b1,
         NEW a2, NEW d2, NEW c2, NEW b2,
         QuadSteps(a, b, c, d, a1, d1, c1, b1, a2, d2, c2, b2)
  PROVE  Four(Quad(a, b, c, d), a2, b2, c2, d2)
<1>1. Quad(a, b, c, d) = <<a2, b2, c2, d2>>
  BY DEF Quad, QuadSteps
<1>2. Four(<<a2, b2, c2, d2>>, a2, b2, c2, d2)
  BY DEF Four
<1> QED
  BY <1>1, <1>2

HalfDone(v, w, a, b, d, n) ==
  /\ v \in State
  /\ v[a] = WrappingAdd(w[a], w[b])
  /\ v[d] = RotateLeft(Xor(w[d], WrappingAdd(w[a], w[b])), n)
  /\ \A k \in Index : k # a /\ k # d => v[k] = w[k]

LEMMA MixDone ==
  ASSUME NEW w \in State, NEW a \in Index, NEW b \in Index, NEW d \in Index,
         NEW n \in Turns, Apart(a, b, d)
  PROVE  HalfDone(Mix(w, a, b, d, n), w, a, b, d, n)
<1>1. Mix(w, a, b, d, n) \in State
  BY MixBack DEF HalfBack
<1>2. a # d
  BY DEF Apart
<1> DEFINE s == WrappingAdd(w[a], w[b])
           t == RotateLeft(Xor(w[d], s), n)
<1>3. Mix(w, a, b, d, n) = [w EXCEPT ![a] = s, ![d] = t]
  BY DEF Mix
<1> HIDE DEF s, t
<1>4. /\ [w EXCEPT ![a] = s, ![d] = t][a] = s
      /\ [w EXCEPT ![a] = s, ![d] = t][d] = t
      /\ \A k \in Index : k # a /\ k # d => [w EXCEPT ![a] = s, ![d] = t][k] = w[k]
  BY <1>2 DEF State
<1> QED
  BY <1>1, <1>3, <1>4 DEF HalfDone, s, t

QuarterDone(v, w, a, b, c, d) ==
  /\ v \in State
  /\ v[a] = Quad(w[a], w[b], w[c], w[d])[1] /\ v[b] = Quad(w[a], w[b], w[c], w[d])[2]
  /\ v[c] = Quad(w[a], w[b], w[c], w[d])[3] /\ v[d] = Quad(w[a], w[b], w[c], w[d])[4]
  /\ \A k \in Index : k # a /\ k # b /\ k # c /\ k # d => v[k] = w[k]

LEMMA FourMixesDone ==
  ASSUME NEW w \in State, NEW a \in Index, NEW b \in Index, NEW c \in Index, NEW d \in Index,
         Apart(a, b, d), Apart(c, d, b), a # c
  PROVE  QuarterDone(QuarterMixed(w, a, b, c, d), w, a, b, c, d)
<1>1. 16 \in Turns /\ 12 \in Turns /\ 8 \in Turns /\ 7 \in Turns
  BY DEF Turns
<1> PICK w1 : w1 = Mix(w, a, b, d, 16)
  OBVIOUS
<1>2. HalfDone(w1, w, a, b, d, 16)
  BY <1>1, MixDone, Zenon
<1>3. w1 \in State
  BY <1>2 DEF HalfDone
<1> PICK w2 : w2 = Mix(w1, c, d, b, 12)
  OBVIOUS
<1>4. HalfDone(w2, w1, c, d, b, 12)
  BY <1>1, <1>3, MixDone, Zenon
<1>5. w2 \in State
  BY <1>4 DEF HalfDone
<1> PICK w3 : w3 = Mix(w2, a, b, d, 8)
  OBVIOUS
<1>6. HalfDone(w3, w2, a, b, d, 8)
  BY <1>1, <1>5, MixDone, Zenon
<1>7. w3 \in State
  BY <1>6 DEF HalfDone
<1> PICK w4 : w4 = Mix(w3, c, d, b, 7)
  OBVIOUS
<1>8. HalfDone(w4, w3, c, d, b, 7)
  BY <1>1, <1>7, MixDone, Zenon
<1>9. QuarterMixed(w, a, b, c, d) = w4
  BY Zenon DEF QuarterMixed
<1>10. a # b /\ a # d /\ b # d /\ c # d /\ c # b /\ a # c
  BY DEF Apart
<1>11. /\ w1[a] = WrappingAdd(w[a], w[b])
       /\ w1[d] = RotateLeft(Xor(w[d], WrappingAdd(w[a], w[b])), 16)
       /\ w1[b] = w[b] /\ w1[c] = w[c]
  BY <1>2, <1>10 DEF HalfDone
<1>12. /\ w2[c] = WrappingAdd(w1[c], w1[d])
       /\ w2[b] = RotateLeft(Xor(w1[b], WrappingAdd(w1[c], w1[d])), 12)
       /\ w2[a] = w1[a] /\ w2[d] = w1[d]
  BY <1>4, <1>10 DEF HalfDone
<1>13. /\ w3[a] = WrappingAdd(w2[a], w2[b])
       /\ w3[d] = RotateLeft(Xor(w2[d], WrappingAdd(w2[a], w2[b])), 8)
       /\ w3[b] = w2[b] /\ w3[c] = w2[c]
  BY <1>6, <1>10 DEF HalfDone
<1>14. /\ w4[c] = WrappingAdd(w3[c], w3[d])
       /\ w4[b] = RotateLeft(Xor(w3[b], WrappingAdd(w3[c], w3[d])), 7)
       /\ w4[a] = w3[a] /\ w4[d] = w3[d]
  BY <1>8, <1>10 DEF HalfDone
<1>15. Four(Quad(w[a], w[b], w[c], w[d]), w4[a], w4[b], w4[c], w4[d])
  <2>1. QuadSteps(w[a], w[b], w[c], w[d],
                  w1[a], w1[d], w2[c], w2[b], w3[a], w3[d], w4[c], w4[b])
    BY <1>11, <1>12, <1>13, <1>14 DEF QuadSteps
  <2>2. Four(Quad(w[a], w[b], w[c], w[d]), w3[a], w4[b], w4[c], w3[d])
    BY <2>1, QuadIs
  <2> QED
    BY <1>14, <2>2
<1>16. \A k \in Index : k # a /\ k # b /\ k # c /\ k # d => w4[k] = w[k]
  BY <1>2, <1>4, <1>6, <1>8 DEF HalfDone
<1>17. w4 \in State
  BY <1>8 DEF HalfDone
<1> QED
  BY <1>9, <1>15, <1>16, <1>17 DEF QuarterDone, Four

(* What quarter round q leaves in v of the words w.                        *)
QuarterIs(v, w, q) == QuarterDone(v, w, q[1], q[2], q[3], q[4])

LEMMA QuarterRoundIs ==
  ASSUME NEW w \in State, NEW q \in Quarter
  PROVE  QuarterIs(QuarterRound(w, q), w, q)
<1>1. /\ q[1] \in Index /\ q[2] \in Index /\ q[3] \in Index /\ q[4] \in Index
      /\ Apart(q[1], q[2], q[4]) /\ Apart(q[3], q[4], q[2]) /\ q[1] # q[3]
  BY DEF Quarter, Apart
<1>2. QuarterRound(w, q) = QuarterMixed(w, q[1], q[2], q[3], q[4])
  BY DEF QuarterRound, QuarterMixed
<1>3. QuarterDone(QuarterMixed(w, q[1], q[2], q[3], q[4]), w, q[1], q[2], q[3], q[4])
  BY <1>1, FourMixesDone, Zenon
<1> QED
  BY <1>2, <1>3, Zenon DEF QuarterIs

\* the words q names, worked on alone
Alone(w, q) == Quad(w[q[1]], w[q[2]], w[q[3]], w[q[4]])

Disjoint(p, q) == \A i, j \in 1 .. 4 : p[i] # q[j]

(* Word q[k] of v is what the quarter round on w's words of q makes it.    *)
Worked(v, w, q) == \A k \in 1 .. 4 : v[q[k]] = Alone(w, q)[k]
Untouched(v, w, q) == \A k \in 1 .. 4 : v[q[k]] = w[q[k]]

LEMMA QuarterWorked ==
  ASSUME NEW w \in State, NEW q \in Quarter
  PROVE  QuarterRound(w, q) \in State /\ Worked(QuarterRound(w, q), w, q)
<1> PICK v : v = QuarterRound(w, q)
  OBVIOUS
<1>1. QuarterDone(v, w, q[1], q[2], q[3], q[4])
  BY QuarterRoundIs DEF QuarterIs
<1>2. \A k \in 1 .. 4 : k = 1 \/ k = 2 \/ k = 3 \/ k = 4
  OBVIOUS
<1>3. v[q[1]] = Alone(w, q)[1] /\ v[q[2]] = Alone(w, q)[2]
      /\ v[q[3]] = Alone(w, q)[3] /\ v[q[4]] = Alone(w, q)[4]
  BY <1>1 DEF QuarterDone, Alone
<1>4. v \in State
  BY <1>1 DEF QuarterDone
<1> QED
  BY <1>2, <1>3, <1>4 DEF Worked

LEMMA OthersUntouched ==
  ASSUME NEW w \in State, NEW q \in Quarter, NEW p \in Quarter, Disjoint(p, q)
  PROVE  Untouched(QuarterRound(w, q), w, p)
<1> PICK v : v = QuarterRound(w, q)
  OBVIOUS
<1>1. QuarterDone(v, w, q[1], q[2], q[3], q[4])
  BY QuarterRoundIs DEF QuarterIs
<1>2. \A k \in Index : k # q[1] /\ k # q[2] /\ k # q[3] /\ k # q[4] => v[k] = w[k]
  BY <1>1 DEF QuarterDone
<1>3. \A k \in 1 .. 4 : p[k] \in Index /\ p[k] # q[1] /\ p[k] # q[2] /\ p[k] # q[3] /\ p[k] # q[4]
  BY DEF Quarter, Disjoint
<1> QED
  BY <1>2, <1>3 DEF Untouched

LEMMA AloneSame ==
  ASSUME NEW v, NEW w, NEW q, Untouched(v, w, q)
  PROVE  Alone(v, q) = Alone(w, q)
<1>1. v[q[1]] = w[q[1]] /\ v[q[2]] = w[q[2]] /\ v[q[3]] = w[q[3]] /\ v[q[4]] = w[q[4]]
  BY DEF Untouched
<1> QED
  BY <1>1 DEF Alone

LEMMA UntouchedTwice ==
  ASSUME NEW u, NEW v, NEW w, NEW q, Untouched(u, v, q), Untouched(v, w, q)
  PROVE  Untouched(u, w, q)
BY DEF Untouched

LEMMA WorkedThenUntouched ==
  ASSUME NEW u, NEW v, NEW w, NEW q, Untouched(u, v, q), Worked(v, w, q)
  PROVE  Worked(u, w, q)
BY DEF Untouched, Worked

LEMMA UntouchedThenWorked ==
  ASSUME NEW u, NEW v, NEW w, NEW q, Worked(u, v, q), Untouched(v, w, q)
  PROVE  Worked(u, w, q)
<1>1. Alone(v, q) = Alone(w, q)
  BY AloneSame
<1> QED
  BY <1>1 DEF Worked

FourQuarters(w, p, q, r, s) ==
  QuarterRound(QuarterRound(QuarterRound(QuarterRound(w, p), q), r), s)

AllWorked(v, w, p, q, r, s) ==
  v \in State /\ Worked(v, w, p) /\ Worked(v, w, q) /\ Worked(v, w, r) /\ Worked(v, w, s)

(* Quarter rounds on words of their own do not see each other.             *)
LEMMA FourWorked ==
  ASSUME NEW w \in State,
         NEW p \in Quarter, NEW q \in Quarter, NEW r \in Quarter, NEW s \in Quarter,
         Disjoint(p, q), Disjoint(p, r), Disjoint(p, s),
         Disjoint(q, r), Disjoint(q, s), Disjoint(r, s)
  PROVE  AllWorked(FourQuarters(w, p, q, r, s), w, p, q, r, s)
<1>0. Disjoint(q, p) /\ Disjoint(r, p) /\ Disjoint(s, p) /\ Disjoint(r, q) /\ Disjoint(s, q)
      /\ Disjoint(s, r)
  BY DEF Disjoint
<1> PICK v1 : v1 = QuarterRound(w, p)
  OBVIOUS
<1>1. v1 \in State /\ Worked(v1, w, p)
  BY QuarterWorked
<1>2. Untouched(v1, w, q) /\ Untouched(v1, w, r) /\ Untouched(v1, w, s)
  BY <1>0, OthersUntouched
<1> PICK v2 : v2 = QuarterRound(v1, q)
  OBVIOUS
<1>3. v2 \in State /\ Worked(v2, v1, q)
  BY <1>1, QuarterWorked
<1>4. Untouched(v2, v1, p) /\ Untouched(v2, v1, r) /\ Untouched(v2, v1, s)
  BY <1>0, <1>1, OthersUntouched
<1>5. Worked(v2, w, p) /\ Worked(v2, w, q) /\ Untouched(v2, w, r) /\ Untouched(v2, w, s)
  BY <1>1, <1>2, <1>3, <1>4, WorkedThenUntouched, UntouchedThenWorked, UntouchedTwice, Zenon
<1> PICK v3 : v3 = QuarterRound(v2, r)
  OBVIOUS
<1>6. v3 \in State /\ Worked(v3, v2, r)
  BY <1>3, QuarterWorked
<1>7. Untouched(v3, v2, p) /\ Untouched(v3, v2, q) /\ Untouched(v3, v2, s)
  BY <1>0, <1>3, OthersUntouched
<1>8. Worked(v3, w, p) /\ Worked(v3, w, q) /\ Worked(v3, w, r) /\ Untouched(v3, w, s)
  BY <1>5, <1>6, <1>7, WorkedThenUntouched, UntouchedThenWorked, UntouchedTwice, Zenon
<1> PICK v4 : v4 = QuarterRound(v3, s)
  OBVIOUS
<1>9. v4 \in State /\ Worked(v4, v3, s)
  BY <1>6, QuarterWorked
<1>10. Untouched(v4, v3, p) /\ Untouched(v4, v3, q) /\ Untouched(v4, v3, r)
  BY <1>0, <1>6, OthersUntouched
<1>11. Worked(v4, w, p) /\ Worked(v4, w, q) /\ Worked(v4, w, r) /\ Worked(v4, w, s)
  BY <1>8, <1>9, <1>10, WorkedThenUntouched, UntouchedThenWorked, Zenon
<1>12. FourQuarters(w, p, q, r, s) = v4
  BY Zenon DEF FourQuarters
<1> QED
  BY <1>9, <1>11, <1>12, Zenon DEF AllWorked

(* The columns and the diagonals, by row.                                  *)
Column(c) == [r \in 1 .. 4 |-> 4 * (r - 1) + c - 1]
Diagonal(c) == [r \in 1 .. 4 |-> 4 * (r - 1) + ((c - 1 + (r - 1)) % 4)]

LEMMA QuartersAre ==
  /\ Quarters[1] = Column(1) /\ Quarters[2] = Column(2)
  /\ Quarters[3] = Column(3) /\ Quarters[4] = Column(4)
  /\ Quarters[5] = Diagonal(1) /\ Quarters[6] = Diagonal(2)
  /\ Quarters[7] = Diagonal(3) /\ Quarters[8] = Diagonal(4)
<1>1. 1 .. 4 = {1, 2, 3, 4}
  OBVIOUS
<1>2. ASSUME NEW f, NEW a, NEW b, NEW c, NEW d, f \in [1 .. 4 -> Int],
             f[1] = a, f[2] = b, f[3] = c, f[4] = d
      PROVE  <<a, b, c, d>> = f
  BY <1>1, <1>2
<1>3. \A c \in 1 .. 4 : Column(c) \in [1 .. 4 -> Int] /\ Diagonal(c) \in [1 .. 4 -> Int]
  BY DEF Column, Diagonal
<1> QED
  BY <1>1, <1>2, <1>3 DEF Quarters, Column, Diagonal

LEMMA QuartersDisjoint ==
  /\ Disjoint(Quarters[1], Quarters[2]) /\ Disjoint(Quarters[1], Quarters[3])
  /\ Disjoint(Quarters[1], Quarters[4]) /\ Disjoint(Quarters[2], Quarters[3])
  /\ Disjoint(Quarters[2], Quarters[4]) /\ Disjoint(Quarters[3], Quarters[4])
  /\ Disjoint(Quarters[5], Quarters[6]) /\ Disjoint(Quarters[5], Quarters[7])
  /\ Disjoint(Quarters[5], Quarters[8]) /\ Disjoint(Quarters[6], Quarters[7])
  /\ Disjoint(Quarters[6], Quarters[8]) /\ Disjoint(Quarters[7], Quarters[8])
<1>1. 1 .. 4 = {1, 2, 3, 4}
  OBVIOUS
<1> QED
  BY <1>1 DEF Quarters, Disjoint

Row == [1 .. 4 -> Word]
Matrix == [1 .. 4 -> Row]

(* A row of four words.                                                    *)
LEMMA RowOf ==
  ASSUME NEW a \in Word, NEW b \in Word, NEW c \in Word, NEW d \in Word
  PROVE  /\ <<a, b, c, d>> \in Row
         /\ <<a, b, c, d>>[1] = a /\ <<a, b, c, d>>[2] = b
         /\ <<a, b, c, d>>[3] = c /\ <<a, b, c, d>>[4] = d
BY DEF Row

LEMMA Words ==
  /\ \A x, y : WrappingAdd(x, y) \in Word
  /\ \A x, n : RotateLeft(x, n) \in Word
BY DEF WrappingAdd, RotateLeft, Word

RowsDone(v, m, x, y, z, n) ==
  /\ v \in Matrix
  /\ \A c \in 1 .. 4 :
       /\ v[x][c] = WrappingAdd(m[x][c], m[y][c])
       /\ v[z][c] = RotateLeft(Xor(m[z][c], WrappingAdd(m[x][c], m[y][c])), n)
  /\ \A r \in 1 .. 4 : r # x /\ r # z => v[r] = m[r]

LEMMA MixRowsDone ==
  ASSUME NEW m \in Matrix, NEW x \in 1 .. 4, NEW y \in 1 .. 4, NEW z \in 1 .. 4, NEW n, x # z
  PROVE  RowsDone(MixRows(m, x, y, z, n), m, x, y, z, n)
<1> PICK s : s = Grown(m[x], m[y])
  OBVIOUS
<1> PICK t : t = Turned(m[z], s, n)
  OBVIOUS
<1>1. MixRows(m, x, y, z, n) = [m EXCEPT ![x] = s, ![z] = t]
  BY DEF MixRows
<1>2. \A c \in 1 .. 4 : c = 1 \/ c = 2 \/ c = 3 \/ c = 4
  OBVIOUS
<1>3. s \in Row /\ \A c \in 1 .. 4 : s[c] = WrappingAdd(m[x][c], m[y][c])
  <2>1. /\ s \in Row
        /\ s[1] = WrappingAdd(m[x][1], m[y][1]) /\ s[2] = WrappingAdd(m[x][2], m[y][2])
        /\ s[3] = WrappingAdd(m[x][3], m[y][3]) /\ s[4] = WrappingAdd(m[x][4], m[y][4])
    BY Words, RowOf DEF Grown
  <2> QED
    BY <1>2, <2>1
<1>4. t \in Row /\ \A c \in 1 .. 4 : t[c] = RotateLeft(Xor(m[z][c], s[c]), n)
  <2>1. /\ t \in Row
        /\ t[1] = RotateLeft(Xor(m[z][1], s[1]), n) /\ t[2] = RotateLeft(Xor(m[z][2], s[2]), n)
        /\ t[3] = RotateLeft(Xor(m[z][3], s[3]), n) /\ t[4] = RotateLeft(Xor(m[z][4], s[4]), n)
    BY Words, RowOf DEF Turned
  <2> QED
    BY <1>2, <2>1
<1> PICK v : v = [m EXCEPT ![x] = s, ![z] = t]
  OBVIOUS
<1>5. /\ v \in Matrix /\ v[x] = s /\ v[z] = t
      /\ \A r \in 1 .. 4 : r # x /\ r # z => v[r] = m[r]
  BY <1>3, <1>4 DEF Matrix
<1>6. \A c \in 1 .. 4 :
        /\ v[x][c] = WrappingAdd(m[x][c], m[y][c])
        /\ v[z][c] = RotateLeft(Xor(m[z][c], WrappingAdd(m[x][c], m[y][c])), n)
  BY <1>3, <1>4, <1>5, Zenon
<1> QED
  BY <1>1, <1>5, <1>6, Zenon DEF RowsDone

(* A round works on the four words of each column as a quarter round does. *)
LEMMA ColumnRoundIs ==
  ASSUME NEW m \in Matrix
  PROVE  /\ ColumnRound(m) \in Matrix
         /\ \A r, c \in 1 .. 4 :
              ColumnRound(m)[r][c] = Quad(m[1][c], m[2][c], m[3][c], m[4][c])[r]
<1> PICK m1 : m1 = MixRows(m, 1, 2, 4, 16)
  OBVIOUS
<1>1. RowsDone(m1, m, 1, 2, 4, 16)
  BY MixRowsDone
<1>2. m1 \in Matrix
  BY <1>1 DEF RowsDone
<1> PICK m2 : m2 = MixRows(m1, 3, 4, 2, 12)
  OBVIOUS
<1>3. RowsDone(m2, m1, 3, 4, 2, 12)
  BY <1>2, MixRowsDone
<1>4. m2 \in Matrix
  BY <1>3 DEF RowsDone
<1> PICK m3 : m3 = MixRows(m2, 1, 2, 4, 8)
  OBVIOUS
<1>5. RowsDone(m3, m2, 1, 2, 4, 8)
  BY <1>4, MixRowsDone
<1>6. m3 \in Matrix
  BY <1>5 DEF RowsDone
<1> PICK m4 : m4 = MixRows(m3, 3, 4, 2, 7)
  OBVIOUS
<1>7. RowsDone(m4, m3, 3, 4, 2, 7)
  BY <1>6, MixRowsDone
<1>8. m4 \in Matrix
  BY <1>7 DEF RowsDone
<1>9. ColumnRound(m) = m4
  BY Zenon DEF ColumnRound
<1>10. ASSUME NEW c \in 1 .. 4
       PROVE  /\ m4[1][c] = Quad(m[1][c], m[2][c], m[3][c], m[4][c])[1]
              /\ m4[2][c] = Quad(m[1][c], m[2][c], m[3][c], m[4][c])[2]
              /\ m4[3][c] = Quad(m[1][c], m[2][c], m[3][c], m[4][c])[3]
              /\ m4[4][c] = Quad(m[1][c], m[2][c], m[3][c], m[4][c])[4]
  <2>1. /\ m1[1][c] = WrappingAdd(m[1][c], m[2][c])
        /\ m1[4][c] = RotateLeft(Xor(m[4][c], WrappingAdd(m[1][c], m[2][c])), 16)
        /\ m1[2] = m[2] /\ m1[3] = m[3]
    BY <1>1 DEF RowsDone
  <2>2. /\ m2[3][c] = WrappingAdd(m1[3][c], m1[4][c])
        /\ m2[2][c] = RotateLeft(Xor(m1[2][c], WrappingAdd(m1[3][c], m1[4][c])), 12)
        /\ m2[1] = m1[1] /\ m2[4] = m1[4]
    BY <1>3 DEF RowsDone
  <2>3. /\ m3[1][c] = WrappingAdd(m2[1][c], m2[2][c])
        /\ m3[4][c] = RotateLeft(Xor(m2[4][c], WrappingAdd(m2[1][c], m2[2][c])), 8)
        /\ m3[2] = m2[2] /\ m3[3] = m2[3]
    BY <1>5 DEF RowsDone
  <2>4. /\ m4[3][c] = WrappingAdd(m3[3][c], m3[4][c])
        /\ m4[2][c] = RotateLeft(Xor(m3[2][c], WrappingAdd(m3[3][c], m3[4][c])), 7)
        /\ m4[1] = m3[1] /\ m4[4] = m3[4]
    BY <1>7 DEF RowsDone
  <2>5. QuadSteps(m[1][c], m[2][c], m[3][c], m[4][c],
                  m1[1][c], m1[4][c], m2[3][c], m2[2][c], m3[1][c], m3[4][c], m4[3][c], m4[2][c])
    BY <2>1, <2>2, <2>3, <2>4 DEF QuadSteps
  <2>6. Four(Quad(m[1][c], m[2][c], m[3][c], m[4][c]),
             m3[1][c], m4[2][c], m4[3][c], m3[4][c])
    BY <2>5, QuadIs
  <2> QED
    BY <2>4, <2>6 DEF Four
<1>11. \A r \in 1 .. 4 : r = 1 \/ r = 2 \/ r = 3 \/ r = 4
  OBVIOUS
<1>12. ASSUME NEW r \in 1 .. 4, NEW c \in 1 .. 4
       PROVE  m4[r][c] = Quad(m[1][c], m[2][c], m[3][c], m[4][c])[r]
  BY <1>10, <1>11
<1> QED
  BY <1>8, <1>9, <1>12, Zenon

(* A row moved round by n words.                                           *)
LEMMA MovedRow ==
  ASSUME NEW q \in Row, NEW n \in Nat
  PROVE  LET moved == <<q[(n % 4) + 1], q[((n + 1) % 4) + 1],
                        q[((n + 2) % 4) + 1], q[((n + 3) % 4) + 1]>>
         IN moved \in Row /\ \A c \in 1 .. 4 : moved[c] = q[((c - 1 + n) % 4) + 1]
<1> DEFINE at(c) == ((c - 1 + n) % 4) + 1
<1>1. at(1) = (n % 4) + 1 /\ at(2) = ((n + 1) % 4) + 1
      /\ at(3) = ((n + 2) % 4) + 1 /\ at(4) = ((n + 3) % 4) + 1
  OBVIOUS
<1>2. \A c \in 1 .. 4 : at(c) \in 1 .. 4
  OBVIOUS
<1> HIDE DEF at
<1>3. \A c \in 1 .. 4 : q[at(c)] \in Word
  BY <1>2 DEF Row
<1>4. 1 \in 1 .. 4 /\ 2 \in 1 .. 4 /\ 3 \in 1 .. 4 /\ 4 \in 1 .. 4
  OBVIOUS
<1> PICK v : v = <<q[at(1)], q[at(2)], q[at(3)], q[at(4)]>>
  OBVIOUS
<1>5. v \in Row /\ v[1] = q[at(1)] /\ v[2] = q[at(2)] /\ v[3] = q[at(3)] /\ v[4] = q[at(4)]
  BY <1>3, <1>4, RowOf
<1>6. \A c \in 1 .. 4 : c = 1 \/ c = 2 \/ c = 3 \/ c = 4
  OBVIOUS
<1>7. \A c \in 1 .. 4 : v[c] = q[at(c)]
  BY <1>5, <1>6
<1>8. v = <<q[(n % 4) + 1], q[((n + 1) % 4) + 1], q[((n + 2) % 4) + 1], q[((n + 3) % 4) + 1]>>
  BY <1>1
<1> QED
  BY <1>5, <1>7, <1>8 DEF at

(* Row r is moved round by k(r-1) words.                                   *)
LEMMA SlideIs ==
  ASSUME NEW m \in Matrix, NEW k \in Nat
  PROVE  /\ Slide(m, k) \in Matrix
         /\ \A r, c \in 1 .. 4 :
              Slide(m, k)[r][c] = m[r][((c - 1 + k * (r - 1)) % 4) + 1]
<1> DEFINE left(q, n) == <<q[(n % 4) + 1], q[((n + 1) % 4) + 1],
                           q[((n + 2) % 4) + 1], q[((n + 3) % 4) + 1]>>
<1>1. \A q \in Row, n \in Nat :
        left(q, n) \in Row /\ \A c \in 1 .. 4 : left(q, n)[c] = q[((c - 1 + n) % 4) + 1]
  BY MovedRow
<1>2. Slide(m, k) = <<m[1], left(m[2], k), left(m[3], 2 * k), left(m[4], 3 * k)>>
  BY DEF Slide
<1> HIDE DEF left
<1>3. m[1] \in Row /\ m[2] \in Row /\ m[3] \in Row /\ m[4] \in Row
  BY DEF Matrix
<1> PICK m2 : m2 = left(m[2], k)
  OBVIOUS
<1> PICK m3 : m3 = left(m[3], 2 * k)
  OBVIOUS
<1> PICK m4 : m4 = left(m[4], 3 * k)
  OBVIOUS
<1>4. m2 \in Row /\ \A c \in 1 .. 4 : m2[c] = m[2][((c - 1 + k) % 4) + 1]
  BY <1>1, <1>3
<1>5. m3 \in Row /\ \A c \in 1 .. 4 : m3[c] = m[3][((c - 1 + 2 * k) % 4) + 1]
  <2>1. 2 * k \in Nat
    OBVIOUS
  <2> QED
    BY <1>1, <1>3, <2>1
<1>6. m4 \in Row /\ \A c \in 1 .. 4 : m4[c] = m[4][((c - 1 + 3 * k) % 4) + 1]
  <2>1. 3 * k \in Nat
    OBVIOUS
  <2> QED
    BY <1>1, <1>3, <2>1
<1> PICK v : v = <<m[1], m2, m3, m4>>
  OBVIOUS
<1>7. v \in Matrix /\ v[1] = m[1] /\ v[2] = m2 /\ v[3] = m3 /\ v[4] = m4
  BY <1>3, <1>4, <1>5, <1>6 DEF Matrix
<1>8. ASSUME NEW r \in 1 .. 4, NEW c \in 1 .. 4
      PROVE  v[r][c] = m[r][((c - 1 + k * (r - 1)) % 4) + 1]
  <2>1. CASE r = 1
    <3>1. ((c - 1 + k * (r - 1)) % 4) + 1 = c
      <4>1. k * (r - 1) = 0
        BY <2>1
      <4> QED
        BY <4>1
    <3> QED
      BY <1>7, <2>1, <3>1
  <2>2. CASE r = 2
    <3>1. k * (r - 1) = k
      BY <2>2
    <3> QED
      BY <1>4, <1>7, <2>2, <3>1
  <2>3. CASE r = 3
    <3>1. k * (r - 1) = 2 * k
      BY <2>3
    <3> QED
      BY <1>5, <1>7, <2>3, <3>1
  <2>4. CASE r = 4
    <3>1. k * (r - 1) = 3 * k
      BY <2>4
    <3> QED
      BY <1>6, <1>7, <2>4, <3>1
  <2> QED
    BY <2>1, <2>2, <2>3, <2>4
<1> QED
  BY <1>2, <1>7, <1>8

LEMMA MatrixEqual ==
  ASSUME NEW a \in Matrix, NEW b \in Matrix, \A r, c \in 1 .. 4 : a[r][c] = b[r][c]
  PROVE  a = b
<1>1. \A r \in 1 .. 4 : a[r] \in Row /\ b[r] \in Row
  BY DEF Matrix
<1>2. \A r \in 1 .. 4 : a[r] = b[r]
  BY <1>1 DEF Row
<1> QED
  BY <1>2 DEF Matrix

LEMMA RowsIs ==
  ASSUME NEW w \in State
  PROVE  /\ Rows(w) \in Matrix
         /\ \A r, c \in 1 .. 4 : Rows(w)[r][c] = w[4 * (r - 1) + c - 1]
<1>1. \A r, c \in 1 .. 4 : 4 * (r - 1) + c - 1 \in Index
  BY DEF Index
<1>2. \A r, c \in 1 .. 4 : w[4 * (r - 1) + c - 1] \in Word
  BY <1>1 DEF State
<1> QED
  BY <1>2 DEF Rows, Matrix, Row

(* Four quarter rounds on the columns are a round on the rows.             *)
Columns(w) == FourQuarters(w, Quarters[1], Quarters[2], Quarters[3], Quarters[4])
Diagonals(w) == FourQuarters(w, Quarters[5], Quarters[6], Quarters[7], Quarters[8])

LEMMA ColumnsWorked ==
  ASSUME NEW w \in State
  PROVE  Columns(w) \in State /\ \A c \in 1 .. 4 : Worked(Columns(w), w, Column(c))
<1>1. /\ Quarters[1] \in Quarter /\ Quarters[2] \in Quarter
      /\ Quarters[3] \in Quarter /\ Quarters[4] \in Quarter
  BY QuartersDistinct
<1>2. AllWorked(Columns(w), w, Quarters[1], Quarters[2], Quarters[3], Quarters[4])
  BY <1>1, QuartersDisjoint, FourWorked DEF Columns
<1>3. AllWorked(Columns(w), w, Column(1), Column(2), Column(3), Column(4))
  BY <1>2, QuartersAre
<1>4. \A c \in 1 .. 4 : c = 1 \/ c = 2 \/ c = 3 \/ c = 4
  OBVIOUS
<1> QED
  BY <1>3, <1>4 DEF AllWorked

LEMMA DiagonalsWorked ==
  ASSUME NEW w \in State
  PROVE  Diagonals(w) \in State /\ \A c \in 1 .. 4 : Worked(Diagonals(w), w, Diagonal(c))
<1>1. /\ Quarters[5] \in Quarter /\ Quarters[6] \in Quarter
      /\ Quarters[7] \in Quarter /\ Quarters[8] \in Quarter
  BY QuartersDistinct
<1>2. AllWorked(Diagonals(w), w, Quarters[5], Quarters[6], Quarters[7], Quarters[8])
  BY <1>1, QuartersDisjoint, FourWorked DEF Diagonals
<1>3. AllWorked(Diagonals(w), w, Diagonal(1), Diagonal(2), Diagonal(3), Diagonal(4))
  BY <1>2, QuartersAre
<1>4. \A c \in 1 .. 4 : c = 1 \/ c = 2 \/ c = 3 \/ c = 4
  OBVIOUS
<1> QED
  BY <1>3, <1>4 DEF AllWorked

LEMMA ColumnsAreRound ==
  ASSUME NEW w \in State
  PROVE  Rows(Columns(w)) = ColumnRound(Rows(w))
<1> PICK v : v = Columns(w)
  OBVIOUS
<1>1. v \in State /\ \A c \in 1 .. 4 : Worked(v, w, Column(c))
  BY ColumnsWorked
<1>2. Rows(v) \in Matrix /\ Rows(w) \in Matrix
  BY <1>1, RowsIs
<1>3. ColumnRound(Rows(w)) \in Matrix
  BY <1>2, ColumnRoundIs
<1>4. \A r, c \in 1 .. 4 : Column(c)[r] = 4 * (r - 1) + c - 1
  BY DEF Column
<1>5. \A r, c \in 1 .. 4 : Rows(v)[r][c] = v[Column(c)[r]] /\ Rows(w)[r][c] = w[Column(c)[r]]
  BY <1>1, <1>4, RowsIs
<1>6. ASSUME NEW r \in 1 .. 4, NEW c \in 1 .. 4
      PROVE  Rows(v)[r][c] = ColumnRound(Rows(w))[r][c]
  <2>1. v[Column(c)[r]] = Alone(w, Column(c))[r]
    BY <1>1 DEF Worked
  <2>2. /\ Rows(w)[1][c] = w[Column(c)[1]] /\ Rows(w)[2][c] = w[Column(c)[2]]
        /\ Rows(w)[3][c] = w[Column(c)[3]] /\ Rows(w)[4][c] = w[Column(c)[4]]
    BY <1>5
  <2>3. Alone(w, Column(c)) = Quad(Rows(w)[1][c], Rows(w)[2][c], Rows(w)[3][c], Rows(w)[4][c])
    BY <2>2, Zenon DEF Alone
  <2>4. ColumnRound(Rows(w))[r][c]
          = Quad(Rows(w)[1][c], Rows(w)[2][c], Rows(w)[3][c], Rows(w)[4][c])[r]
    BY <1>2, ColumnRoundIs
  <2> QED
    BY <1>5, <2>1, <2>3, <2>4
<1> QED
  BY <1>2, <1>3, <1>6, MatrixEqual

(* On the diagonals they are a round on the rows moved to make columns of  *)
(* them.                                                                   *)
LEMMA SlideRows ==
  ASSUME NEW w \in State
  PROVE  /\ Slide(Rows(w), 1) \in Matrix
         /\ \A r, c \in 1 .. 4 : Slide(Rows(w), 1)[r][c] = w[Diagonal(c)[r]]
         /\ Slide(Slide(Rows(w), 1), 3) = Rows(w)
<1> PICK m \in Matrix : m = Rows(w)
  BY RowsIs
<1> PICK u : u = Slide(m, 1)
  OBVIOUS
<1>0. 1 \in Nat /\ 3 \in Nat
  OBVIOUS
<1>1. u \in Matrix /\ \A r, c \in 1 .. 4 : u[r][c] = m[r][((c - 1 + 1 * (r - 1)) % 4) + 1]
  BY <1>0, SlideIs, Zenon
<1>2. \A r, c \in 1 .. 4 : m[r][c] = w[4 * (r - 1) + c - 1]
  BY RowsIs
<1>3. ASSUME NEW r \in 1 .. 4, NEW c \in 1 .. 4 PROVE u[r][c] = w[Diagonal(c)[r]]
  <2> PICK e \in 1 .. 4 : e = ((c - 1 + (r - 1)) % 4) + 1
    OBVIOUS
  <2>1. u[r][c] = m[r][e]
    <3>1. 1 * (r - 1) = r - 1
      OBVIOUS
    <3> QED
      BY <1>1, <3>1
  <2>2. m[r][e] = w[4 * (r - 1) + e - 1]
    BY <1>2
  <2>3. Diagonal(c)[r] = 4 * (r - 1) + ((c - 1 + (r - 1)) % 4)
    BY DEF Diagonal
  <2>4. 4 * (r - 1) + e - 1 = 4 * (r - 1) + ((c - 1 + (r - 1)) % 4)
    OBVIOUS
  <2> QED
    BY <2>1, <2>2, <2>3, <2>4
<1>4. Slide(u, 3) \in Matrix
      /\ \A r, c \in 1 .. 4 : Slide(u, 3)[r][c] = u[r][((c - 1 + 3 * (r - 1)) % 4) + 1]
  BY <1>0, <1>1, SlideIs, Zenon
<1>5. ASSUME NEW r \in 1 .. 4, NEW c \in 1 .. 4 PROVE Slide(u, 3)[r][c] = m[r][c]
  <2> PICK e \in 1 .. 4 : e = ((c - 1 + 3 * (r - 1)) % 4) + 1
    OBVIOUS
  <2>1. Slide(u, 3)[r][c] = u[r][e]
    BY <1>4
  <2>2. u[r][e] = m[r][((e - 1 + 1 * (r - 1)) % 4) + 1]
    BY <1>1
  <2>3. ((e - 1 + 1 * (r - 1)) % 4) + 1 = c
    <3>1. 1 * (r - 1) = r - 1
      OBVIOUS
    <3>2. e - 1 = (c - 1 + 3 * (r - 1)) % 4
      OBVIOUS
    <3>3. r = 1 \/ r = 2 \/ r = 3 \/ r = 4
      OBVIOUS
    <3>4. c = 1 \/ c = 2 \/ c = 3 \/ c = 4
      OBVIOUS
    <3> QED
      BY <3>1, <3>2, <3>3, <3>4
  <2> QED
    BY <2>1, <2>2, <2>3
<1>6. Slide(u, 3) = m
  BY <1>4, <1>5, MatrixEqual
<1> QED
  BY <1>1, <1>3, <1>6

LEMMA DiagonalsAreRound ==
  ASSUME NEW w \in State
  PROVE  Rows(Diagonals(w)) = Slide(ColumnRound(Slide(Rows(w), 1)), 3)
<1> PICK v : v = Diagonals(w)
  OBVIOUS
<1>1. v \in State /\ \A c \in 1 .. 4 : Worked(v, w, Diagonal(c))
  BY DiagonalsWorked
<1> PICK m : m = Slide(Rows(w), 1)
  OBVIOUS
<1>2. m \in Matrix /\ \A r, c \in 1 .. 4 : m[r][c] = w[Diagonal(c)[r]]
  BY SlideRows
<1> PICK u : u = Slide(Rows(v), 1)
  OBVIOUS
<1>3. u \in Matrix /\ (\A r, c \in 1 .. 4 : u[r][c] = v[Diagonal(c)[r]]) /\ Slide(u, 3) = Rows(v)
  BY <1>1, SlideRows
<1>4. ASSUME NEW r \in 1 .. 4, NEW c \in 1 .. 4 PROVE u[r][c] = ColumnRound(m)[r][c]
  <2>1. v[Diagonal(c)[r]] = Alone(w, Diagonal(c))[r]
    BY <1>1 DEF Worked
  <2>2. /\ m[1][c] = w[Diagonal(c)[1]] /\ m[2][c] = w[Diagonal(c)[2]]
        /\ m[3][c] = w[Diagonal(c)[3]] /\ m[4][c] = w[Diagonal(c)[4]]
    BY <1>2
  <2>3. Alone(w, Diagonal(c)) = Quad(m[1][c], m[2][c], m[3][c], m[4][c])
    BY <2>2, Zenon DEF Alone
  <2>4. ColumnRound(m)[r][c] = Quad(m[1][c], m[2][c], m[3][c], m[4][c])[r]
    BY <1>2, ColumnRoundIs
  <2> QED
    BY <1>3, <2>1, <2>3, <2>4
<1>5. ColumnRound(m) \in Matrix
  BY <1>2, ColumnRoundIs
<1>6. u = ColumnRound(m)
  BY <1>3, <1>4, <1>5, MatrixEqual
<1> QED
  BY <1>3, <1>6

(* The eight quarter rounds of the code are the double round.              *)
LEMMA EightAreDoubleRound ==
  ASSUME NEW w \in State
  PROVE  Rows(Diagonals(Columns(w))) = DoubleRound(Rows(w))
<1>1. Columns(w) \in State /\ Rows(Columns(w)) = ColumnRound(Rows(w))
  BY ColumnsWorked, ColumnsAreRound
<1>2. Rows(Diagonals(Columns(w))) = Slide(ColumnRound(Slide(Rows(Columns(w)), 1)), 3)
  BY <1>1, DiagonalsAreRound
<1> QED
  BY <1>1, <1>2, Zenon DEF DoubleRound

-------------------------------------------------------------------------------
(* The circuit.                                                            *)

(* The words the circuit starts from.                                      *)
LEMMA SetupFacts ==
  ASSUME NEW x \in Inputs
  PROVE  Setup(x) \in State /\ x.input \in Seq(Byte)
<1>1. \A b, n : FromLeBytes(b, n) \in Word
  BY DEF FromLeBytes, Word
<1>2. x.count \in Word /\ x.input \in Seq(Byte)
  BY InputsAssumption
<1> QED
  BY <1>1, <1>2 DEF Setup, State, Index

LEMMA InitTypeOK == Init => TypeOK
<1> SUFFICES ASSUME Init PROVE TypeOK
  OBVIOUS
<1>1. given \in Inputs /\ state \in State /\ work \in State
  BY SetupFacts DEF Init
<1>2. Len(given.input) \in Nat
  BY <1>1, SetupFacts
<1>3. output = <<>> /\ Len(output) = 0 /\ output \in Seq(Byte) /\ step = 0
  BY DEF Init
<1> QED
  BY <1>1, <1>2, <1>3 DEF TypeOK, State, Index, QuarterRounds, ChunkLen

(* A quarter round of the code is one of four different words.             *)
LEMMA RoundFacts ==
  ASSUME TypeOK, step < QuarterRounds
  PROVE  Quarters[(step % 8) + 1] \in Quarter
<1>1. (step % 8) + 1 \in 1 .. 8
  BY DEF TypeOK, QuarterRounds
<1> QED
  BY <1>1, QuartersDistinct

LEMMA RoundStep == TypeOK /\ QuarterRoundStep => TypeOK'
<1> SUFFICES ASSUME TypeOK, QuarterRoundStep PROVE TypeOK'
  OBVIOUS
<1>1. work' \in State
  <2>1. work \in State /\ Quarters[(step % 8) + 1] \in Quarter
    BY RoundFacts DEF TypeOK, State, Index, QuarterRoundStep
  <2> QED
    BY <2>1, QuarterRoundBack DEF QuarterRoundStep
<1>2. step' \in 0 .. QuarterRounds
  BY DEF TypeOK, QuarterRoundStep, QuarterRounds
<1> QED
  BY <1>1, <1>2 DEF TypeOK, State, Index, QuarterRoundStep, ChunkLeft

LEMMA ChunkStep == TypeOK /\ ChunkEnd => TypeOK'
<1> SUFFICES ASSUME TypeOK, ChunkEnd PROVE TypeOK'
  OBVIOUS
<1> DEFINE left == Len(given.input) - Len(output)
           len == IF left < ChunkLen THEN left ELSE ChunkLen
           chunk == [k \in 1 .. len |->
                       Xor(KeyStreamByte(state, work, k - 1), given.input[Len(output) + k])]
<1>1. given.input \in Seq(Byte) /\ output \in Seq(Byte) /\ Len(output) < Len(given.input)
  BY SetupFacts DEF TypeOK, ChunkEnd, ChunkLeft
<1>2. /\ Len(output) \in Nat /\ Len(given.input) \in Nat
      /\ len \in Nat /\ Len(output) + len <= Len(given.input)
      /\ len = ChunkLen \/ Len(output) + len = Len(given.input)
  BY <1>1 DEF ChunkLen
<1>3. output' = output \o chunk
  BY DEF ChunkEnd
<1> HIDE DEF len
<1>4. \A k \in 1 .. len : given.input[Len(output) + k] \in Byte
  <2> SUFFICES ASSUME NEW k \in 1 .. len PROVE given.input[Len(output) + k] \in Byte
    OBVIOUS
  <2>1. Len(output) + k \in 1 .. Len(given.input)
    BY <1>2
  <2> QED
    BY <2>1, <1>1
<1>5. \A k : KeyStreamByte(state, work, k - 1) \in Byte
  BY DEF KeyStreamByte, ToLeByte, Byte
<1>6. \A x, y \in Byte : Xor(x, y) \in Byte
  BY DEF Xor, Byte
<1>7. chunk \in Seq(Byte) /\ Len(chunk) = len
  <2>1. chunk \in [1 .. len -> Byte]
    BY <1>4, <1>5, <1>6, Zenon
  <2> HIDE DEF chunk
  <2> QED
    BY <2>1, <1>2
<1> HIDE DEF chunk
<1>8. output' \in Seq(Byte) /\ Len(output') = Len(output) + len
  <2> HIDE DEF left
  <2> DEFINE S == Byte
  <2>1. output \in Seq(S) /\ chunk \in Seq(S) /\ Len(chunk) = len
    BY <1>1, <1>7
  <2> HIDE DEF S
  <2>2. output \o chunk \in Seq(S) /\ Len(output \o chunk) = Len(output) + Len(chunk)
    BY <2>1
  <2> QED
    BY <2>1, <2>2, <1>3 DEF S
<1>9. given' = given /\ step' = 0
  BY DEF ChunkEnd
<1>10. Len(output) % ChunkLen = 0
  BY DEF TypeOK, ChunkEnd
<1>11. Len(output') % ChunkLen = 0 \/ ~ChunkLeft'
  <2>1. CASE len = ChunkLen
    BY <2>1, <1>2, <1>8, <1>10 DEF ChunkLen
  <2>2. CASE Len(output) + len = Len(given.input)
    BY <2>2, <1>2, <1>8, <1>9 DEF ChunkLeft
  <2> QED
    BY <2>1, <2>2, <1>2
<1>12. state' \in State /\ work' \in State
  <2>1. state[12] \in Word /\ One \in Word
    BY DEF TypeOK, One, Word
  <2>2. WrappingAdd(state[12], One) \in Word
    BY <2>1, SubAdd
  <2> QED
    BY <2>2 DEF TypeOK, State, Index, ChunkEnd
<1> QED
  BY <1>2, <1>8, <1>9, <1>11, <1>12 DEF TypeOK, State, Index, QuarterRounds

(* Every reachable state of the circuit's synthesis is well typed, for     *)
(* every input.                                                            *)
THEOREM TypeCorrect == Spec => []TypeOK
<1>1. TypeOK /\ UNCHANGED vars => TypeOK'
  BY DEF TypeOK, vars, ChunkLeft
<1>2. TypeOK /\ [Next]_vars => TypeOK'
  BY <1>1, RoundStep, ChunkStep DEF Next
<1> QED
  BY <1>2, InitTypeOK, PTL DEF Spec

(* No quarter round loses anything of the state.                           *)
THEOREM Reversible == Spec => RoundsReversible
<1>1. TypeOK /\ [Next]_vars =>
        (step' = step + 1 => UndoQuarterRound(work', Quarters[(step % 8) + 1]) = work)
  <2> SUFFICES ASSUME TypeOK, [Next]_vars, step' = step + 1
               PROVE  UndoQuarterRound(work', Quarters[(step % 8) + 1]) = work
    OBVIOUS
  <2>1. step \in Nat
    BY DEF TypeOK
  <2>2. CASE QuarterRoundStep
    <3>1. work \in State /\ Quarters[(step % 8) + 1] \in Quarter
      BY <2>2, RoundFacts DEF TypeOK, State, Index, QuarterRoundStep
    <3> QED
      BY <2>2, <3>1, QuarterRoundBack DEF QuarterRoundStep
  <2>3. CASE ChunkEnd
    BY <2>1, <2>3 DEF ChunkEnd
  <2>4. CASE UNCHANGED vars
    BY <2>1, <2>4 DEF vars
  <2> QED
    BY <2>2, <2>3, <2>4 DEF Next
<1>2. TypeOK /\ [Next]_vars =>
        [step' = step + 1 => UndoQuarterRound(work', Quarters[(step % 8) + 1]) = work]_vars
  BY <1>1
<1> QED
  BY <1>2, TypeCorrect, PTL DEF Spec, RoundsReversible

-------------------------------------------------------------------------------
(* The rounds of a chunk.                                                  *)

(* h are the words after each of n quarter rounds, from s to w.            *)
Trail(h, s, n, w) ==
  /\ h \in [0 .. n -> State] /\ h[0] = s /\ h[n] = w
  /\ \A i \in 0 .. n - 1 : h[i + 1] = QuarterRound(h[i], Quarters[(i % 8) + 1])

LEMMA TrailStart ==
  ASSUME NEW s \in State
  PROVE  \E h : Trail(h, s, 0, s)
<1> DEFINE h == [i \in 0 .. 0 |-> s]
<1>1. h \in [0 .. 0 -> State] /\ h[0] = s /\ \A i \in 0 .. 0 - 1 : FALSE
  OBVIOUS
<1> HIDE DEF h
<1>2. Trail(h, s, 0, s)
  BY <1>1 DEF Trail
<1> QED
  BY <1>2

LEMMA TrailLonger ==
  ASSUME NEW n \in Nat, NEW s, NEW w, NEW h, Trail(h, s, n, w)
  PROVE  \E g : Trail(g, s, n + 1, QuarterRound(w, Quarters[(n % 8) + 1]))
<1> PICK q \in Quarter : q = Quarters[(n % 8) + 1]
  <2>1. (n % 8) + 1 \in 1 .. 8
    OBVIOUS
  <2> QED
    BY <2>1, QuartersDistinct
<1> PICK x : x = QuarterRound(w, q)
  OBVIOUS
<1>1. /\ h \in [0 .. n -> State] /\ h[0] = s /\ h[n] = w
      /\ \A i \in 0 .. n - 1 : h[i + 1] = QuarterRound(h[i], Quarters[(i % 8) + 1])
  BY DEF Trail
<1>2. w \in State
  <2>1. n \in 0 .. n
    OBVIOUS
  <2> QED
    BY <1>1, <2>1
<1>3. x \in State
  BY <1>2, QuarterRoundBack
<1> DEFINE g == [i \in 0 .. n + 1 |-> IF i = n + 1 THEN x ELSE h[i]]
<1>4. \A i \in 0 .. n : g[i] = h[i]
  <2>1. \A i \in 0 .. n : i \in 0 .. n + 1 /\ i # n + 1
    OBVIOUS
  <2> QED
    BY <2>1
<1>5. g[n + 1] = x
  <2>1. n + 1 \in 0 .. n + 1
    OBVIOUS
  <2> QED
    BY <2>1
<1>6. g \in [0 .. n + 1 -> State]
  <2>1. \A i \in 0 .. n + 1 : i = n + 1 \/ i \in 0 .. n
    OBVIOUS
  <2> QED
    BY <1>1, <1>3, <2>1
<1> HIDE DEF g
<1>7. 0 \in 0 .. n /\ n \in 0 .. n /\ (n + 1) - 1 = n
  OBVIOUS
<1>8. ASSUME NEW i \in 0 .. n
      PROVE  g[i + 1] = QuarterRound(g[i], Quarters[(i % 8) + 1])
  <2>1. CASE i = n
    <3>1. g[i] = w /\ g[i + 1] = x
      BY <1>1, <1>4, <1>5, <2>1
    <3> QED
      BY <2>1, <3>1
  <2>2. CASE i # n
    <3>1. i \in 0 .. n - 1 /\ i + 1 \in 0 .. n
      BY <2>2
    <3> QED
      BY <1>1, <1>4, <3>1
  <2> QED
    BY <2>1, <2>2
<1>9. Trail(g, s, n + 1, x)
  BY <1>1, <1>4, <1>5, <1>6, <1>7, <1>8 DEF Trail
<1> QED
  BY <1>9

(* Eight quarter rounds from a multiple of eight.                          *)
LEMMA TrailEight ==
  ASSUME NEW h, NEW s, NEW n \in Nat, NEW w, Trail(h, s, n, w),
         NEW k \in Nat, 8 * k + 8 <= n
  PROVE  h[8 * k] \in State /\ h[8 * k + 8] = Diagonals(Columns(h[8 * k]))
<1> PICK b \in Nat : b = 8 * k
  OBVIOUS
<1>1. \A i \in 0 .. n - 1 : h[i + 1] = QuarterRound(h[i], Quarters[(i % 8) + 1])
  BY DEF Trail
<1>2. ASSUME NEW j \in 0 .. 7
      PROVE  h[b + (j + 1)] = QuarterRound(h[b + j], Quarters[j + 1])
  <2>1. b + j \in 0 .. n - 1 /\ (b + j) + 1 = b + (j + 1) /\ (b + j) % 8 = j
    OBVIOUS
  <2> QED
    BY <1>1, <2>1
<1> PICK f : f = [j \in 0 .. 8 |-> h[b + j]]
  OBVIOUS
<1>3. \A j \in 0 .. 8 : f[j] = h[b + j]
  OBVIOUS
<1>4. \A j \in 0 .. 7 : f[j + 1] = QuarterRound(f[j], Quarters[j + 1])
  <2>1. \A j \in 0 .. 7 : j \in 0 .. 8 /\ j + 1 \in 0 .. 8
    OBVIOUS
  <2> QED
    BY <1>2, <1>3, <2>1
<1>5. /\ f[1] = QuarterRound(f[0], Quarters[1]) /\ f[2] = QuarterRound(f[1], Quarters[2])
      /\ f[3] = QuarterRound(f[2], Quarters[3]) /\ f[4] = QuarterRound(f[3], Quarters[4])
      /\ f[5] = QuarterRound(f[4], Quarters[5]) /\ f[6] = QuarterRound(f[5], Quarters[6])
      /\ f[7] = QuarterRound(f[6], Quarters[7]) /\ f[8] = QuarterRound(f[7], Quarters[8])
  <2>1. f[0 + 1] = QuarterRound(f[0], Quarters[0 + 1]) /\ f[1 + 1] = QuarterRound(f[1], Quarters[1 + 1])
    BY <1>4
  <2>2. f[2 + 1] = QuarterRound(f[2], Quarters[2 + 1]) /\ f[3 + 1] = QuarterRound(f[3], Quarters[3 + 1])
    BY <1>4
  <2>3. f[4 + 1] = QuarterRound(f[4], Quarters[4 + 1]) /\ f[5 + 1] = QuarterRound(f[5], Quarters[5 + 1])
    BY <1>4
  <2>4. f[6 + 1] = QuarterRound(f[6], Quarters[6 + 1]) /\ f[7 + 1] = QuarterRound(f[7], Quarters[7 + 1])
    BY <1>4
  <2> QED
    BY <2>1, <2>2, <2>3, <2>4
<1>6. f[4] = Columns(f[0])
  <2>1. f[2] = QuarterRound(QuarterRound(f[0], Quarters[1]), Quarters[2])
    BY <1>5, Zenon
  <2>2. f[4] = QuarterRound(QuarterRound(f[2], Quarters[3]), Quarters[4])
    BY <1>5, Zenon
  <2> QED
    BY <2>1, <2>2, Zenon DEF Columns, FourQuarters
<1>7. f[8] = Diagonals(f[4])
  <2>1. f[6] = QuarterRound(QuarterRound(f[4], Quarters[5]), Quarters[6])
    BY <1>5, Zenon
  <2>2. f[8] = QuarterRound(QuarterRound(f[6], Quarters[7]), Quarters[8])
    BY <1>5, Zenon
  <2> QED
    BY <2>1, <2>2, Zenon DEF Diagonals, FourQuarters
<1>8. f[0] = h[8 * k] /\ f[8] = h[8 * k + 8]
  <2>1. f[0] = h[b + 0] /\ f[8] = h[b + 8]
    BY <1>3
  <2>2. b + 0 = 8 * k /\ b + 8 = 8 * k + 8
    OBVIOUS
  <2> QED
    BY <2>1, <2>2
<1>9. h[8 * k] \in State
  <2>1. 8 * k \in 0 .. n
    OBVIOUS
  <2> QED
    BY <2>1 DEF Trail
<1> QED
  BY <1>6, <1>7, <1>8, <1>9, Zenon

(* Eighty quarter rounds are ten double rounds.                            *)
LEMMA TrailTen ==
  ASSUME NEW h, NEW s, NEW w, Trail(h, s, QuarterRounds, w)
  PROVE  Rows(w) = TenDoubleRounds(Rows(s))
<1> DEFINE m == Rows(s)
           IsAfter(f) == f = [i \in 0 .. 10 |-> IF i = 0 THEN m ELSE DoubleRound(f[i-1])]
           after == CHOOSE f : IsAfter(f)
           g == [i \in 0 .. 10 |-> Rows(h[8 * i])]
<1>1. TenDoubleRounds(m) = after[10]
  BY DEF TenDoubleRounds
<1>2. h[0] = s /\ h[80] = w
  BY DEF Trail, QuarterRounds
<1>3. \A i \in 0 .. 10 : g[i] = Rows(h[8 * i])
  OBVIOUS
<1>4. g[0] = m /\ g[10] = Rows(w)
  <2>1. g[0] = Rows(h[8 * 0]) /\ g[10] = Rows(h[8 * 10])
    BY <1>3
  <2>2. 8 * 0 = 0 /\ 8 * 10 = 80
    OBVIOUS
  <2> QED
    BY <1>2, <2>1, <2>2, Zenon
<1>5. ASSUME NEW k \in 0 .. 9 PROVE g[k + 1] = DoubleRound(g[k])
  <2>1. k \in Nat /\ 80 \in Nat /\ 8 * k + 8 <= 80 /\ k \in 0 .. 10 /\ k + 1 \in 0 .. 10
    OBVIOUS
  <2>2. Trail(h, s, 80, w)
    BY DEF QuarterRounds
  <2>3. h[8 * k] \in State /\ h[8 * k + 8] = Diagonals(Columns(h[8 * k]))
    BY <2>1, <2>2, TrailEight, Zenon
  <2>4. 8 * (k + 1) = 8 * k + 8
    OBVIOUS
  <2>5. Rows(h[8 * k + 8]) = DoubleRound(Rows(h[8 * k]))
    BY <2>3, EightAreDoubleRound, Zenon
  <2>6. g[k] = Rows(h[8 * k]) /\ g[k + 1] = Rows(h[8 * k + 8])
    <3>1. g[k + 1] = Rows(h[8 * (k + 1)])
      BY <1>3, <2>1
    <3> QED
      BY <1>3, <2>1, <2>4, <3>1
  <2> QED
    BY <2>5, <2>6
<1>6. g = [i \in 0 .. 10 |-> g[i]]
  OBVIOUS
<1> HIDE DEF g, m
<1>7. \A i \in 0 .. 10 : g[i] = IF i = 0 THEN m ELSE DoubleRound(g[i-1])
  <2> SUFFICES ASSUME NEW i \in 0 .. 10
               PROVE  g[i] = IF i = 0 THEN m ELSE DoubleRound(g[i-1])
    OBVIOUS
  <2>1. CASE i = 0
    BY <1>4, <2>1
  <2>2. CASE i # 0
    <3> PICK k \in 0 .. 9 : i = k + 1
      <4>1. i - 1 \in 0 .. 9 /\ i = (i - 1) + 1
        BY <2>2
      <4> QED
        BY <4>1
    <3>1. i - 1 = k
      OBVIOUS
    <3> QED
      BY <1>5, <2>2, <3>1
  <2> QED
    BY <2>1, <2>2
<1>8. IsAfter(g)
  BY <1>6, <1>7
<1>9. IsAfter(after)
  BY <1>8
<1> HIDE DEF after
<1>10. \A i \in 0 .. 10 : after[i] = IF i = 0 THEN m ELSE DoubleRound(after[i-1])
  BY <1>9
<1>11. \A i \in 0 .. 10 : after[i] = g[i]
  <2> DEFINE T == {i \in 0 .. 10 : after[i] # g[i]}
  <2> SUFFICES ASSUME T # {} PROVE FALSE
    OBVIOUS
  <2>1. T \subseteq Nat
    OBVIOUS
  <2>2. PICK j \in T : \A k \in T : j <= k
    <3> HIDE DEF T
    <3> QED
      BY <2>1, LeastNatural
  <2>3. j \in 0 .. 10 /\ after[j] # g[j]
    OBVIOUS
  <2>4. j # 0
    BY <1>7, <1>10, <2>3
  <2>5. j - 1 \in 0 .. 10 /\ j - 1 < j
    BY <2>3, <2>4
  <2>6. j - 1 \notin T
    <3> HIDE DEF T
    <3> QED
      BY <2>1, <2>2, <2>5
  <2>7. after[j - 1] = g[j - 1]
    BY <2>5, <2>6
  <2>8. after[j] = DoubleRound(after[j - 1]) /\ g[j] = DoubleRound(g[j - 1])
    BY <1>7, <1>10, <2>3, <2>4
  <2> QED
    BY <2>3, <2>7, <2>8
<1> QED
  BY <1>1, <1>4, <1>11 DEF m

-------------------------------------------------------------------------------
(* What the circuit computes.                                              *)

(* The words of this block begin with the counter of its place in the      *)
(* message.                                                                *)
BlockBegun == ChunkLeft => state = FirstOf(given, Len(output) \div ChunkLen)

(* The quarter rounds done on this chunk lead from state to work.          *)
RoundsDone == \E h : Trail(h, state, step, work)

CInv == TypeOK /\ BlockBegun /\ RoundsDone /\ OutputIsChaCha20

LEMMA FirstBlock ==
  ASSUME NEW x \in Inputs
  PROVE  FirstOf(x, 0) = Setup(x)
<1> PICK s \in State : s = Setup(x)
  BY SetupFacts
<1>1. s[12] \in Word /\ 12 \in Index
  BY DEF State, Index
<1>2. WrappingAdd(s[12], WordOf(0)) = s[12]
  BY <1>1, AddZero, ZeroWord
<1>3. FirstOf(x, 0) = [s EXCEPT ![12] = WrappingAdd(s[12], WordOf(0))]
  BY DEF FirstOf
<1>4. [s EXCEPT ![12] = s[12]] = s
  BY DEF State
<1> QED
  BY <1>2, <1>3, <1>4

LEMMA NextBlock ==
  ASSUME NEW x \in Inputs, NEW n \in Nat
  PROVE  LET s == FirstOf(x, n)
         IN [s EXCEPT ![12] = WrappingAdd(s[12], One)] = FirstOf(x, n + 1)
<1> PICK s \in State : s = Setup(x)
  BY SetupFacts
<1>1. s[12] \in Word /\ 12 \in Index /\ One \in Word
  BY DEF State, Index, One, Word
<1>2. WordOf(n) \in Word
  BY DEF WordOf, Word
<1> PICK t : t = WrappingAdd(s[12], WordOf(n))
  OBVIOUS
<1> PICK u : u = WrappingAdd(s[12], WordOf(n + 1))
  OBVIOUS
<1>3. WrappingAdd(t, One) = u
  BY <1>1, <1>2, AddAssociative, NextWord
<1>4. FirstOf(x, n) = [s EXCEPT ![12] = t] /\ FirstOf(x, n + 1) = [s EXCEPT ![12] = u]
  BY DEF FirstOf
<1>5. [s EXCEPT ![12] = t][12] = t
  BY <1>1 DEF State
<1>6. [[s EXCEPT ![12] = t] EXCEPT ![12] = WrappingAdd(t, One)] = [s EXCEPT ![12] = u]
  BY <1>1, <1>3 DEF State
<1> QED
  BY <1>4, <1>5, <1>6

LEMMA InitBlock == Init => BlockBegun /\ RoundsDone /\ OutputIsChaCha20
<1> SUFFICES ASSUME Init PROVE BlockBegun /\ RoundsDone /\ OutputIsChaCha20
  OBVIOUS
<1>1. given \in Inputs /\ state = Setup(given) /\ work = state /\ step = 0 /\ output = <<>>
  BY DEF Init
<1>2. state \in State
  BY <1>1, SetupFacts
<1>3. RoundsDone
  BY <1>1, <1>2, TrailStart DEF RoundsDone
<1>4. Len(output) \div ChunkLen = 0
  BY <1>1 DEF ChunkLen
<1>5. BlockBegun
  BY <1>1, <1>4, FirstBlock DEF BlockBegun
<1> QED
  BY <1>1, <1>3, <1>5 DEF OutputIsChaCha20

LEMMA RoundBlock ==
  CInv /\ QuarterRoundStep => BlockBegun' /\ RoundsDone' /\ OutputIsChaCha20'
<1> SUFFICES ASSUME CInv, QuarterRoundStep
             PROVE  BlockBegun' /\ RoundsDone' /\ OutputIsChaCha20'
  OBVIOUS
<1>1. /\ given' = given /\ state' = state /\ output' = output /\ step' = step + 1
      /\ work' = QuarterRound(work, Quarters[(step % 8) + 1]) /\ step \in Nat
  BY DEF CInv, TypeOK, QuarterRoundStep
<1>2. BlockBegun'
  BY <1>1 DEF CInv, BlockBegun, ChunkLeft
<1>3. RoundsDone'
  <2>1. PICK h : Trail(h, state, step, work)
    BY DEF CInv, RoundsDone
  <2>2. \E g : Trail(g, state, step + 1, QuarterRound(work, Quarters[(step % 8) + 1]))
    BY <1>1, <2>1, TrailLonger, Zenon
  <2> QED
    BY <1>1, <2>2, Zenon DEF RoundsDone
<1>4. OutputIsChaCha20'
  <2>1. step' # 0
    BY <1>1
  <2> QED
    BY <2>1 DEF OutputIsChaCha20
<1> QED
  BY <1>2, <1>3, <1>4

(* The words before and after the rounds, added, are the block.            *)
LEMMA BlockWords ==
  ASSUME NEW x \in Inputs, NEW n \in Nat, NEW s \in State, NEW w \in State,
         s = FirstOf(x, n), Rows(w) = TenDoubleRounds(Rows(s))
  PROVE  \A i \in Index : Block(x, n)[i] = WrappingAdd(s[i], w[i])
<1>1. Block(x, n) = [i \in 0 .. 15 |-> WrappingAdd(s[i], Rows(w)[(i \div 4) + 1][(i % 4) + 1])]
  BY DEF Block
<1>2. \A r, c \in 1 .. 4 : Rows(w)[r][c] = w[4 * (r - 1) + c - 1]
  BY RowsIs
<1>3. ASSUME NEW i \in Index PROVE Rows(w)[(i \div 4) + 1][(i % 4) + 1] = w[i]
  <2>1. (i \div 4) + 1 \in 1 .. 4 /\ (i % 4) + 1 \in 1 .. 4
    BY DEF Index
  <2>2. 4 * (((i \div 4) + 1) - 1) + ((i % 4) + 1) - 1 = i
    BY DEF Index
  <2> QED
    BY <1>2, <2>1, <2>2
<1> QED
  BY <1>1, <1>3 DEF Index

(* f is what b has behind its first n elements.                            *)
EndsWith(b, n, len, f) == Len(b) = n + len /\ SubSeq(b, n + 1, n + len) = f

(* What is appended can be cut off again.                                  *)
LEMMA Appended ==
  ASSUME NEW S, NEW a \in Seq(S), NEW len \in Nat, NEW f \in [1 .. len -> S],
         NEW n \in Nat, n = Len(a)
  PROVE  EndsWith(a \o f, n, len, f)
<1>1. f \in Seq(S) /\ Len(f) = len
  OBVIOUS
<1> PICK b : b = a \o f
  OBVIOUS
<1>2. /\ b \in Seq(S) /\ Len(b) = n + len
      /\ \A i \in 1 .. n + len : b[i] = IF i <= n THEN a[i] ELSE f[i - n]
  BY <1>1, ConcatProperties, Zenon
<1>3. \A k \in 1 .. len : b[n + k] = f[k]
  <2>1. \A k \in 1 .. len : n + k \in 1 .. n + len /\ ~(n + k <= n) /\ (n + k) - n = k
    OBVIOUS
  <2> QED
    BY <1>2, <2>1
<1> PICK c : c = SubSeq(b, n + 1, n + len)
  OBVIOUS
<1>4. c = [k \in 1 .. len |-> b[n + k]]
  <2>1. c = [i \in 1 .. ((n + len) - (n + 1) + 1) |-> b[i + (n + 1) - 1]]
    BY <1>2 DEF SubSeq
  <2>2. (n + len) - (n + 1) + 1 = len /\ \A i \in 1 .. len : i + (n + 1) - 1 = n + i
    OBVIOUS
  <2> QED
    BY <2>1, <2>2
<1>5. f = [k \in 1 .. len |-> f[k]]
  OBVIOUS
<1>6. c = f
  BY <1>3, <1>4, <1>5
<1> QED
  BY <1>2, <1>6 DEF EndsWith

(* The length of the next chunk.                                           *)
LEMMA ChunkLength ==
  ASSUME NEW from \in Nat, NEW all \in Nat, NEW len,
         from < all, len = IF all - from < 64 THEN all - from ELSE 64
  PROVE  /\ len \in 1 .. 64 /\ len \in Nat
         /\ from + len < all => len = 64
         /\ \A k \in 1 .. len : from + k \in 1 .. all
OBVIOUS

(* The lengths of whole chunks and of a part of one.                       *)
LEMMA ChunkNumbers ==
  ASSUME NEW n \in Nat, NEW len \in 1 .. 64
  PROVE  /\ ((64 * n + len) - 1) \div 64 = n
         /\ (64 * n) \div 64 = n
         /\ len = 64 => (64 * n + len) \div 64 = n + 1
<1> PICK r \in 0 .. 63 : r = len - 1
  <2>1. len - 1 \in 0 .. 63
    OBVIOUS
  <2> QED
    BY <2>1
<1>1. (64 * n + len) - 1 = 64 * n + r
  OBVIOUS
<1>2. (64 * n + r) \div 64 = n
  OBVIOUS
<1>3. (64 * n) \div 64 = n
  OBVIOUS
<1>4. len = 64 => 64 * n + len = 64 * (n + 1)
  OBVIOUS
<1>5. (64 * (n + 1)) \div 64 = n + 1
  OBVIOUS
<1> QED
  BY <1>1, <1>2, <1>3, <1>4, <1>5, Zenon

(* A chunk of the circuit is the chunk of the cipher text.                 *)
Chunk(from, len) ==
  [k \in 1 .. len |-> Xor(KeyStreamByte(state, work, k - 1), given.input[from + k])]

LEMMA ChunkIsCipherText ==
  ASSUME NEW n \in Nat, NEW from \in Nat, NEW len \in 1 .. ChunkLen,
         given \in Inputs, state \in State, work \in State,
         from = ChunkLen * n, state = FirstOf(given, n),
         Rows(work) = TenDoubleRounds(Rows(state))
  PROVE  Chunk(from, len) = CipherText(given, from, from + len)
<1>1. from \div ChunkLen = n /\ (from + len) - from = len /\ len \in Nat
  BY DEF ChunkLen
<1> PICK block : block = Block(given, n)
  OBVIOUS
<1>2. \A i \in Index : block[i] = WrappingAdd(state[i], work[i])
  BY BlockWords
<1>3. CipherText(given, from, from + len)
        = [k \in 1 .. len |-> Xor(ToLeByte(block[((k - 1) % ChunkLen) \div 4], (k - 1) % 4),
                                  given.input[from + k])]
  BY <1>1 DEF CipherText
<1>4. ASSUME NEW k \in 1 .. len
      PROVE  KeyStreamByte(state, work, k - 1)
               = ToLeByte(block[((k - 1) % ChunkLen) \div 4], (k - 1) % 4)
  <2>1. (k - 1) % ChunkLen = k - 1 /\ (k - 1) \div 4 \in Index
    BY DEF ChunkLen, Index
  <2> QED
    BY <1>2, <2>1 DEF KeyStreamByte
<1> QED
  BY <1>3, <1>4 DEF Chunk

LEMMA ChunkBlock ==
  CInv /\ ChunkEnd => BlockBegun' /\ RoundsDone' /\ OutputIsChaCha20'
<1> SUFFICES ASSUME CInv, ChunkEnd
             PROVE  BlockBegun' /\ RoundsDone' /\ OutputIsChaCha20'
  OBVIOUS
<1>1. /\ given \in Inputs /\ state \in State /\ work \in State /\ TypeOK
      /\ given.input \in Seq(Byte) /\ output \in Seq(Byte) /\ Len(output) < Len(given.input)
      /\ Len(output) % ChunkLen = 0
  BY SetupFacts DEF CInv, TypeOK, State, Index, ChunkEnd, ChunkLeft
<1> PICK from \in Nat : from = Len(output)
  BY <1>1
<1> PICK all \in Nat : all = Len(given.input)
  BY <1>1
<1> PICK len : len = IF all - from < ChunkLen THEN all - from ELSE ChunkLen
  OBVIOUS
<1>2. /\ len \in 1 .. 64 /\ len \in Nat
      /\ from + len < all => len = 64
      /\ \A k \in 1 .. len : from + k \in 1 .. all
  <2>1. from < all
    BY <1>1
  <2>2. len = IF all - from < 64 THEN all - from ELSE 64
    BY Zenon DEF ChunkLen
  <2> QED
    BY <2>1, <2>2, ChunkLength, Zenon
<1> PICK n \in Nat : from = ChunkLen * n
  <2>1. from \div ChunkLen \in Nat /\ from = ChunkLen * (from \div ChunkLen)
    <3>1. from % 64 = 0
      BY <1>1 DEF ChunkLen
    <3>2. from \div 64 \in Nat /\ from = 64 * (from \div 64)
      BY <3>1
    <3> QED
      BY <3>2 DEF ChunkLen
  <2> QED
    BY <2>1
<1>0. from = 64 * n
  BY DEF ChunkLen
<1>3. from \div ChunkLen = n
  BY <1>0, <1>2, ChunkNumbers, Zenon DEF ChunkLen
<1>4. state = FirstOf(given, n)
  BY <1>3 DEF CInv, BlockBegun, ChunkEnd
<1>5. Rows(work) = TenDoubleRounds(Rows(state))
  <2>1. PICK h : Trail(h, state, step, work)
    BY DEF CInv, RoundsDone
  <2>2. step = QuarterRounds
    BY DEF ChunkEnd
  <2> QED
    BY <2>1, <2>2, TrailTen, Zenon
<1>6. Chunk(from, len) = CipherText(given, from, from + len)
  <2>1. len \in 1 .. ChunkLen
    BY <1>2, Zenon DEF ChunkLen
  <2> QED
    BY <1>1, <1>4, <1>5, <2>1, ChunkIsCipherText
<1>7. output' = output \o Chunk(from, len)
  BY DEF ChunkEnd, Chunk
<1> PICK chunk : chunk = Chunk(from, len)
  OBVIOUS
<1>8. TypeOK'
  BY <1>1, ChunkStep
<1>9. chunk \in [1 .. len -> Byte] /\ len \in Nat
  <2>1. \A k \in 1 .. len : given.input[from + k] \in Byte
    <3> SUFFICES ASSUME NEW k \in 1 .. len PROVE given.input[from + k] \in Byte
      OBVIOUS
    <3>1. from + k \in 1 .. all
      BY <1>2
    <3> QED
      BY <1>1, <3>1
  <2>2. \A k : KeyStreamByte(state, work, k - 1) \in Byte
    BY DEF KeyStreamByte, ToLeByte, Byte
  <2>3. \A x, y \in Byte : Xor(x, y) \in Byte
    BY DEF Xor, Byte
  <2>4. chunk \in [1 .. len -> Byte]
    BY <2>1, <2>2, <2>3, Zenon DEF Chunk
  <2> QED
    BY <1>2, <2>4, Zenon
<1>10. given' = given /\ step' = 0 /\ work' = state'
       /\ state' = [state EXCEPT ![12] = WrappingAdd(state[12], One)]
  BY DEF ChunkEnd
<1>11. Len(output') = from + len /\ SubSeq(output', from + 1, from + len) = chunk
  <2>1. output \in Seq(Byte) /\ len \in Nat /\ chunk \in [1 .. len -> Byte]
    BY <1>1, <1>9, Zenon
  <2>2. EndsWith(output \o chunk, from, len, chunk)
    BY <2>1, Appended
  <2> QED
    BY <1>7, <2>2, Zenon DEF EndsWith
<1>12. OutputIsChaCha20'
  <2>1. ((64 * n + len) - 1) \div 64 = n
    BY <1>2, ChunkNumbers, Zenon
  <2>2. ChunkLen * (((from + len) - 1) \div ChunkLen) = from
    BY <1>0, <2>1, Zenon DEF ChunkLen
  <2> QED
    BY <1>6, <1>10, <1>11, <2>2 DEF OutputIsChaCha20
<1>13. RoundsDone'
  <2>1. state' \in State
    BY <1>8 DEF TypeOK, State, Index
  <2> QED
    BY <1>10, <2>1, TrailStart DEF RoundsDone
<1>14. BlockBegun'
  <2> SUFFICES ASSUME ChunkLeft' PROVE state' = FirstOf(given', Len(output') \div ChunkLen)
    BY DEF BlockBegun
  <2>1. from + len < all
    BY <1>10, <1>11 DEF ChunkLeft
  <2>2. (from + len) \div ChunkLen = n + 1
    <3>1. len = 64
      BY <1>2, <2>1, Zenon
    <3>2. (64 * n + len) \div 64 = n + 1
      BY <1>2, <3>1, ChunkNumbers, Zenon
    <3> QED
      BY <1>0, <3>2, Zenon DEF ChunkLen
  <2>3. state' = FirstOf(given, n + 1)
    BY <1>1, <1>4, <1>10, NextBlock
  <2> QED
    BY <1>10, <1>11, <2>2, <2>3
<1> QED
  BY <1>12, <1>13, <1>14

(* For every key, nonce, counter and message the output of the circuit is, *)
(* chunk after chunk, the ChaCha20 of the standard.                        *)
THEOREM ComputesChaCha20 == Spec => []OutputIsChaCha20
<1>1. Init => CInv
  BY InitTypeOK, InitBlock DEF CInv
<1>2. CInv /\ [Next]_vars => CInv'
  <2>1. CInv /\ UNCHANGED vars => CInv'
    BY DEF CInv, vars, TypeOK, BlockBegun, RoundsDone, OutputIsChaCha20, ChunkLeft
  <2>2. CInv /\ QuarterRoundStep => CInv'
    BY RoundStep, RoundBlock DEF CInv
  <2>3. CInv /\ ChunkEnd => CInv'
    BY ChunkStep, ChunkBlock DEF CInv
  <2> QED
    BY <2>1, <2>2, <2>3 DEF Next
<1>3. CInv => OutputIsChaCha20
  BY DEF CInv
<1> QED
  BY <1>1, <1>2, <1>3, PTL DEF Spec
===============================================================================
