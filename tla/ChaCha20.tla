------------------------------- MODULE ChaCha20 -------------------------------
(***************************************************************************)
(* The ChaCha20 gadget of the circuit, prover/src/chacha20, and the words  *)
(* build_cs.rs gives it.  A UInt32 or UInt8 of the constraint system is    *)
(* its bits: here the set of the positions of the bits that are 1, with    *)
(* the lowest at 0.  One step is one quarter round, or the end of a chunk  *)
(* of 64 bytes.                                                            *)
(***************************************************************************)
EXTENDS Integers, Sequences

CONSTANT Inputs   \* records of key, nonce, count and input

Word == SUBSET (0 .. 31)
Byte == SUBSET (0 .. 7)
ChunkLen == 64
QuarterRounds == 80   \* ten times eight

ASSUME InputsAssumption ==
  \A x \in Inputs : /\ x.key \in [1 .. 32 -> Byte]
                    /\ x.nonce \in [1 .. 12 -> Byte]
                    /\ x.count \in Word
                    /\ x.input \in Seq(Byte)

VARIABLES
  given,   \* the input of this synthesis; never changes
  state,   \* state_vars of ChaCha20Var
  work,    \* state_vars of QuarterRound
  step,    \* quarter rounds done on this chunk
  output   \* cipher_vars

vars == <<given, state, work, step, output>>

-------------------------------------------------------------------------------
(* Arithmetic of words.                                                    *)

Xor(x, y) == (x \ y) \cup (y \ x)

(* The carry into bit i: some lower bit generates one, and every bit       *)
(* between passes it on.                                                   *)
Carry(x, y, i) ==
  \E j \in x \cap y : j < i /\ \A k \in j + 1 .. i - 1 : k \in x \cup y

WrappingAdd(x, y) ==
  {i \in 0 .. 31 : ~(i \in Xor(x, y) <=> Carry(x, y, i))}

RotateLeft(x, n) == {i \in 0 .. 31 : (i - n) % 32 \in x}

\* u32::from_le_bytes of the four bytes of b behind position n
FromLeBytes(b, n) == {i \in 0 .. 31 : i % 8 \in b[n + 1 + i \div 8]}

\* byte k of a word, to_bytes_le
ToLeByte(x, k) == {i \in 0 .. 7 : 8 * k + i \in x}

-------------------------------------------------------------------------------
(* Faults a change of this code could introduce; none is part of Next.     *)

\* a shift for the rotation
MixShift(w, a, b, d, n) ==
  LET sum == WrappingAdd(w[a], w[b]) IN
    [w EXCEPT ![a] = sum, ![d] = {i \in n .. 31 : i - n \in Xor(w[d], sum)}]
\* the sum keeps its carry as a bit of its own
MixWide(w, a, b, d, n) ==
  LET sum == {i \in 0 .. 32 : ~(i \in Xor(w[a], w[b]) <=> Carry(w[a], w[b], i))} IN
    [w EXCEPT ![a] = sum, ![d] = RotateLeft(Xor(w[d], sum), n)]
\* the counter stays, and two chunks share a key stream
CounterStuck == {}

-------------------------------------------------------------------------------
One == {0}

\* "expa" "nd 3" "2-by" "te k", the words 0x61707865 to 0x6b206574
Constants ==
  LET text == <<101, 120, 112, 97, 110, 100, 32, 51, 50, 45, 98, 121, 116, 101, 32, 107>>
  IN [n \in 1 .. 16 |-> {i \in 0 .. 7 : (text[n] \div 2^i) % 2 = 1}]

(* The sixteen words of build_cs.rs and generate_constraints, in order.    *)
Setup(x) ==
  [w \in 0 .. 15 |->
     IF w < 4 THEN FromLeBytes(Constants, 4 * w)
     ELSE IF w < 12 THEN FromLeBytes(x.key, 4 * (w - 4))
     ELSE IF w = 12 THEN x.count
     ELSE FromLeBytes(x.nonce, 4 * (w - 13))]

(* a += b, then d = (d ^ a) <<< n: half of half a quarter round.           *)
Mix(w, a, b, d, n) ==
  LET sum == WrappingAdd(w[a], w[b]) IN
    [w EXCEPT ![a] = sum, ![d] = RotateLeft(Xor(w[d], sum), n)]

QuarterRound(w, q) ==
  LET a == q[1] b == q[2] c == q[3] d == q[4] IN
    Mix(Mix(Mix(Mix(w, a, b, d, 16), c, d, b, 12), a, b, d, 8), c, d, b, 7)

(* The words of each quarter round of a double round: columns, diagonals.  *)
Quarters ==
  <<<<0, 4, 8, 12>>, <<1, 5, 9, 13>>, <<2, 6, 10, 14>>, <<3, 7, 11, 15>>,
    <<0, 5, 10, 15>>, <<1, 6, 11, 12>>, <<2, 7, 8, 13>>, <<3, 4, 9, 14>>>>

(* Byte k of key_stream: the words of before and after added, each lowest  *)
(* byte first.                                                             *)
KeyStreamByte(before, after, k) ==
  LET w == k \div 4 IN ToLeByte(WrappingAdd(before[w], after[w]), k % 4)

-------------------------------------------------------------------------------
Init ==
  /\ given \in Inputs
  /\ state = Setup(given)
  /\ work = state
  /\ step = 0
  /\ output = <<>>

ChunkLeft == Len(output) < Len(given.input)

QuarterRoundStep ==
  /\ ChunkLeft /\ step < QuarterRounds
  /\ work' = QuarterRound(work, Quarters[(step % 8) + 1])
  /\ step' = step + 1
  /\ UNCHANGED <<given, state, output>>

(* The key stream of the block is combined with the chunk, which may be    *)
(* short, and the next block's rounds start from the next counter.         *)
ChunkEnd ==
  /\ ChunkLeft /\ step = QuarterRounds
  /\ LET left == Len(given.input) - Len(output)
         len == IF left < ChunkLen THEN left ELSE ChunkLen
     IN output' = output \o
          [k \in 1 .. len |->
             Xor(KeyStreamByte(state, work, k - 1), given.input[Len(output) + k])]
  /\ state' = [state EXCEPT ![12] = WrappingAdd(@, One)]
  /\ work' = state'
  /\ step' = 0
  /\ UNCHANGED given

Next == QuarterRoundStep \/ ChunkEnd

Spec == Init /\ [][Next]_vars

-------------------------------------------------------------------------------
(* What ChaCha20 is (RFC 8439, which the repository's test vectors come    *)
(* from), in the form of four rows of four words instead of the in-place   *)
(* updates of the code.                                                    *)

Rows(s) == [r \in 1 .. 4 |-> [c \in 1 .. 4 |-> s[4 * (r - 1) + c - 1]]]

(* Row x grows by row y, and is combined into row z, in all columns at     *)
(* once.                                                                   *)
Grown(q, r) ==
  <<WrappingAdd(q[1], r[1]), WrappingAdd(q[2], r[2]),
    WrappingAdd(q[3], r[3]), WrappingAdd(q[4], r[4])>>
Turned(q, r, n) ==
  <<RotateLeft(Xor(q[1], r[1]), n), RotateLeft(Xor(q[2], r[2]), n),
    RotateLeft(Xor(q[3], r[3]), n), RotateLeft(Xor(q[4], r[4]), n)>>
MixRows(m, x, y, z, n) ==
  LET sum == Grown(m[x], m[y]) IN [m EXCEPT ![x] = sum, ![z] = Turned(m[z], sum, n)]

ColumnRound(m) ==
  MixRows(MixRows(MixRows(MixRows(m, 1, 2, 4, 16), 3, 4, 2, 12), 1, 2, 4, 8), 3, 4, 2, 7)

\* row r moved by k*(r-1) columns, which makes columns of the diagonals
Slide(m, k) ==
  LET left(r, n) == <<r[(n % 4) + 1], r[((n + 1) % 4) + 1],
                      r[((n + 2) % 4) + 1], r[((n + 3) % 4) + 1]>>
  IN <<m[1], left(m[2], k), left(m[3], 2 * k), left(m[4], 3 * k)>>

DoubleRound(m) == Slide(ColumnRound(Slide(ColumnRound(m), 1)), 3)

TenDoubleRounds(m) ==
  LET after[i \in 0 .. 10] == IF i = 0 THEN m ELSE DoubleRound(after[i-1])
  IN after[10]

\* the number n as a word
WordOf(n) ==
  LET half[i \in 0 .. 31] == IF i = 0 THEN n ELSE half[i-1] \div 2
  IN {i \in 0 .. 31 : half[i] % 2 = 1}

\* the words the rounds of block n of a message start from
FirstOf(x, n) == [Setup(x) EXCEPT ![12] = WrappingAdd(@, WordOf(n))]

\* the key stream of block n, in words
Block(x, n) ==
  LET first == FirstOf(x, n)
      last == TenDoubleRounds(Rows(first))
  IN [w \in 0 .. 15 |-> WrappingAdd(first[w], last[(w \div 4) + 1][(w % 4) + 1])]

(* Bytes from .. to of the cipher text of x, all of one block.             *)
CipherText(x, from, to) ==
  LET block == Block(x, from \div ChunkLen)
      key(k) == ToLeByte(block[(k % ChunkLen) \div 4], k % 4)
  IN [k \in 1 .. to - from |-> Xor(key(k - 1), x.input[from + k])]

(* The inverse of a quarter round: the four halves undone, last first.     *)
Borrow(z, y, i) ==
  \E j \in y \ z : j < i /\ \A k \in j + 1 .. i - 1 : k \notin z \ y
WrappingSub(z, y) ==
  {i \in 0 .. 31 : ~(i \in Xor(z, y) <=> Borrow(z, y, i))}
RotateRight(x, n) == {i \in 0 .. 31 : (i + n) % 32 \in x}
Unmix(w, a, b, d, n) ==
  [w EXCEPT ![a] = WrappingSub(w[a], w[b]), ![d] = Xor(RotateRight(w[d], n), w[a])]
UndoQuarterRound(w, q) ==
  LET a == q[1] b == q[2] c == q[3] d == q[4] IN
    Unmix(Unmix(Unmix(Unmix(w, c, d, b, 7), a, b, d, 8), c, d, b, 12), a, b, d, 16)

-------------------------------------------------------------------------------

(* Every variable holds a value of its type, and the output is a whole     *)
(* number of chunks, or all there is.                                      *)
TypeOK ==
  /\ given \in Inputs
  /\ state \in [0 .. 15 -> Word] /\ work \in [0 .. 15 -> Word]
  /\ step \in 0 .. QuarterRounds
  /\ output \in Seq(Byte) /\ Len(output) <= Len(given.input)
  /\ Len(output) % ChunkLen = 0 \/ ~ChunkLeft

(* The circuit's output is the ChaCha20 of the standard after every chunk, *)
(* each chunk under the counter after its predecessor's: the copies of the *)
(* state that quarter rounds update in place, the feed-forward and the     *)
(* counter keep together.                                                  *)
OutputIsChaCha20 ==
  step = 0 /\ output # <<>> =>
    LET n == Len(output)
        from == ChunkLen * ((n - 1) \div ChunkLen)
    IN SubSeq(output, from + 1, n) = CipherText(given, from, n)

(* Nothing of the state is lost in a quarter round: the words it read can  *)
(* be computed back from those it wrote, so two states the rounds start    *)
(* from never meet (lines 18-32 of quarter_round.rs update in place, each  *)
(* reading what the one before wrote).                                     *)
RoundsReversible ==
  [][step' = step + 1 => UndoQuarterRound(work', Quarters[(step % 8) + 1]) = work]_vars

===============================================================================
