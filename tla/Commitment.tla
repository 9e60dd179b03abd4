------------------------------ MODULE Commitment ------------------------------
(***************************************************************************)
(* The commitment, computed twice: natively (`mimc_commit` of              *)
(* prover/src/commitment.rs and the MiMC trait of prover/src/mimc/mod.rs)  *)
(* and as circuit variables (`compress_var` of prover/src/utils/mod.rs and *)
(* MimcBn254Var of prover/src/mimc/bn254/constraint.rs).  The native value *)
(* is the public input, the other one what the circuit forces it to be.    *)
(*                                                                         *)
(* Bytes become bits, the highest first; chunks of bits become field       *)
(* elements, the lowest first; a Feistel network absorbs the elements one  *)
(* by one.  The two programs run here in lockstep, bit by bit and round by *)
(* round, over a field of any size.                                        *)
(***************************************************************************)
EXTENDS Integers, Sequences

CONSTANTS
  P,          \* the field is the integers modulo P
  ByteBits,   \* 8 in the code
  ChunkBits,  \* CHUNK_BITS
  Exponent, Rounds, RoundKeys,  \* the MiMC trait's constants, which both read
  Inputs      \* byte strings

ASSUME FieldAssumption == P \in Nat /\ P > 1
ASSUME SizesAssumption ==
  /\ ByteBits \in Nat \ {0} /\ ChunkBits \in Nat \ {0}
  /\ 2^ChunkBits <= P   \* the field has room for a chunk
ASSUME MimcAssumption ==
  /\ Exponent \in Nat /\ Rounds \in Nat \ {0}
  /\ RoundKeys \in [0 .. Rounds - 1 -> 0 .. P - 1]
ASSUME InputsAssumption == Inputs \subseteq Seq(0 .. 2^ByteBits - 1)

(* Powers of naturals are naturals, and one more doubles a power of two;   *)
(* for the provers, which know no ^.                                       *)
ASSUME PowersAssumption ==
  /\ \A n \in 0 .. ByteBits + ChunkBits : 2^n \in Nat \ {0}
  /\ 2^0 = 1 /\ \A n \in 0 .. ChunkBits - 1 : 2^(n + 1) = 2 * 2^n
  /\ \A t \in 0 .. P - 1 : t^Exponent \in Nat

Field == 0 .. P - 1

VARIABLES
  data,                    \* the bytes; never changes
  pc,                      \* "pack", "absorb", "round" or "done"
  start, bit,              \* the chunk's first bit and the bit within it
  result, power, var,      \* le_bits_to_fp, natively, and the circuit's sum
  blocks, varBlocks,       \* the elements of compress_bytes and of compress_var
  absorbed,                \* how many of them permute_feistel has absorbed
  round,                   \* the Feistel round
  left, right,             \* x_l and x_r, natively: r and c between two blocks
  varLeft, varRight        \* the same in the circuit

vars == <<data, pc, start, bit, result, power, var, blocks, varBlocks, absorbed, round,
          left, right, varLeft, varRight>>
packing == <<start, bit, result, power, var, blocks, varBlocks>>
mixing == <<absorbed, round, left, right, varLeft, varRight>>

Init ==
  /\ data \in Inputs
  /\ pc = "pack"
  /\ start = 0 /\ bit = 0 /\ result = 0 /\ power = 1 /\ var = 0
  /\ blocks = <<>> /\ varBlocks = <<>>
  /\ absorbed = 0 /\ round = 0
  /\ left = 0 /\ right = 0 /\ varLeft = 0 /\ varRight = 0

(* bytes_to_bits_be, to_bits_be: bit i of d, counted from 0.               *)
NBits(d) == ByteBits * Len(d)
BitOf(d, i) == (d[i \div ByteBits + 1] \div 2^(ByteBits - 1 - (i % ByteBits))) % 2

-------------------------------------------------------------------------------
(* Faults a change of this code could introduce; none is part of Next.     *)

\* a short last chunk is padded in front
PackBitFront ==
  /\ pc = "pack" /\ start < NBits(data) /\ bit < ChunkBits
  /\ LET have == IF NBits(data) - start < ChunkBits THEN NBits(data) - start ELSE ChunkBits
         b == IF bit >= ChunkBits - have
              THEN BitOf(data, start + bit - (ChunkBits - have)) ELSE 0
         v == IF start + bit < NBits(data) THEN BitOf(data, start + bit) ELSE 0
     IN /\ result' = (result + b * power) % P
        /\ var' = (var + v * power) % P
  /\ power' = (2 * power) % P
  /\ bit' = bit + 1
  /\ UNCHANGED <<data, pc, start, blocks, varBlocks, mixing>>

\* chunks_exact for chunks: the bits of a short last chunk are dropped
PackEndExact ==
  /\ pc = "pack" /\ start + ChunkBits > NBits(data)
  /\ pc' = "absorb"
  /\ UNCHANGED <<data, packing, mixing>>

\* the reduction of the sum is left out
AbsorbUnreduced ==
  /\ pc = "absorb" /\ absorbed < Len(blocks)
  /\ left' = left + blocks[absorbed + 1]
  /\ varLeft' = varLeft + varBlocks[absorbed + 1]
  /\ absorbed' = absorbed + 1 /\ round' = 0 /\ pc' = "round"
  /\ UNCHANGED <<data, packing, right, varRight>>

\* the other half is overwritten
HalvesOverwritten(i, l, r, f) == IF i < Rounds - 1 THEN <<f, l>> ELSE <<l, f>>

\* the circuit's copy of the loop lets the halves change sides every time
HalvesVarAlways(i, l, r, f) == <<(r + f) % P, l>>

-------------------------------------------------------------------------------
(* compress_bytes, compress_var                                            *)

(* One bit of a chunk.  The native code pads the last chunk with zeros     *)
(* and adds them up too; the circuit's chunk just ends.                    *)
PackBit ==
  /\ pc = "pack" /\ start < NBits(data) /\ bit < ChunkBits
  /\ LET there == start + bit < NBits(data)
         b == IF there THEN BitOf(data, start + bit) ELSE 0
     IN /\ result' = (result + b * power) % P
        /\ var' = IF there THEN (var + b * power) % P ELSE var
  /\ power' = (2 * power) % P
  /\ bit' = bit + 1
  /\ UNCHANGED <<data, pc, start, blocks, varBlocks, mixing>>

PackChunk ==
  /\ pc = "pack" /\ start < NBits(data) /\ bit = ChunkBits
  /\ blocks' = Append(blocks, result) /\ varBlocks' = Append(varBlocks, var)
  /\ start' = start + ChunkBits
  /\ bit' = 0 /\ result' = 0 /\ power' = 1 /\ var' = 0
  /\ UNCHANGED <<data, pc, mixing>>

PackEnd ==
  /\ pc = "pack" /\ start >= NBits(data)
  /\ pc' = "absorb"
  /\ UNCHANGED <<data, packing, mixing>>

-------------------------------------------------------------------------------
(* permute_feistel, generate_constraints                                   *)

Absorb ==
  /\ pc = "absorb" /\ absorbed < Len(blocks)
  /\ left' = (left + blocks[absorbed + 1]) % P
  /\ varLeft' = (varLeft + varBlocks[absorbed + 1]) % P
  /\ absorbed' = absorbed + 1 /\ round' = 0 /\ pc' = "round"
  /\ UNCHANGED <<data, packing, right, varRight>>

Power(t) == (t^Exponent) % P

(* One turn of the loop of the native `feistel`: t, its power, and the two *)
(* halves, which change sides in all rounds but the last.                  *)
K == 0

Mix(i, l) == Power((K + l + IF i = 0 THEN 0 ELSE RoundKeys[i]) % P)

Halves(i, l, r, f) ==
  IF i < Rounds - 1 THEN <<(r + f) % P, l>> ELSE <<l, (r + f) % P>>

(* And of the circuit's, a loop and a key k of its own.                    *)
KVar == 0

MixVar(i, l) ==
  LET t == IF i = 0 THEN KVar + l ELSE KVar + l + RoundKeys[i] IN Power(t % P)

HalvesVar(i, l, r, f) ==
  IF i < Rounds - 1 THEN <<(r + f) % P, l>> ELSE <<l, (r + f) % P>>

Round ==
  /\ pc = "round" /\ round < Rounds
  /\ LET h == Halves(round, left, right, Mix(round, left))
         v == HalvesVar(round, varLeft, varRight, MixVar(round, varLeft))
     IN /\ left' = h[1] /\ right' = h[2]
        /\ varLeft' = v[1] /\ varRight' = v[2]
  /\ round' = round + 1
  /\ UNCHANGED <<data, pc, packing, absorbed>>

RoundsEnd ==
  /\ pc = "round" /\ round = Rounds
  /\ pc' = "absorb"
  /\ UNCHANGED <<data, packing, mixing>>

(* One output: r.                                                          *)
Output ==
  /\ pc = "absorb" /\ absorbed = Len(blocks)
  /\ pc' = "done"
  /\ UNCHANGED <<data, packing, mixing>>

Next ==
  \/ PackBit \/ PackChunk \/ PackEnd
  \/ Absorb \/ Round \/ RoundsEnd \/ Output

Spec == Init /\ [][Next]_vars

-------------------------------------------------------------------------------

(* Every variable holds a value of its type: all arithmetic stays in the   *)
(* field.                                                                  *)
TypeOK ==
  /\ data \in Seq(0 .. 2^ByteBits - 1)
  /\ pc \in {"pack", "absorb", "round", "done"}
  /\ start \in Nat /\ bit \in 0 .. ChunkBits
  /\ result \in Field /\ power \in Field /\ var \in Field
  /\ blocks \in Seq(Field) /\ varBlocks \in Seq(Field)
  /\ absorbed \in 0 .. Len(blocks) /\ round \in 0 .. Rounds
  /\ left \in Field /\ right \in Field /\ varLeft \in Field /\ varRight \in Field

(* The two programs compute the same: the same elements, by different ways *)
(* of ending the last chunk, and the same halves, by the two copies of the *)
(* network; so the same commitment, for every input (commitment.rs tests   *)
(* one of 128 bytes).                                                      *)
CircuitMatchesNative ==
  /\ blocks = varBlocks /\ result = var
  /\ left = varLeft /\ right = varRight

(* Two inputs are packed to the same elements only if they need as many    *)
(* chunks and differ by zero bytes at the end: nothing else of an input is *)
(* lost, but its length is not kept.                                       *)
Chunks(d) == (NBits(d) + ChunkBits - 1) \div ChunkBits

EqualUpToZeros(d, e) ==
  \A i \in 0 .. Chunks(d) * ChunkBits - 1 :
    (IF i < NBits(d) THEN BitOf(d, i) ELSE 0) = (IF i < NBits(e) THEN BitOf(e, i) ELSE 0)

ChunkValue(d, j) ==
  LET from == (j - 1) * ChunkBits
      to == IF j * ChunkBits < NBits(d) THEN j * ChunkBits ELSE NBits(d)
      v[i \in from .. to] == IF i = to THEN 0 ELSE BitOf(d, i) + 2 * v[i + 1]
  IN v[from]

PackingBinds ==
  pc = "absorb" /\ absorbed = 0 =>
    \A d \in Inputs :
      blocks = [j \in 1 .. Chunks(d) |-> ChunkValue(d, j)]
        <=> Chunks(d) = Chunks(data) /\ EqualUpToZeros(d, data)

(* No round loses anything: from what it computes, the halves it began     *)
(* with can be had back, whatever the exponent and the round keys are.  So *)
(* two states of the network never fall together while it absorbs the same *)
(* elements.                                                               *)
UndoRound(i, l, r) ==
  LET old == IF i < Rounds - 1 THEN r ELSE l
      sum == IF i < Rounds - 1 THEN l ELSE r
  IN <<old, (sum - Mix(i, old)) % P>>

RoundsInvertible ==
  [][pc = "round" /\ round' # round => UndoRound(round, left', right') = <<left, right>>]_vars

===============================================================================
