---------------------------- MODULE BitcoinTarget ----------------------------
(***************************************************************************)
(* Targets (coins/bitcoin/src/lib.rs): 256-bit numbers with a compact form *)
(* in the block header, a difficulty used by pools, and the bytes of a     *)
(* double hash.  Numbers are scaled: a byte has Radix values instead of    *)
(* 256 and a target TargetBytes bytes instead of 32; the mantissa of the   *)
(* compact form keeps its three bytes.  Division by zero panics, so no     *)
(* conversion below starts from it.                                        *)
(***************************************************************************)
EXTENDS Naturals, Sequences, SequencesExt, FiniteSetsExt

CONSTANTS Radix,       \* values of a byte (256)
          TargetBytes, \* bytes of a target (32)
          Exponents,   \* values of the exponent of a compact target (256)
          LowBytes     \* bytes of a difficulty, a u64 (8)

ASSUME TargetAssumption ==
  /\ Radix \in Nat /\ Radix > 0 /\ Radix % 2 = 0
  /\ TargetBytes \in Nat /\ TargetBytes > 3 /\ LowBytes \in Nat
  /\ Exponents \in Nat /\ Exponents > TargetBytes + 1

VARIABLE conversion  \* the last conversion: its kind, its input and its output

Uint256 == 0 .. Radix ^ TargetBytes - 1
MantissaSign == (Radix ^ 3) \div 2

\* One zero byte, two full ones and zeros (0x00000000ffff00...).
difficulty_1_target == (Radix * Radix - 1) * Radix ^ (TargetBytes - 3)

from_pool_difficulty(difficulty) == difficulty_1_target \div difficulty
get_difficulty(target) == (difficulty_1_target \div target) % Radix ^ LowBytes

\* Shifts of a U256 lose what leaves it.
from_compact(bits) ==
  IF bits.mantissa >= MantissaSign THEN [ok |-> FALSE]
  ELSE [ok |-> TRUE,
        target |-> IF bits.exponent <= 3
                   THEN bits.mantissa \div Radix ^ (3 - bits.exponent)
                   ELSE (bits.mantissa * Radix ^ (bits.exponent - 3)) % Radix ^ TargetBytes]

\* Bytes needed for a number: (bits() + 7) / 8.
ByteLen(target) == Min({n \in 0 .. TargetBytes : target < Radix ^ n})

\* The first three bytes of a number that has `exponent' of them.
Mantissa(target, exponent) ==
  IF exponent <= 3 THEN target * Radix ^ (3 - exponent)
  ELSE (target \div Radix ^ (exponent - 3)) % Radix ^ 3

MutantIntoCompact(target) ==
  [mantissa |-> Mantissa(target, ByteLen(target)), exponent |-> ByteLen(target)]
into_compact(target) ==
  LET exponent == ByteLen(target)
      mantissa == Mantissa(target, exponent)
  IN IF mantissa >= MantissaSign
     THEN [mantissa |-> mantissa \div Radix, exponent |-> exponent + 1]
     ELSE [mantissa |-> mantissa, exponent |-> exponent]

\* to_little_endian, from_little_endian, and the reversed bytes of the printed form.
IntoBytes(target) == [i \in 1 .. TargetBytes |-> (target \div Radix ^ (i - 1)) % Radix]
FromBytes(bytes) == FoldRight(LAMBDA byte, number : number * Radix + byte, bytes, 0)
ToHex(target) == Reverse(IntoBytes(target))
from_hex(hex) == FromBytes(Reverse(hex))

meets(hash, target) == target >= FromBytes(hash)

-----------------------------------------------------------------------------
TargetInit == conversion = [kind |-> "none"]

Converted(kind, input, output) == conversion' = [kind |-> kind, in |-> input, out |-> output]

\* job_sanity_check, network_target
DecodeBits ==
  \E mantissa \in 0 .. Radix ^ 3 - 1, exponent \in 0 .. Exponents - 1 :
    LET bits == [mantissa |-> mantissa, exponent |-> exponent]
    IN Converted("from_compact", bits, from_compact(bits))
EncodeBits == \E target \in Uint256 : Converted("into_compact", target, into_compact(target))
SetDifficulty ==
  \E difficulty \in 1 .. difficulty_1_target :
    Converted("from_pool_difficulty", difficulty, from_pool_difficulty(difficulty))
CountDifficulty ==
  \E target \in Uint256 \ {0} : Converted("get_difficulty", target, get_difficulty(target))
PrintTarget == \E target \in Uint256 : Converted("hex", target, from_hex(ToHex(target)))

\* Each conversion starts afresh.
TargetNext ==
  /\ conversion = [kind |-> "none"]
  /\ DecodeBits \/ EncodeBits \/ SetDifficulty \/ CountDifficulty \/ PrintTarget

TargetSpec == TargetInit /\ [][TargetNext]_conversion

-----------------------------------------------------------------------------
\* Targets with a compact form, as the consensus rules define it.
Compactable == {m * Radix ^ k : m \in 0 .. MantissaSign - 1, k \in 0 .. TargetBytes - 2} \cap Uint256

\* The compact form stands for the next lower target that has one, is never negative,
\* and is exact for a target decoded from bits that fit.  A hash meets the target of a
\* difficulty if and only if its own difficulty is no lower, whichever of the two
\* roundings is taken, unless the hash is so small that its difficulty outgrows a u64.
\* A printed target is read back as it was.
TargetsAreFaithful ==
  LET in == conversion.in
      out == conversion.out
  IN CASE conversion.kind = "into_compact" ->
            from_compact(out) = [ok |-> TRUE, target |-> Max({t \in Compactable : t <= in})]
       [] conversion.kind = "from_compact" ->
            out.ok /\ in.mantissa * Radix ^ in.exponent < Radix ^ (TargetBytes + 3)
              => /\ out.target = (in.mantissa * Radix ^ in.exponent) \div Radix ^ 3
                 /\ from_compact(into_compact(out.target)) = out
       [] conversion.kind = "from_pool_difficulty" ->
            \A hash \in Uint256 : meets(IntoBytes(hash), out) <=> hash * in <= difficulty_1_target
       [] conversion.kind = "get_difficulty" ->
            difficulty_1_target < in * Radix ^ LowBytes =>
              \A difficulty \in 1 .. difficulty_1_target :
                difficulty <= out <=> in <= from_pool_difficulty(difficulty)
       [] conversion.kind = "hex" -> out = in
       [] OTHER -> TRUE
=============================================================================
