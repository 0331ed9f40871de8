---------------------------- MODULE HeaderRules ----------------------------
(***************************************************************************)
(* The header rules of validate_block (src/src/validate.cpp) as operators  *)
(* on the chain of headers below the block: check_proof_of_work,          *)
(* work_required with range_constraint, and passes_checkpoints.  The     *)
(* state machine of HeaderChain and the block validator of ValidateBlock  *)
(* both instantiate them.                                                  *)
(*                                                                         *)
(* Targets are scaled: a compact "bits" value packs a size in digits of    *)
(* base Base and a MantDigits-digit mantissa whose top bit is a sign, as   *)
(* Bitcoin's 32-bit compact form packs a byte size and a 3-byte mantissa.  *)
(* The header's hash is a number compared with the target.                 *)
(***************************************************************************)
EXTENDS Naturals, Integers, Sequences

CONSTANTS
  Base,                  \* 256 in Bitcoin
  MantDigits,            \* 3 in Bitcoin
  MaxTarget,             \* max_target()
  TargetTimespan,        \* target_timespan
  ReadjustmentInterval,  \* readjustment_interval
  Checkpoints            \* the checkpoint table: height -> block hash

MantMod == Base ^ MantDigits
SignBit == MantMod \div 2

(***************************************************************************)
(* Compact encoding (big_number::set_compact and compact, not under src/). *)
(***************************************************************************)
RECURSIVE Digits(_)
Digits(x) == IF x = 0 THEN 0 ELSE 1 + Digits(x \div Base)

\* set_compact(bits): the (possibly negative) target bits stands for.
Decode(bits) ==
  LET size == bits \div MantMod
      word == bits % MantMod
      mant == word % SignBit
      v    == IF size <= MantDigits THEN mant \div Base ^ (MantDigits - size)
              ELSE mant * Base ^ (size - MantDigits)
  IN  IF word >= SignBit THEN -v ELSE v

\* compact(): the top MantDigits digits of x, one digit fewer when the top
\* one would set the sign bit.
Compact(x) ==
  LET size == Digits(x)
      word == IF size <= MantDigits THEN x * Base ^ (MantDigits - size)
              ELSE x \div Base ^ (size - MantDigits)
  IN  IF word >= SignBit THEN (size + 1) * MantMod + word \div Base
      ELSE size * MantMod + word

\* max_bits
MaxBits == Compact(MaxTarget)

VARIABLE chain   \* the headers below the block, genesis first: [time, bits, hash]

Height(i) == i - 1          \* chain[i] is the block at height i - 1
Tip == Len(chain)           \* the height of the next block

\* previous_block_bits and actual_timespan(interval) of the chain view,
\* for a block at height d: the timestamps of blocks d - interval and d - 1.
PreviousBlockBits(d) == chain[d].bits
ActualTimespan(d, interval) == chain[d].time - chain[d - interval + 1].time

(***************************************************************************)
(* The code.                                                               *)
(***************************************************************************)
\* Mutant: values above the maximum are not clamped.
RangeConstraintNoMax(value, minimum, maximum) ==
  IF value < minimum THEN minimum ELSE value

\* range_constraint(value, minimum, maximum)
RangeConstraint(value, minimum, maximum) ==
  IF value < minimum THEN minimum
  ELSE IF value > maximum THEN maximum
  ELSE value

\* Mutant: the retarget is not clamped to max_target.
WorkRequiredNoClamp(d) ==
  IF d = 0 THEN MaxBits
  ELSE IF d % ReadjustmentInterval # 0 THEN PreviousBlockBits(d)
  ELSE LET actual == RangeConstraint(ActualTimespan(d, ReadjustmentInterval),
                                     TargetTimespan \div 4, TargetTimespan * 4)
       IN  Compact((Decode(PreviousBlockBits(d)) * actual) \div TargetTimespan)

\* work_required() for the block at height d.
WorkRequired(d) ==
  IF d = 0 THEN MaxBits
  ELSE IF d % ReadjustmentInterval # 0 THEN PreviousBlockBits(d)
  ELSE LET actual == RangeConstraint(ActualTimespan(d, ReadjustmentInterval),
                                     TargetTimespan \div 4, TargetTimespan * 4)
           retarget == (Decode(PreviousBlockBits(d)) * actual) \div TargetTimespan
       IN  Compact(IF retarget > MaxTarget THEN MaxTarget ELSE retarget)

\* check_proof_of_work(block_hash, bits)
CheckProofOfWork(hash, bits) ==
  LET target == Decode(bits) IN
  /\ target > 0 /\ target <= MaxTarget
  /\ hash <= target

\* passes_checkpoints(): the table has the hash of some heights.
PassesCheckpoints(d, hash) ==
  d \in DOMAIN Checkpoints => hash = Checkpoints[d]

=============================================================================
