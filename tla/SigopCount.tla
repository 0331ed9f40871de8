------------------------------ MODULE SigopCount ------------------------------
(***************************************************************************)
(* Signature-operation counting, count_script_sigops (validate.cpp lines  *)
(* 426-453): a left fold over a script's operations that keeps the total  *)
(* and last_number, the raw byte of the last small-integer push seen; and *)
(* script_hash_signature_operations_count (lines 681-690), which counts    *)
(* the redeem script a pay-to-script-hash input pushes last.  A script is *)
(* its serialized bytes, which parse_script decodes into operations, push *)
(* data included.                                                          *)
(***************************************************************************)
EXTENDS Naturals, Sequences, SequencesExt

\* Raw byte values of the opcodes the count looks at (Bitcoin script).
OpCheckSig == 172
OpCheckSigVerify == 173
OpCheckMultiSig == 174
OpCheckMultiSigVerify == 175
Op1 == 81
Op16 == 96
OpHash160 == 169
OpEqual == 135

IsSmallNumber(c) == Op1 <= c /\ c <= Op16

(***************************************************************************)
(* Scripts (not under src/).                                               *)
(***************************************************************************)
\* Bytes 1..75 push that many following bytes (the pushdata opcodes 76-78
\* are not among the bytes enumerated).
PushSize(b) == IF b \in 1 .. 75 THEN b ELSE 0

\* parse_script: each byte is an operation; a push takes its data from
\* the bytes after it, or all that remain if fewer do.
RECURSIVE ParseScript(_)
ParseScript(bs) ==
  IF bs = << >> THEN << >>
  ELSE LET k == IF PushSize(bs[1]) < Len(bs) THEN PushSize(bs[1]) ELSE Len(bs) - 1
       IN  << [code |-> bs[1], data |-> SubSeq(bs, 2, 1 + k)] >>
             \o ParseScript(SubSeq(bs, 2 + k, Len(bs)))

\* script::type() = payment_type::script_hash: hash160 <push> equal.
IsScriptHash(ops) ==
  /\ Len(ops) = 3
  /\ ops[1].code = OpHash160 /\ PushSize(ops[2].code) > 0 /\ ops[3].code = OpEqual

\* Mutant: last_number keeps the decoded key count n rather than the byte.
SigopStepDecoded(acc, c, accurate) ==
  [ total |-> acc.total
              + (IF c \in {OpCheckSig, OpCheckSigVerify} THEN 1
                 ELSE IF c \in {OpCheckMultiSig, OpCheckMultiSigVerify}
                   THEN IF accurate /\ acc.last # 0 THEN acc.last ELSE 20
                 ELSE 0),
    last  |-> IF IsSmallNumber(c) THEN c - (Op1 - 1) ELSE acc.last ]

\* One iteration of the loop of count_script_sigops.
SigopStep(acc, c, accurate) ==
  [ total |-> acc.total
              + (IF c \in {OpCheckSig, OpCheckSigVerify} THEN 1
                 ELSE IF c \in {OpCheckMultiSig, OpCheckMultiSigVerify}
                   THEN IF accurate /\ acc.last # 0 THEN acc.last ELSE 20
                 ELSE 0),
    last  |-> IF IsSmallNumber(c) THEN c ELSE acc.last ]

\* count_script_sigops(operations, accurate)
CountScriptSigops(ops, accurate) ==
  FoldLeft(LAMBDA acc, op : SigopStep(acc, op.code, accurate),
           [total |-> 0, last |-> 0], ops).total

\* script_hash_signature_operations_count(output_script, input_script)
ScriptHashSigopsCount(outOps, inOps) ==
  IF ~IsScriptHash(outOps) THEN CountScriptSigops(outOps, TRUE)
  ELSE IF inOps = << >> THEN 0
  ELSE CountScriptSigops(ParseScript(Last(inOps).data), TRUE)

=============================================================================
