\* Bytes: op_0, push 1, 2 or 3 bytes, op_reserved, op_1, op_2, op_16, nop,
\* checksig, checksigverify, checkmultisig, checkmultisigverify.
CONSTANTS
  Codes = {0, 1, 2, 3, 80, 81, 82, 96, 97, 172, 173, 174, 175}
  MaxLen = 4
  OutScripts <- MCOutScripts
SPECIFICATION Spec
CONSTRAINT LengthBound
INVARIANTS

  AccurateCountMatchesReference
