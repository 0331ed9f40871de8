------------------------------- MODULE Sigops -------------------------------
(***************************************************************************)
(* The counts of SigopCount checked against reference definitions: the    *)
(* model builds every byte string up to a length bound one byte at a time *)
(* and compares the counts at each.                                        *)
(***************************************************************************)
EXTENDS SigopCount

CONSTANTS
  Codes,       \* bytes a script may hold
  MaxLen,      \* the longest script enumerated
  OutScripts   \* serialized output scripts an input may spend

VARIABLE script   \* an input script, serialized

\* A script grows by one operation.
Push == \E c \in Codes : script' = Append(script, c)

Init == script = << >>

Next == Push

Spec == Init /\ [][Next]_script

\* Scripts longer than MaxLen are not explored.
LengthBound == Len(script) <= MaxLen

(***************************************************************************)
(* Reference definitions, from the protocol rather than the loop: each    *)
(* operation is weighed on its own, a multisig by the value of the nearest *)
(* small-integer push before it.                                          *)
(***************************************************************************)
PriorNumber(s, k) ==
  LET js == {j \in 1 .. k - 1 : IsSmallNumber(s[j].code)}
  IN IF js = {} THEN 0
     ELSE s[CHOOSE j \in js : \A i \in js : i <= j].code - (Op1 - 1)

\* A multisig's weight when its key count is n (0 when none is known).
MultisigWeight(n, accurate) == IF accurate /\ n \in 1 .. 16 THEN n ELSE 20

Weight(s, k, accurate) ==
  CASE s[k].code \in {OpCheckSig, OpCheckSigVerify} -> 1
    [] s[k].code \in {OpCheckMultiSig, OpCheckMultiSigVerify} ->
         MultisigWeight(PriorNumber(s, k), accurate)
    [] OTHER -> 0

ReferenceCount(s, accurate) ==
  LET w == [k \in DOMAIN s |-> Weight(s, k, accurate)]
  IN FoldFunctionOnSet(+, 0, w, DOMAIN s)

\* BIP16's count of a spend (Bitcoin's GetP2SHSigOpCount): nothing unless
\* the output is pay-to-script-hash and the input script only pushes;
\* then the redeem script it pushes last, a multisig weighed by the OP_n
\* right before it.
Bip16Weight(s, k) ==
  CASE s[k].code \in {OpCheckSig, OpCheckSigVerify} -> 1
    [] s[k].code \in {OpCheckMultiSig, OpCheckMultiSigVerify} ->
         MultisigWeight(IF k > 1 /\ IsSmallNumber(s[k - 1].code)
                          THEN s[k - 1].code - (Op1 - 1) ELSE 0, TRUE)
    [] OTHER -> 0

Bip16Count(outOps, inOps) ==
  IF ~IsScriptHash(outOps) \/ inOps = << >>
     \/ \E k \in DOMAIN inOps : inOps[k].code > Op16
  THEN 0
  ELSE LET redeem == ParseScript(Last(inOps).data)
       IN  FoldFunctionOnSet(+, 0, [k \in DOMAIN redeem |-> Bip16Weight(redeem, k)],
                             DOMAIN redeem)

\* The accurate count (accurate = true, used for pay-to-script-hash redeem
\* scripts by script_hash_signature_operations_count) weighs a multisig by
\* the key count n of the OP_n before it, 1 <= n <= 16 (spec section 4.1).
AccurateCountMatchesReference ==
  CountScriptSigops(ParseScript(script), TRUE)
    = ReferenceCount(ParseScript(script), TRUE)

\* connect_input charges a block, for each input, at least the sigops BIP16
\* charges it, whatever output it spends and whatever its script pushes:
\* script_hash_signature_operations_count never under-counts, so the block
\* limit is never exceeded by Bitcoin's measure in a block libbitcoin
\* accepts.
ScriptHashCountCoversBip16 ==
  \A out \in OutScripts :
    ScriptHashSigopsCount(ParseScript(out), ParseScript(script))
      >= Bip16Count(ParseScript(out), ParseScript(script))

=============================================================================
