----------------------------- MODULE UtxoLedger -----------------------------
(***************************************************************************)
(* What block validation promises the chain (spec 8.3, 8.4 and the         *)
(* transaction model of spec 3): the unspent outputs form a set of coins,  *)
(* each born at the height of the block that created it, and a block      *)
(* moves from one coin set to the next only if                            *)
(*   - it starts with its only coinbase;                                  *)
(*   - every other input spends a coin, no coin twice, and a coinbase's  *)
(*     coin only once it is CoinbaseMaturity blocks old;                  *)
(*   - no tx pays out more than its inputs, and the coinbase at most the *)
(*     subsidy plus the fees;                                             *)
(*   - its legacy and its connected sigop counts stay within the limit.  *)
(* The coins it spends are removed after the coins it creates are added, *)
(* so a tx repeating an earlier hash overwrites that tx's coins (BIP30).  *)
(***************************************************************************)
EXTENDS TxRules, Integers, SequencesExt

CONSTANTS
  TxIds,             \* tx hashes; Body[h] is the tx with hash h
  Body,              \* tx records with a legacy sigop count and, per input,
                     \* its P2SH sigop count
  Genesis,           \* the coinbase of the block at height 0
  CoinbaseMaturity,  \* coinbase_maturity
  MaxBlockSigops,    \* max_block_script_sig_operations
  BlockValue(_)      \* the subsidy of the block at a height

VARIABLES
  coins,   \* unspent outpoint -> height of the block that created it
  height,  \* height of the last block
  block    \* the txs of the last block

ledgerVars == <<coins, height, block>>

Created(txs) ==
  UNION {{[hash |-> txs[t], index |-> k] : k \in 0 .. Len(Body[txs[t]].outputs) - 1} :
           t \in DOMAIN txs}

\* The (tx position, input position) pairs of the non-coinbase txs.
Spends(txs) ==
  UNION {{<<t, i>> : i \in DOMAIN Body[txs[t]].inputs} : t \in 2 .. Len(txs)}

Prev(txs, s) == Body[txs[s[1]]].inputs[s[2]].prev

CoinValue(o) == Body[o.hash].outputs[o.index + 1]

InputValue(txs, t) ==
  MapThenSumSet(LAMBDA s : CoinValue(Prev(txs, s)),
                {s \in Spends(txs) : s[1] = t})

Fee(txs, t) == InputValue(txs, t) - TotalOutputValue(Body[txs[t]])

ConnectedSigops(txs) ==
  MapThenSumSet(LAMBDA t : Body[txs[t]].sigops, 2 .. Len(txs))
  + MapThenSumSet(LAMBDA s : Body[txs[s[1]]].inputs[s[2]].p2shSigops, Spends(txs))

ValidBlock(txs, d) ==
  /\ txs # << >>
  /\ IsCoinbase(Body[txs[1]])
  /\ \A t \in 2 .. Len(txs) : ~IsCoinbase(Body[txs[t]])
  /\ \A s \in Spends(txs) :
       LET o == Prev(txs, s) IN
       /\ o \in DOMAIN coins
       /\ IsCoinbase(Body[o.hash]) => d - coins[o] >= CoinbaseMaturity
  /\ \A s1, s2 \in Spends(txs) : s1 # s2 => Prev(txs, s1) # Prev(txs, s2)
  /\ \A t \in 2 .. Len(txs) : Fee(txs, t) >= 0
  /\ TotalOutputValue(Body[txs[1]])
       <= BlockValue(d) + MapThenSumSet(LAMBDA t : Fee(txs, t), 2 .. Len(txs))
  /\ MapThenSumSet(LAMBDA t : Body[txs[t]].sigops, DOMAIN txs) <= MaxBlockSigops
  /\ ConnectedSigops(txs) <= MaxBlockSigops

\* A block of txs is connected at the next height.
Connect ==
  /\ height' = height + 1
  /\ block' \in Seq(TxIds)
  /\ ValidBlock(block', height')
  /\ LET spent == {Prev(block', s) : s \in Spends(block')}
         live  == (DOMAIN coins \cup Created(block')) \ spent
     IN  coins' = [o \in live |-> IF o \in Created(block') THEN height'
                                  ELSE coins[o]]

Init ==
  /\ coins = [o \in Created(<<Genesis>>) |-> 0]
  /\ height = 0
  /\ block = <<Genesis>>

Spec == Init /\ [][Connect]_ledgerVars

=============================================================================
