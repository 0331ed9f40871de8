---------------------------- MODULE ValidateBlock ----------------------------
(***************************************************************************)
(* validate_block (src/src/validate.cpp, lines 330-743) run by the chain's  *)
(* organizer: each step offers a block at height tip + 1, validate_block   *)
(* ::start() runs check_block, accept_block and connect_block against the  *)
(* chain as it is, and the block is appended when start() returns no      *)
(* error.  start() is synchronous, so one validation is one step.         *)
(*                                                                         *)
(* The header's time, bits and hash are real: proof of work, bits and    *)
(* checkpoints are checked by the HeaderRules operators on the chain of   *)
(* headers below the block, and BIP16 is enabled by the timestamp.  The   *)
(* checks that need the clock, serialization, hashing of the tx list, or  *)
(* median_time_past and is_final (not under src/) are verdict bits of the *)
(* block; the transaction, spend and value rules are modelled in full.    *)
(* The chain view (transaction_exists, fetch_transaction,                 *)
(* is_output_spent) is answered from the ledger: the height at which each *)
(* tx hash is confirmed and the set of spent outpoints.                   *)
(*                                                                         *)
(* Reading outputs[index] past the end of the vector (connect_input does   *)
(* not check the index) is undefined behaviour; the model lets the read    *)
(* yield any output of Junk.                                               *)
(***************************************************************************)
EXTENDS TxRules, SigopCount, Integers, SequencesExt

CONSTANTS
  TxIds,            \* tx hashes; Body[h] is the tx with hash h
  Body,             \* tx records extended with sigops (legacy count) and,
                    \* per input, p2shSigops and sigOkBip16
  Scripts,          \* Scripts[h]: the serialized input and output scripts
                    \* of tx h, [inputs |-> <<...>>, outputs |-> <<...>>]
  Genesis,          \* the coinbase confirmed at height 0
  Blocks,           \* the blocks the organizer may offer
  Junk,             \* outputs a read past the end may yield
  CoinbaseMaturity, \* coinbase_maturity
  MaxBlockSigops,   \* max_block_script_sig_operations
  Bip30Exceptions,  \* the heights 91842 and 91880
  InitialSubsidy,   \* block_value(0): 50 coins
  HalvingInterval,  \* 210000 blocks
  Bip16SwitchoverTime, \* bip16_switchover_timestamp
  Base, MantDigits, MaxTarget, TargetTimespan, ReadjustmentInterval,
  Checkpoints,      \* the HeaderRules constants
  Deltas,           \* seconds between a block's timestamp and its parent's
  Hashes,           \* header hashes a block may have
  BadBits           \* bits other than work_required a block may carry

ASSUME Genesis \in TxIds /\ IsCoinbase(Body[Genesis])

Unconfirmed == -1

VARIABLES
  conf,       \* ledger: height of the block holding each tx hash
  spent,      \* ledger: the spent outpoints
  tip,        \* ledger: height of the last block
  lastTxs,    \* history: the txs of the last block appended
  created,    \* history: total value of the outputs of appended txs
  destroyed,  \* history: total value of the outputs they spent
  headers     \* the headers of the chain, genesis first: [time, bits, hash]

vars == <<conf, spent, tip, lastTxs, created, destroyed, headers>>

HR == INSTANCE HeaderRules WITH chain <- headers

Outpoint(h, i) == [hash |-> h, index |-> i]

(***************************************************************************)
(* The chain view, answered from the ledger (not under src/).              *)
(***************************************************************************)
\* transaction_exists
TransactionExists(h) == conf[h] # Unconfirmed

\* is_output_spent(outpoint)
IsOutputSpent(o) == o \in spent

\* Mutant: a spend by an earlier input of the same tx is not seen.
IsOutputSpentInEarlierTxs(b, o, t, i) ==
  \/ o \in spent
  \/ \E t2 \in 2 .. t - 1 : \E i2 \in DOMAIN Body[b.txs[t2]].inputs :
       Body[b.txs[t2]].inputs[i2].prev = o

\* is_output_spent(outpoint, index_in_parent, input_index): spent in the
\* chain, or by an input of this block that comes before input i of tx t.
IsOutputSpentWithin(b, o, t, i) ==
  \/ o \in spent
  \/ \E t2 \in 2 .. t : \E i2 \in DOMAIN Body[b.txs[t2]].inputs :
       /\ t2 < t \/ i2 < i
       /\ Body[b.txs[t2]].inputs[i2].prev = o

\* block_value(depth): the subsidy, halved every HalvingInterval blocks.
BlockValue(d) == InitialSubsidy \div (2 ^ (d \div HalvingInterval))

(***************************************************************************)
(* Sigop counts, from the scripts.  Both depend on the tx bodies only, so  *)
(* each tx record caches them.                                            *)
(***************************************************************************)
\* tx_legacy_sigops_count: the legacy count of every input and output
\* script of the tx.
TxLegacySigopsCount(h) ==
  SumFunction([i \in DOMAIN Scripts[h].inputs |->
                 CountScriptSigops(ParseScript(Scripts[h].inputs[i]), FALSE)])
  + SumFunction([k \in DOMAIN Scripts[h].outputs |->
                   CountScriptSigops(ParseScript(Scripts[h].outputs[k]), FALSE)])

\* The count connect_input adds for input i of tx h: script_hash_signature_
\* operations_count of the output it spends and its own script.
ScriptHashCharge(h, i) ==
  LET o == Body[h].inputs[i].prev IN
  ScriptHashSigopsCount(ParseScript(Scripts[o.hash].outputs[o.index + 1]),
                        ParseScript(Scripts[h].inputs[i]))

\* Each tx record caches its sigops (tx_legacy_sigops_count) and each input
\* its p2shSigops (the count connect_input adds, where the index is in
\* range; past the end a junk script is read, which the model counts as
\* empty); the caches are the counts of the scripts.
ASSUME \A h \in TxIds :
         /\ Body[h].sigops = TxLegacySigopsCount(h)
         /\ \A i \in DOMAIN Body[h].inputs :
              LET o == Body[h].inputs[i].prev IN
              Body[h].inputs[i].p2shSigops =
                IF o.hash \in TxIds /\ o.index < Len(Body[o.hash].outputs)
                THEN ScriptHashCharge(h, i) ELSE 0

(***************************************************************************)
(* check_block and accept_block.                                           *)
(***************************************************************************)
\* validate_block::legacy_sigops_count.
LegacySigopsCount(b) ==
  SumFunction([t \in DOMAIN b.txs |-> Body[b.txs[t]].sigops])

\* The first check_transaction error of the block's txs, or Ok.
FirstTxError(b) ==
  LET bad == {t \in DOMAIN b.txs : CheckTransaction(Body[b.txs[t]]) # Ok}
  IN  IF bad = {} THEN Ok
      ELSE CheckTransaction(Body[b.txs[CHOOSE t \in bad :
                                         \A u \in bad : t <= u]])

CheckBlock(b) ==
  LET txError == FirstTxError(b) IN
  CASE b.txs = << >> \/ ~b.checks.sizeOk        -> "size_limits"
    [] ~HR!CheckProofOfWork(b.hdr.hash, b.hdr.bits)
                                                -> "proof_of_work"
    [] ~b.checks.timeOk                         -> "futuristic_timestamp"
    [] ~IsCoinbase(Body[b.txs[1]])              -> "first_not_coinbase"
    [] \E t \in 2 .. Len(b.txs) : IsCoinbase(Body[b.txs[t]])
                                                -> "extra_coinbases"
    [] txError # Ok                             -> txError
    [] Cardinality(ToSet(b.txs)) # Len(b.txs)   -> "duplicate"
    [] LegacySigopsCount(b) > MaxBlockSigops    -> "too_many_sigs"
    [] ~b.checks.merkleOk                       -> "merkle_mismatch"
    [] OTHER                                    -> Ok

AcceptBlock(b, d) ==
  CASE b.hdr.bits # HR!WorkRequired(d)         -> "incorrect_proof_of_work"
    [] ~b.checks.mtpOk                         -> "timestamp_too_early"
    [] ~b.checks.finalOk                       -> "non_final_transaction"
    [] ~HR!PassesCheckpoints(d, b.hdr.hash)    -> "checkpoints_failed"
    [] OTHER                                   -> Ok

\* bip16_enabled: the block's timestamp is past the switchover.
Bip16Enabled(b) == b.hdr.time >= Bip16SwitchoverTime

(***************************************************************************)
(* connect_block.                                                          *)
(***************************************************************************)
\* Mutant: only the first output of the earlier copy is looked at.
NotDuplicateOrFirstSpent(h) ==
  \/ ~TransactionExists(h)
  \/ IsOutputSpent(Outpoint(h, 0))

\* not_duplicate_or_spent: a tx whose hash is in the chain must have every
\* output of the earlier copy spent.
NotDuplicateOrSpent(h) ==
  \/ ~TransactionExists(h)
  \/ \A k \in 0 .. Len(Body[h].outputs) - 1 : IsOutputSpent(Outpoint(h, k))

\* connect_input for input i of tx t (positions are 1-based, the coinbase
\* is t = 1) at height d, given value_in and total_sigops so far.
ConnectInput(b, d, t, i, acc, junk) ==
  LET input == Body[b.txs[t]].inputs[i]
      o     == input.prev
      fail  == [acc EXCEPT !.ok = FALSE]
  IN  IF ~TransactionExists(o.hash) THEN fail
      ELSE
      LET prevTx  == Body[o.hash]
          inRange == o.index < Len(prevTx.outputs)
          value   == IF inRange THEN prevTx.outputs[o.index + 1] ELSE junk.value
          scriptOk == IF ~inRange THEN junk.scriptOk
                      ELSE IF Bip16Enabled(b) THEN input.sigOkBip16
                      ELSE input.sigOk
          sigops  == acc.sigops + (IF inRange THEN input.p2shSigops ELSE 0)
      IN  IF sigops > MaxBlockSigops THEN [fail EXCEPT !.sigops = sigops]
          ELSE IF value > MaxMoney THEN [fail EXCEPT !.sigops = sigops]
          ELSE IF IsCoinbase(prevTx) /\ d - conf[o.hash] < CoinbaseMaturity
            THEN [fail EXCEPT !.sigops = sigops]
          ELSE IF ~scriptOk THEN [fail EXCEPT !.sigops = sigops]
          ELSE IF IsOutputSpentWithin(b, o, t, i)
            THEN [fail EXCEPT !.sigops = sigops]
          ELSE [ok |-> acc.valueIn + value <= MaxMoney,
                valueIn |-> acc.valueIn + value, sigops |-> sigops]

\* validate_inputs: connect inputs i.. of tx t in order, stopping at the
\* first failure.
RECURSIVE ValidateInputs(_, _, _, _, _, _)
ValidateInputs(b, d, t, i, acc, junk) ==
  IF i > Len(Body[b.txs[t]].inputs) THEN acc
  ELSE LET c == ConnectInput(b, d, t, i, acc, junk) IN
       IF ~c.ok THEN c ELSE ValidateInputs(b, d, t, i + 1, c, junk)

\* The loop of connect_block over txs t.. (t >= 2), carrying fees and
\* total_sigops; [ec |-> Ok, ...] when every tx connects.
RECURSIVE ConnectTxs(_, _, _, _, _)
ConnectTxs(b, d, t, st, junk) ==
  IF t > Len(b.txs) THEN st
  ELSE
  LET tx      == Body[b.txs[t]]
      sigops  == st.sigops + tx.sigops
      inputs  == ValidateInputs(b, d, t, 1,
                   [ok |-> TRUE, valueIn |-> 0, sigops |-> sigops], junk)
      tally   == TallyFees(tx, inputs.valueIn, st.fees)
  IN  IF sigops > MaxBlockSigops THEN [st EXCEPT !.ec = "too_many_sigs"]
      ELSE IF ~inputs.ok THEN [st EXCEPT !.ec = "validate_inputs_failed"]
      ELSE IF ~tally.ok THEN [st EXCEPT !.ec = "fees_out_of_range"]
      ELSE ConnectTxs(b, d, t + 1,
                      [ec |-> Ok, fees |-> tally.fees, sigops |-> inputs.sigops],
                      junk)

ConnectBlock(b, d, junk) ==
  LET st == ConnectTxs(b, d, 2, [ec |-> Ok, fees |-> 0, sigops |-> 0], junk)
  IN  CASE d \notin Bip30Exceptions /\
           \E t \in DOMAIN b.txs : ~NotDuplicateOrSpent(b.txs[t])
                                       -> "duplicate_or_spent"
        [] st.ec # Ok                  -> st.ec
        [] TotalOutputValue(Body[b.txs[1]]) > BlockValue(d) + st.fees
                                       -> "coinbase_too_large"
        [] OTHER                       -> Ok

\* validate_block::start: the first error of the three phases, or Ok.
Start(b, d, junk) ==
  LET checked  == CheckBlock(b)
      accepted == AcceptBlock(b, d)
  IN  CASE checked # Ok  -> checked
        [] accepted # Ok -> accepted
        [] OTHER         -> ConnectBlock(b, d, junk)

(***************************************************************************)
(* The organizer (not under src/): offer a block, append it if valid.      *)
(***************************************************************************)
\* The outputs of confirmed txs, and the value of one.
Outputs ==
  UNION {{Outpoint(h, k) : k \in 0 .. Len(Body[h].outputs) - 1} :
           h \in {x \in TxIds : TransactionExists(x)}}

OutputValue(o) == Body[o.hash].outputs[o.index + 1]

\* Mutant: the coinbase's null previous output is counted as spent.
SpentByWithCoinbase(b) ==
  UNION {{Body[b.txs[t]].inputs[i].prev : i \in DOMAIN Body[b.txs[t]].inputs} :
           t \in 1 .. Len(b.txs)}

\* The outpoints the non-coinbase txs of b spend.
SpentBy(b) ==
  UNION {{Body[b.txs[t]].inputs[i].prev : i \in DOMAIN Body[b.txs[t]].inputs} :
           t \in 2 .. Len(b.txs)}

\* Appending a block confirms its txs at height d (a duplicate hash is
\* overwritten and its outputs are unspent again) and spends its inputs.
AppendBlock(b, d) ==
  LET hs == ToSet(b.txs) IN
  /\ conf' = [h \in TxIds |-> IF h \in hs THEN d ELSE conf[h]]
  /\ spent' = {o \in spent : o.hash \notin hs} \cup SpentBy(b)
  /\ tip' = d
  /\ lastTxs' = b.txs
  /\ created' = created + SumFunction([t \in DOMAIN b.txs |->
                                         TotalOutputValue(Body[b.txs[t]])])
  /\ destroyed' = destroyed + MapThenSumSet(OutputValue, SpentBy(b) \cap Outputs)
  /\ headers' = Append(headers, b.hdr)

\* The headers a block at height d may carry: a later timestamp, one of
\* the hashes, and the bits work_required demands or others.
NextHeaders(d) ==
  {[time |-> headers[d].time + delta, bits |-> bits, hash |-> hash] :
     delta \in Deltas, hash \in Hashes,
     bits \in {HR!WorkRequired(d)} \cup BadBits}

OfferBlock ==
  \E c \in Blocks, hdr \in NextHeaders(tip + 1), junk \in Junk :
    LET b == [checks |-> c.checks, txs |-> c.txs, hdr |-> hdr] IN
    IF Start(b, tip + 1, junk) = Ok THEN AppendBlock(b, tip + 1)
    ELSE UNCHANGED vars

Init ==
  /\ conf = [h \in TxIds |-> IF h = Genesis THEN 0 ELSE Unconfirmed]
  /\ spent = {}
  /\ tip = 0
  /\ lastTxs = <<Genesis>>
  /\ created = TotalOutputValue(Body[Genesis])
  /\ destroyed = 0
  /\ headers = << [time |-> 0, bits |-> HR!MaxBits, hash |-> 0] >>

Next == OfferBlock

Spec == Init /\ [][Next]_vars

(***************************************************************************)
(* Properties.                                                             *)
(***************************************************************************)
TypeOK ==
  /\ tip \in Nat
  /\ conf \in [TxIds -> {Unconfirmed} \cup 0 .. tip]
  /\ spent \subseteq [hash : TxIds, index : Nat]
  /\ lastTxs \in Seq(TxIds)
  /\ created \in Nat /\ destroyed \in Nat

UnspentValue == MapThenSumSet(OutputValue, Outputs \ spent)

\* The ledger as a coin set: each unspent output, born at the height of
\* the block that confirmed its tx.
Ledger == INSTANCE UtxoLedger
            WITH coins <- [o \in Outputs \ spent |-> conf[o.hash]],
                 height <- tip, block <- lastTxs

\* validate_block::start accepts exactly blocks the UTXO ledger may connect:
\* every block the organizer appends spends only unspent outputs, each
\* once, coinbases only when mature, creates no value, pays the coinbase
\* at most the subsidy plus fees and keeps both sigop counts within the
\* limit (spec 8.3, 8.4), and the chain's outputs then move exactly as
\* the coin set does, BIP30 overwrites included.
ImplementsUtxoLedger == Ledger!Spec

\* No inflation: whatever sequence of blocks the organizer appends, the
\* value held by unspent outputs never exceeds the subsidies issued so far
\* (connect_block bounds each coinbase by block_value plus the fees its
\* txs' inputs and outputs leave, and every spent output must exist, be
\* unspent in the chain and in the block, and be spent once).
SupplyBounded ==
  UnspentValue <= SumFunction([d \in 0 .. tip |-> BlockValue(d)])

\* BIP30: appending a block whose tx has the hash of an earlier tx with an
\* unspent output would overwrite that output and lose its value; outside
\* the two grandfathered heights no appended block loses value.
Lost == created - destroyed - UnspentValue

ValueLostOnlyAtExceptions ==
  [][tip' # tip /\ tip' \notin Bip30Exceptions => Lost' = Lost]_vars

=============================================================================
