------------------------- MODULE ValidateTransaction -------------------------
(***************************************************************************)
(* validate_transaction (src/src/validate.cpp, lines 28-290): admission of *)
(* one loose transaction to the memory pool.  The validator is a chain of  *)
(* continuations run on a strand; every blockchain query                   *)
(* (fetch_transaction, fetch_last_depth, fetch_transaction_index,          *)
(* fetch_spend) suspends it, and the answer is computed from the chain as  *)
(* it is when the query is served.  The chain keeps growing while the      *)
(* validator is suspended (MineBlock) and the blockchain service may stop  *)
(* (Stop), after which every query fails with service_stopped.             *)
(*                                                                         *)
(* pc names the continuation the validator waits for:                      *)
(*   "start"     start() not yet called                                    *)
(*   "dupCheck"  handle_duplicate_check   (fetch_transaction(tx_hash))     *)
(*   "lastDepth" set_last_depth           (fetch_last_depth)               *)
(*   "txIndex"   previous_tx_index        (fetch_transaction_index)        *)
(*   "prevTx"    handle_previous_tx       (fetch_transaction(prev hash))   *)
(*   "spend"     check_double_spend       (fetch_spend(previous_output))   *)
(*   "done"      handle_validate_ has been called                          *)
(* Only one query is outstanding at a time, so the strand never holds two  *)
(* callbacks of this validator; a reply and the callback that consumes it  *)
(* are one step.                                                           *)
(***************************************************************************)
EXTENDS TxRules, Integers, SequencesExt

CONSTANTS
  TxIds,             \* hashes of the transactions the chain or pool may hold
  Body,              \* Body[h]: the transaction whose hash is h
  PoolTxs,           \* the pool_buffer at start: hashes of memory-pool txs
  PoolArrivals,      \* txs the pool's owner may admit while this one waits
  CandHash,          \* the hash of a candidate that is no member of Body
  Candidates,        \* the transactions tx_ may be
  InitHeight,        \* confirmation height of each tx at start, or Unconfirmed
  InitTip,           \* the chain's last depth at start
  MaxHeight,         \* bound on chain growth during one validation
  Minable,           \* txs that other peers may get confirmed meanwhile
  CoinbaseMaturity,  \* coinbase_maturity (100 in constants.hpp)
  SizeWidth          \* bit width of size_t

ASSUME PoolTxs \cup PoolArrivals \cup Minable \subseteq TxIds
ASSUME CandHash \notin TxIds
ASSUME \A h \in PoolTxs \cup PoolArrivals : ~IsCoinbase(Body[h])

Unconfirmed == -1
SizeMax == 2 ^ SizeWidth

VARIABLES
  tx,              \* tx_
  height,          \* chain: confirmation height of each tx hash
  tip,             \* chain: last depth
  stopped,         \* the blockchain service has stopped
  pool,            \* the pool_buffer pool_ refers to
  pc,              \* the continuation the validator waits for
  lastBlockDepth,  \* last_block_depth_
  valueIn,         \* value_in_
  currentInput,    \* current_input_ (0-based, as in the code)
  parentDepth,     \* parent_depth bound into the handle_previous_tx callback
  unconfirmed,     \* unconfirmed_
  result           \* the (ec, index_list) handle_validate_ was called with

chainVars == <<height, tip, stopped, pool>>
valVars == <<pc, lastBlockDepth, valueIn, currentInput, parentDepth,
             unconfirmed, result>>
vars == <<tx, chainVars, valVars>>

NoResult == [ec |-> "none", indexes |-> << >>]

(***************************************************************************)
(* Hashing, the pool and the chain as the oracle answers from it.          *)
(***************************************************************************)
\* hash_transaction: the hash of a body (collision-free).
HashTransaction(t) ==
  IF \E h \in TxIds : Body[h] = t THEN CHOOSE h \in TxIds : Body[h] = t
  ELSE CandHash

TxHash == HashTransaction(tx)

\* validate_transaction::fetch: the pool holds a tx with this hash.
Fetch(h) == h \in pool

\* validate_transaction::is_spent: some pool tx spends this outpoint.
IsSpent(o) == \E e \in pool : \E k \in DOMAIN Body[e].inputs :
                Body[e].inputs[k].prev = o

Confirmed(h) == h \in TxIds /\ height[h] # Unconfirmed

SpendsIn(t, o) == \E k \in DOMAIN Body[t].inputs : Body[t].inputs[k].prev = o

SpentInChain(o) == \E t \in TxIds : Confirmed(t) /\ SpendsIn(t, o)

\* The error code of a chain lookup of h: service_stopped once the service
\* stopped, else Ok when h is confirmed and not_found otherwise.
LookupEc(h) ==
  IF stopped THEN "service_stopped"
  ELSE IF Confirmed(h) THEN Ok ELSE "not_found"

\* The error code fetch_spend answers for outpoint o.
FetchSpendEc(o) ==
  IF stopped THEN "service_stopped"
  ELSE IF SpentInChain(o) THEN Ok ELSE "unspent_output"

CurrentPrev == tx.inputs[currentInput + 1].prev

(***************************************************************************)
(* The pure steps of the validator.                                        *)
(***************************************************************************)
\* validate_transaction::is_standard
IsStandard == TRUE

\* validate_transaction::basic_checks
BasicChecks ==
  LET ec == CheckTransaction(tx) IN
  CASE ec # Ok               -> ec
    [] IsCoinbase(tx)        -> "coinbase_transaction"
    [] ~IsStandard           -> "is_not_standard"
    [] Fetch(TxHash)         -> "duplicate"
    [] OTHER                 -> Ok

\* validate_transaction::connect_input: whether input i (0-based) of t
\* connects to prevTx, and value_in after the call.  depth_difference is a
\* size_t, so last_block_depth - parent_depth wraps modulo 2^SizeWidth.
\* Mutant: the script of the previous output is never run.
ConnectInputSkipsScript(t, i, prevTx, pDepth, lastDepth, vIn) ==
  LET input == t.inputs[i + 1]
      idx   == input.prev.index
      fail  == [ok |-> FALSE, valueIn |-> vIn]
  IN  IF idx >= Len(prevTx.outputs) THEN fail
      ELSE LET value == prevTx.outputs[idx + 1] IN
        IF value > MaxMoney THEN fail
        ELSE IF IsCoinbase(prevTx) /\
                (lastDepth - pDepth) % SizeMax < CoinbaseMaturity THEN fail
        ELSE [ok |-> vIn + value <= MaxMoney, valueIn |-> vIn + value]

ConnectInput(t, i, prevTx, pDepth, lastDepth, vIn) ==
  LET input == t.inputs[i + 1]
      idx   == input.prev.index
      fail  == [ok |-> FALSE, valueIn |-> vIn]
  IN  IF idx >= Len(prevTx.outputs) THEN fail
      ELSE LET value == prevTx.outputs[idx + 1] IN
        IF value > MaxMoney THEN fail
        ELSE IF IsCoinbase(prevTx) /\
                (lastDepth - pDepth) % SizeMax < CoinbaseMaturity THEN fail
        ELSE IF ~input.sigOk THEN fail
        ELSE [ok |-> vIn + value <= MaxMoney, valueIn |-> vIn + value]

\* handle_validate_(ec, indexes): the one final callback.
Finish(ec, indexes) ==
  /\ result' = [ec |-> ec, indexes |-> indexes]
  /\ pc' = "done"

\* handle_previous_tx after a successful fetch: connect the input, then
\* issue fetch_spend for its previous output.
ConnectAndFetchSpend(prevTx, pDepth) ==
  LET c == ConnectInput(tx, currentInput, prevTx, pDepth,
                        lastBlockDepth, valueIn)
  IN  /\ valueIn' = c.valueIn
      /\ IF c.ok THEN pc' = "spend" /\ UNCHANGED result
         ELSE Finish("validate_inputs_failed", << >>)

(***************************************************************************)
(* Validator actions: one per continuation.                                *)
(***************************************************************************)
Start ==
  /\ pc = "start"
  /\ IF BasicChecks # Ok THEN Finish(BasicChecks, << >>)
     ELSE pc' = "dupCheck" /\ UNCHANGED result
  /\ UNCHANGED <<tx, chainVars, lastBlockDepth, valueIn, currentInput,
                 parentDepth, unconfirmed>>

\* Mutant: the pool conflict scan stops one input short.
HandleDuplicateCheckSkipsLastInput ==
  /\ pc = "dupCheck"
  /\ CASE LookupEc(TxHash) # "not_found" -> Finish("duplicate", << >>)
       [] \E k \in 1 .. Len(tx.inputs) - 1 : IsSpent(tx.inputs[k].prev)
                                       -> Finish("double_spend", << >>)
       [] OTHER -> pc' = "lastDepth" /\ UNCHANGED result
  /\ UNCHANGED <<tx, chainVars, lastBlockDepth, valueIn, currentInput,
                 parentDepth, unconfirmed>>

HandleDuplicateCheck ==
  /\ pc = "dupCheck"
  /\ CASE LookupEc(TxHash) # "not_found" -> Finish("duplicate", << >>)
       [] \E k \in DOMAIN tx.inputs : IsSpent(tx.inputs[k].prev)
                                       -> Finish("double_spend", << >>)
       [] OTHER -> pc' = "lastDepth" /\ UNCHANGED result
  /\ UNCHANGED <<tx, chainVars, lastBlockDepth, valueIn, currentInput,
                 parentDepth, unconfirmed>>

\* Mutant: on a fetch_last_depth error the handler is not called.
SetLastDepthSilentOnError ==
  /\ pc = "lastDepth"
  /\ IF stopped
       THEN UNCHANGED <<pc, result, lastBlockDepth, valueIn, currentInput>>
       ELSE /\ lastBlockDepth' = tip
            /\ valueIn' = 0
            /\ currentInput' = 0
            /\ pc' = "txIndex"
            /\ UNCHANGED result
  /\ UNCHANGED <<tx, chainVars, parentDepth, unconfirmed>>

SetLastDepth ==
  /\ pc = "lastDepth"
  /\ IF stopped
       THEN Finish("service_stopped", << >>)
            /\ UNCHANGED <<lastBlockDepth, valueIn, currentInput>>
       ELSE /\ lastBlockDepth' = tip
            /\ valueIn' = 0
            /\ currentInput' = 0
            /\ pc' = "txIndex"
            /\ UNCHANGED result
  /\ UNCHANGED <<tx, chainVars, parentDepth, unconfirmed>>

\* Mutant: the pool parent is used but the input is not recorded.
SearchPoolForgetsUnconfirmed ==
  LET h == CurrentPrev.hash IN
  IF ~Fetch(h)
    THEN Finish("input_not_found", <<currentInput>>)
         /\ UNCHANGED <<valueIn, unconfirmed>>
    ELSE /\ ConnectAndFetchSpend(Body[h], 0)
         /\ UNCHANGED unconfirmed

\* Mutant: the 1-based position of the input is recorded.
SearchPoolRecordsNextIndex ==
  LET h == CurrentPrev.hash IN
  IF ~Fetch(h)
    THEN Finish("input_not_found", <<currentInput>>)
         /\ UNCHANGED <<valueIn, unconfirmed>>
    ELSE /\ ConnectAndFetchSpend(Body[h], 0)
         /\ unconfirmed' = Append(unconfirmed, currentInput + 1)

\* search_pool_previous_tx: handle_previous_tx runs inline on the pool copy
\* with parent_depth 0, and the input is recorded as unconfirmed after it.
SearchPoolPreviousTx ==
  LET h == CurrentPrev.hash IN
  IF ~Fetch(h)
    THEN Finish("input_not_found", <<currentInput>>)
         /\ UNCHANGED <<valueIn, unconfirmed>>
    ELSE /\ ConnectAndFetchSpend(Body[h], 0)
         /\ unconfirmed' = Append(unconfirmed, currentInput)

PreviousTxIndex ==
  /\ pc = "txIndex"
  /\ IF LookupEc(CurrentPrev.hash) # Ok
       THEN SearchPoolPreviousTx /\ UNCHANGED parentDepth
       ELSE /\ parentDepth' = height[CurrentPrev.hash]
            /\ pc' = "prevTx"
            /\ UNCHANGED <<valueIn, unconfirmed, result>>
  /\ UNCHANGED <<tx, chainVars, lastBlockDepth, currentInput>>

HandlePreviousTx ==
  /\ pc = "prevTx"
  /\ IF LookupEc(CurrentPrev.hash) # Ok
       THEN Finish("input_not_found", <<currentInput>>) /\ UNCHANGED valueIn
       ELSE ConnectAndFetchSpend(Body[CurrentPrev.hash], parentDepth)
  /\ UNCHANGED <<tx, chainVars, lastBlockDepth, currentInput, parentDepth,
                 unconfirmed>>

\* check_fees: the fee tally_fees computes is discarded.
CheckFees == Finish(Ok, unconfirmed)

CheckDoubleSpend ==
  /\ pc = "spend"
  /\ IF FetchSpendEc(CurrentPrev) = "unspent_output"
       THEN /\ currentInput' = currentInput + 1
            /\ IF currentInput + 1 = Len(tx.inputs) THEN CheckFees
               ELSE pc' = "txIndex" /\ UNCHANGED result
       ELSE Finish("double_spend", << >>) /\ UNCHANGED currentInput
  /\ UNCHANGED <<tx, chainVars, lastBlockDepth, valueIn, parentDepth,
                 unconfirmed>>

ValidatorStep ==
  \/ Start
  \/ HandleDuplicateCheck
  \/ SetLastDepth
  \/ PreviousTxIndex
  \/ HandlePreviousTx
  \/ CheckDoubleSpend

(***************************************************************************)
(* The environment: other peers extend the chain, the service stops.      *)
(***************************************************************************)
\* A tx the next block may confirm: its parents are confirmed and the
\* outputs it spends exist and are unspent.
Eligible(t) ==
  /\ ~Confirmed(t)
  /\ \/ IsCoinbase(Body[t])
     \/ \A k \in DOMAIN Body[t].inputs :
          LET o == Body[t].inputs[k].prev IN
          /\ Confirmed(o.hash)
          /\ o.index < Len(Body[o.hash].outputs)
          /\ ~SpentInChain(o)

MineBlock ==
  /\ tip < MaxHeight
  /\ tip' = tip + 1
  /\ \/ UNCHANGED height
     \/ \E t \in Minable : Eligible(t) /\ height' = [height EXCEPT ![t] = tip + 1]
  /\ UNCHANGED <<tx, stopped, pool, valVars>>

Stop ==
  /\ ~stopped
  /\ stopped' = TRUE
  /\ UNCHANGED <<tx, height, tip, pool, valVars>>

\* pool_ is a reference to the pool's buffer, and the callbacks run on the
\* strand of the pool's owner: between two continuations the owner may
\* store another tx whose own validation succeeded (its parents known, no
\* pool tx spending its inputs). Once handle_validate_ has run, the owner
\* stores tx_ itself, so only admissions before then race with it.
PoolAdmit ==
  /\ ~stopped
  /\ pc # "done"
  /\ \E t \in PoolArrivals \ pool :
       /\ ~Confirmed(t)
       /\ \A k \in DOMAIN Body[t].inputs :
            LET o == Body[t].inputs[k].prev IN
            /\ Confirmed(o.hash) \/ Fetch(o.hash)
            /\ o.index < Len(Body[o.hash].outputs)
            /\ ~IsSpent(o) /\ ~SpentInChain(o)
       /\ pool' = pool \cup {t}
  /\ UNCHANGED <<tx, height, tip, stopped, valVars>>

Init ==
  /\ tx \in Candidates
  /\ height = InitHeight
  /\ tip = InitTip
  /\ stopped = FALSE
  /\ pool = PoolTxs
  /\ pc = "start"
  /\ lastBlockDepth = 0
  /\ valueIn = 0
  /\ currentInput = 0
  /\ parentDepth = 0
  /\ unconfirmed = << >>
  /\ result = NoResult

Next == ValidatorStep \/ MineBlock \/ Stop \/ PoolAdmit

\* The strand runs every posted callback and the blockchain answers every
\* query (with service_stopped if need be); mining and stopping are not
\* obliged to happen.
Spec == Init /\ [][Next]_vars /\ WF_vars(ValidatorStep)

(***************************************************************************)
(* Properties.                                                             *)
(***************************************************************************)
TypeOK ==
  /\ tx \in Candidates
  /\ height \in [TxIds -> {Unconfirmed} \cup 0 .. MaxHeight]
  /\ tip \in 0 .. MaxHeight
  /\ stopped \in BOOLEAN
  /\ pc \in {"start", "dupCheck", "lastDepth", "txIndex", "prevTx", "spend",
             "done"}
  /\ lastBlockDepth \in 0 .. MaxHeight
  /\ valueIn \in 0 .. 2 * MaxMoney
  /\ currentInput \in 0 .. Len(tx.inputs)
  /\ parentDepth \in 0 .. MaxHeight
  /\ unconfirmed \in Seq(0 .. Len(tx.inputs) - 1)
  /\ result.ec \in STRING
  /\ result.indexes \in Seq(0 .. Len(tx.inputs) - 1)

Accepted == result.ec = Ok

ParentOf(k) == tx.inputs[k].prev.hash

SpentValue(k) == Body[ParentOf(k)].outputs[tx.inputs[k].prev.index + 1]

\* A parent the validator could have found confirmed when it asked, which
\* it did after reading last_block_depth_.
ConfirmedBy(h, d) == Confirmed(h) /\ height[h] <= d

\* When handle_validate_ reports success, the per-input loop, driven by
\* current_input_ across five kinds of callbacks, has connected every input
\* exactly once: each spends an existing output of a tx in the chain or the
\* pool, its script ran true, every coinbase parent already confirmed at the
\* depth read by set_last_depth is mature at that depth, and value_in_ is
\* the sum of the spent outputs.
AcceptedInputsConnected ==
  Accepted =>
    /\ \A k \in DOMAIN tx.inputs :
         LET h == ParentOf(k) IN
         /\ h \in TxIds
         /\ Confirmed(h) \/ Fetch(h)
         /\ tx.inputs[k].prev.index < Len(Body[h].outputs)
         /\ tx.inputs[k].sigOk
         /\ IsCoinbase(Body[h]) /\ ConfirmedBy(h, lastBlockDepth)
              => lastBlockDepth - height[h] >= CoinbaseMaturity
    /\ valueIn = SumFunction([k \in DOMAIN tx.inputs |-> SpentValue(k)])
    /\ valueIn <= MaxMoney

\* A transaction the validator accepts is not in the pool snapshot, no pool
\* tx spends any of its previous outputs (handle_duplicate_check), and no
\* tx the chain held when last_block_depth_ was read spends one either
\* (check_double_spend) -- although the chain grows between the checks.
NoDoubleSpendAccepted ==
  Accepted =>
    /\ ~Fetch(TxHash)
    /\ \A k \in DOMAIN tx.inputs :
         /\ ~IsSpent(tx.inputs[k].prev)
         /\ \A t \in TxIds : ConfirmedBy(t, lastBlockDepth)
                               => ~SpendsIn(t, tx.inputs[k].prev)

\* The index_list of a success lists, in increasing order, exactly the
\* inputs whose parent came from the pool (search_pool_previous_tx): a
\* listed parent was not yet confirmed when the loop began, an unlisted one
\* is confirmed.
UnconfirmedExact ==
  Accepted =>
    /\ IsSorted(result.indexes, <)
    /\ \A i \in 0 .. Len(tx.inputs) - 1 :
         LET h == ParentOf(i + 1) IN
         IF i \in ToSet(result.indexes)
           THEN Fetch(h) /\ ~ConfirmedBy(h, lastBlockDepth)
           ELSE Confirmed(h)

\* Every validation ends: handle_validate_ is eventually called, whatever
\* the chain and the service do meanwhile.
Termination == <>(pc = "done")

\* Spec 8.5 / coinbase maturity: a coinbase output is spent only once it has
\* CoinbaseMaturity confirmations at the depth the validator read.
AcceptedCoinbaseMature ==
  Accepted =>
    \A k \in DOMAIN tx.inputs :
      LET h == ParentOf(k) IN
      IsCoinbase(Body[h]) /\ Confirmed(h)
        => height[h] + CoinbaseMaturity <= lastBlockDepth

\* An accepted transaction does not pay out more than its inputs hold
\* (check_fees calls tally_fees).
AcceptedValueConserved == Accepted => TotalOutputValue(tx) <= valueIn

\* An accepted transaction spends each previous output at most once.
AcceptedInputsDistinct ==
  Accepted =>
    \A j, k \in DOMAIN tx.inputs : j # k => tx.inputs[j].prev # tx.inputs[k].prev

\* Spec 4.2 / 5: an oracle error other than not_found and unspent_output,
\* such as service_stopped, is propagated as the received error kind.
StopPropagated ==
  [][pc \notin {"start", "done"} /\ pc' = "done" /\ stopped
       => result'.ec = "service_stopped"]_vars

=============================================================================
