------------------------------ MODULE TxRules ------------------------------
(***************************************************************************)
(* The context-free transaction rules shared by validate_transaction and   *)
(* validate_block (src/src/validate.cpp): check_transaction, tally_fees,   *)
(* and the coinbase / null-outpoint predicates they rely on.              *)
(*                                                                         *)
(* A transaction is a record                                               *)
(*   [inputs  |-> Seq([prev |-> Outpoint, sigOk |-> BOOLEAN,               *)
(*                     scriptSize |-> Nat]),                               *)
(*    outputs |-> Seq(Nat)]                                                *)
(* where an output is abstracted to its value, sigOk is the (black-box,    *)
(* deterministic) result of running the previous output script against    *)
(* the input script, and scriptSize the serialized size of input_script.  *)
(***************************************************************************)
EXTENDS Naturals, Sequences, Functions

CONSTANTS
  MaxMoney,    \* max_money(): 21e6 * 10^8 satoshis, scaled down
  NullHash,    \* the all-zero hash of a null outpoint
  NullIndex    \* the all-ones (0xffffffff) index of a null outpoint

\* The value std::error_code() takes when a check succeeds.
Ok == "ok"

NullOutpoint == [hash |-> NullHash, index |-> NullIndex]

\* previous_output_is_null (not under src/; spec 3: all-ones index, zero hash)
PreviousOutputIsNull(o) == o = NullOutpoint

\* is_coinbase (not under src/; spec 3: one input with a null outpoint)
IsCoinbase(tx) ==
  /\ Len(tx.inputs) = 1
  /\ PreviousOutputIsNull(tx.inputs[1].prev)

\* total_output_value(tx): the sum of the output values.
TotalOutputValue(tx) == SumFunction(tx.outputs)

\* The output loop of check_transaction: some output, or the running sum of
\* the outputs up to it, exceeds max_money().
OutputValueOverflow(tx) ==
  \E k \in 1 .. Len(tx.outputs) :
     \/ tx.outputs[k] > MaxMoney
     \/ SumFunctionOnSet(tx.outputs, 1 .. k) > MaxMoney

\* validate_transaction::check_transaction: the first failing rule, or Ok.
CheckTransaction(tx) ==
  CASE tx.inputs = << >> \/ tx.outputs = << >> -> "empty_transaction"
    [] OutputValueOverflow(tx)                  -> "output_value_overflow"
    [] IsCoinbase(tx) /\ (tx.inputs[1].scriptSize < 2 \/
                          tx.inputs[1].scriptSize > 100)
                                                -> "invalid_coinbase_script_size"
    [] ~IsCoinbase(tx) /\ \E k \in 1 .. Len(tx.inputs) :
                             PreviousOutputIsNull(tx.inputs[k].prev)
                                                -> "previous_output_null"
    [] OTHER                                    -> Ok

\* Mutant: outputs above the inputs are not rejected (the difference is
\* taken as if it could not be negative).
TallyFeesUnchecked(tx, valueIn, totalFees) ==
  LET fees == totalFees + (valueIn - TotalOutputValue(tx))
  IN  [ok |-> fees <= MaxMoney, fees |-> fees]

\* validate_transaction::tally_fees: the returned bool and the new value of
\* the total_fees out-parameter (updated before the final bound check).
TallyFees(tx, valueIn, totalFees) ==
  LET valueOut == TotalOutputValue(tx)
      fees     == totalFees + (valueIn - valueOut)
  IN  IF valueIn < valueOut
        THEN [ok |-> FALSE, fees |-> totalFees]
        ELSE [ok |-> fees <= MaxMoney, fees |-> fees]
=============================================================================
