# TLA+ models of the libbitcoin validation core

This directory holds TLA+ models of the validation code under `src/`. The code is
`src/src/validate.cpp`, with `pumpkin_buffer` from `src/include/bitcoin/session.hpp`.
It also holds the TLC configurations that check the models. `PROJECT.json` lists:

- every component and its status;
- every run, with what it checks;
- the mutants that show each checked property can fail;
- the map from each definition to the source lines it models;
- the findings;
- the hazards of the code.

## The system

- **Transaction rules.** `check_transaction`, `tally_fees` and `is_coinbase` are pure
  functions. Both validators use them.
- **TxValidator.** `validate_transaction` admits one transaction to the memory pool.
  It runs as a chain of continuations on a strand. Each continuation asks the
  blockchain one question and resumes in the next handler:
  - `start` calls `basic_checks` and then `fetch_transaction` for the tx itself;
  - `handle_duplicate_check` scans the pool for conflicts and calls `fetch_last_depth`;
  - `set_last_depth` starts the input loop;
  - for each input, `previous_tx_index`, then `handle_previous_tx` (or
    `search_pool_previous_tx` for a parent in the pool), then `connect_input` and
    `fetch_spend`;
  - `check_double_spend` moves to the next input or calls `check_fees`.

  While the queries are outstanding, other peers extend the chain and the service may
  stop. The validator holds the caller's pool buffer by reference, and its callbacks
  run on the pool owner's strand, so the owner may store other validated txs in the
  pool between two continuations.
- **BlockValidator.** `validate_block::start` is synchronous. It runs `check_block`
  (context-free), then `accept_block` (contextual header facts), then `connect_block`.
  `connect_block` runs the BIP30 check, then validates inputs tx by tx against the
  chain and earlier inputs of the block, then bounds the coinbase by subsidy plus fees.
- **Header rules.** `check_proof_of_work` decodes the compact `bits` and compares the
  header hash with the target. `accept_block` requires `bits == work_required()`, which
  retargets every `readjustment_interval` blocks from the clamped timespan. It also
  requires `passes_checkpoints`. The block validator applies these rules to the chain of
  headers below the block.
- **Sigop counting.** `count_script_sigops` counts signature operations, either legacy
  or accurate. `check_block` bounds a block's legacy count (`tx_legacy_sigops_count`
  over every input and output script). `connect_input` then adds, for each input,
  `script_hash_signature_operations_count` of the output it spends and its own script:
  the redeem script it pushes last, if the output is pay-to-script-hash, and the output
  script itself otherwise.
- **pumpkin_buffer.** The session uses it so that it does not request a tx several peers
  announce at once. A `std::set` answers `exists`. A circular `std::vector` expires old
  entries.
- **Not in this repository.** The chain store, the mempool container, script execution,
  `parse_script` and `session.cpp`. The models stand in for them with the simplest
  behaviour the code relies on, and mark those definitions `spec_modelled` in the map.

## Modules

| Module | Models | State | Actions |
|---|---|---|---|
| `TxRules` | check_transaction, tally_fees, coinbase test | none (operators) | none |
| `ValidateTransaction` | validate_transaction | `tx`, `pc`, `lastBlockDepth`, `valueIn`, `currentInput`, `parentDepth`, `unconfirmed`, `result`; environment: `height`, `tip`, `stopped`, `pool` | one per continuation: `Start`, `HandleDuplicateCheck`, `SetLastDepth`, `PreviousTxIndex` (with `SearchPoolPreviousTx` inline), `HandlePreviousTx`, `CheckDoubleSpend` (with `CheckFees`); environment: `MineBlock`, `Stop`, `PoolAdmit` |
| `HeaderRules` | check_proof_of_work, work_required, range_constraint, passes_checkpoints, compact encoding | `chain` of `[time, bits, hash]` (set by the instantiating module) | none (operators) |
| `ValidateBlock` | validate_block and a chain organizer | ledger `conf`, `spent`, `tip`, `headers`; history `lastTxs`, `created`, `destroyed` | `OfferBlock`: a block with a header from `NextHeaders`, `Start(b, tip+1, junk)` and, on success, `AppendBlock` |
| `UtxoLedger` | what block validation promises (spec 8.3, 8.4) | `coins` (outpoint → birth height), `height`, `block` | `Connect` |
| `HeaderChain` | the header part of start, on a chain of headers alone | `chain` | `OfferHeader`: validate the header for the next height and append it if valid |
| `SigopCount` | count_script_sigops, script_hash_signature_operations_count, parse_script | none (operators) | none |
| `Sigops` | the counts of `SigopCount` against reference definitions | `script` (an input script's bytes) | `Push`: one more byte |
| `PumpkinBuffer` | pumpkin_buffer | `lookup`, `expiry`, `pointer` | `StoreItem` (a caller's `store`) |
| `ExpiringSet` | what pumpkin_buffer promises | `window` | `Store` |

Notes on the modelling:

- **ValidateTransaction.**
  - `pc` names the continuation that runs next. Only one query is outstanding at a
    time, so one `pc` is enough.
  - The chain answers each query from its state at the time of the answer. `LookupEc`
    and `FetchSpendEc` return `service_stopped` once it stops.
  - `size_t` arithmetic is taken modulo `2^SizeWidth`.
  - `pool` is the buffer `pool_` refers to. `PoolAdmit` is the pool's owner storing a
    tx from `PoolArrivals` whose parents are known and whose inputs no pool tx spends.
    It happens only while the validation is in flight: once `handle_validate_` has run,
    the owner stores `tx_` itself.
- **ValidateBlock.**
  - The `connect_block` loops are the recursive operators `ConnectTxs` and
    `ValidateInputs`.
  - `ConnectInput` keeps the code's order of checks.
  - The out-of-range `outputs[index]` read at line 705 is undefined behaviour. It is a
    nondeterministic `junk` value and script verdict.
  - A block's header `hdr` is real: `HR == INSTANCE HeaderRules WITH chain <- headers`
    checks its proof of work, its bits against `work_required` and the checkpoints. BIP16
    is enabled by its timestamp.
  - The checks that need the clock, serialization, the merkle tree, `median_time_past`
    or `is_final` are verdict bits in `checks`.
  - Each tx record caches its legacy sigop count (`sigops`) and each input its P2SH
    count (`p2shSigops`), as `connect_block` and `connect_input` add them. The txs'
    serialized scripts are the constant `Scripts`. An `ASSUME` requires each cache to
    be what `TxLegacySigopsCount` (`tx_legacy_sigops_count`) and `ScriptHashCharge`
    (`script_hash_signature_operations_count` of the spent output) compute from them
    with `SigopCount`. TLC checks it once, before the search. Evaluating the counts
    inside `ConnectInput` gives the same results but is too slow to search. An input
    spending past the end of its parent's outputs reads a junk script, which the model
    counts as empty.
- **SigopCount and Sigops.**
  - A script is its bytes. `ParseScript` models `parse_script` (not in this repository):
    a byte 1..75 pushes that many following bytes, or all that remain; any other byte is
    an operation on its own. `IsScriptHash` models `script::type()` for
    `hash160 <push> equal`.
  - `CountScriptSigops` is a left fold of `SigopStep`, the loop body, over the operations.
  - `Bip16Count` is the reference for a P2SH spend (BIP16, Bitcoin Core's
    `GetP2SHSigOpCount`): nothing unless the output is P2SH and the input script only
    pushes; then the last pushed script, a multisig weighed by the `OP_n` right before
    it.
  - For an output that is not P2SH, `script_hash_signature_operations_count` counts the
    output script again, accurately, where BIP16 counts nothing. This over-counts only,
    so `ScriptHashCountCoversBip16` allows it. No run reports it separately.
  - `ImplementsUtxoLedger` maps the ledger to a coin set:
    `coins <- [o \in Outputs \ spent |-> conf[o.hash]]`, `height <- tip`,
    `block <- lastTxs`.
- **HeaderChain.**
  - Targets are scaled: a compact value is `size * Base^MantDigits + word`. The top bit
    of `word` is a sign.
  - `Decode` models `set_compact` digit by digit, and `Compact` models `compact()`,
    which truncates to `MantDigits` digits. Both are lossy exactly where Bitcoin's are.
  - `MC_HeaderChain` uses base 4 and 3 mantissa digits. `max_target` is 960, which
    encodes with a leading zero digit, as `0x1d00ffff` does.
  - `median_time_past` and finality are not under `src/`, so they are left out.
  - `HeaderRules` holds the operators. `HeaderChain` and `ValidateBlock` both instantiate
    them.
- **PumpkinBuffer.**
  - `Window` lists `expiry_` oldest first, starting at `pointer_`.
  - Under `INSTANCE ExpiringSet WITH window <- Window`, the abstract spec is a
    property of the buffer.

## Runs

| Run | Cfg | Expect | What it shows |
|---|---|---|---|
| `tx_admission` | `MC_ValidateTransaction.cfg` | pass | Checks `TypeOK`, `AcceptedInputsConnected`, `NoDoubleSpendAccepted`, `UnconfirmedExact` and `Termination` over 272 candidate txs × chain growth × stop × a parent arriving in the pool. |
| `tx_pool_race` | `MC_VT_PoolRace.cfg` | violation | A tx spending the candidate's input is stored in the pool after `handle_duplicate_check` scanned it. The candidate is still accepted, and both end up in the pool. |
| `tx_coinbase_maturity` | `MC_VT_AcceptedCoinbaseMature.cfg` | violation | A coinbase confirmed after `fetch_last_depth` wraps the `size_t` depth difference, and an immature coinbase is spent. |
| `tx_value_conserved` | `MC_VT_AcceptedValueConserved.cfg` | violation | `check_fees` ignores `tally_fees`, so outputs may exceed inputs. |
| `tx_inputs_distinct` | `MC_VT_AcceptedInputsDistinct.cfg` | violation | Two inputs spending one output are admitted. |
| `tx_stop_propagated` | `MC_VT_StopPropagated.cfg` | violation | `service_stopped` is reported as `duplicate`, `double_spend` or `input_not_found`. |
| `block_chain` | `MC_ValidateBlock.cfg` | pass | Checks `TypeOK`, `SupplyBounded`, `ValueLostOnlyAtExceptions` (BIP30) and `ImplementsUtxoLedger`: the validator with its organizer refines the UTXO ledger, whose `ValidBlock` includes coinbase maturity. |
| `block_oob_supply` | `MC_VB_SupplyOOB.cfg` | violation | Spending an output index past the end mints value: the spending tx `tX` passes the out-of-bounds value on in its own output. |
| `header_retarget` | `MC_HeaderChain.cfg` | pass | `NextWorkValid`: the target demanded of the next block is always one `check_proof_of_work` accepts. `RetargetWithinFactorFour`: at a readjustment, the target grows at most fourfold. |
| `sigops_legacy` | `MC_Sigops.cfg` | pass | On every input script of up to 4 bytes, spending any of three output scripts, the count `connect_input` charges is never below BIP16's. |
| `sigops_accurate` | `MC_SO_Accurate.cfg` | violation | The accurate count adds the raw opcode byte 81..96 of `OP_n`, not n. |
| `pumpkin_guarded` | `MC_PumpkinBuffer.cfg` | pass | With callers that store only unknown items, the buffer refines `ExpiringSet`, and `exists` answers exactly for the window. |

### Bounds

- **Transaction runs.** The setup lets every branch of the pipeline happen:
  - six txs: a coinbase at depth 0, a confirmed parent, a pool parent, a tx outside the
    pool, a coinbase the next block may carry, and a tx another validation may store in
    the pool meanwhile (`m2`);
  - the chain starts at depth 2 and may grow to 4, with coinbase maturity 2;
  - candidates have one or two inputs, drawn from nine choices. These include a missing
    index, a failing script, the null outpoint and an output of `m2`.
  - `tx_admission` lets `m2` arrive, a parent some candidates need. `tx_pool_race` also
    lets `s1` arrive, which spends `p1:1` as some candidates do.

  With this setup:
  - a parent can be confirmed mid-validation;
  - a coinbase is exactly at the maturity boundary;
  - a pool parent can be confirmed before its input is reached;
  - the service can stop before any query.

  `size_t` is 16 bits wide. Wrap-around needs only `parent_depth > last_block_depth`, not
  a particular width.
- **Block runs.** The blocks append at most 4 heights (`CONSTRAINT HeightBound`). The
  subsidy halves every 3 blocks. The menu of blocks includes:
  - two spends of one output: across blocks, by two txs of one block, and by two
    inputs of one tx (`t7`);
  - an immature coinbase spend;
  - a tx that fails only under BIP16;
  - sigops at the limit;
  - a coinbase that repeats an earlier hash, at a BIP30 exception height;
  - a tx paying out more than its input;
  - a block whose legacy sigops fit but whose P2SH sigops then exceed the limit.

  Headers follow their parent by 1 or 40 s, with hash 0 or 700, and carry the required
  bits or a wrong valid target. So the target retargets down and back up, a hash can
  miss it, the checkpoint at height 3 can fail, and BIP16 switches on at time 41.
- **Header run.** Chains grow while they hold at most 6 headers, genesis included
  (`HeightBound`). The 7th header is validated and appended, but the chain it makes is
  not extended. The run covers:
  - timestamps 1, 8 or 40 s apart, with `target_timespan` 8 and an interval of 2, so
    both timespan clamps are reached and three readjustments happen;
  - offered bits that are the required value, a wrong valid target, a negative target
    or one above the maximum;
  - hashes 0, 100 and 700, with a checkpoint at height 3.

  Three quarterings take the target from 960 down to 15. A longer run of fast blocks
  would reach target 0 only because of the scaling: Bitcoin's 256-bit target needs more
  than a hundred consecutive quarterings to get there.
- **Sigops run.** It covers every input script of up to 4 bytes over 13 byte values:
  the four checksig opcodes, `OP_1`..`OP_16` as 81, 82 and 96, pushes of 1, 2 and 3
  bytes, `OP_0`, and 80 and 97 (`OP_RESERVED` and `OP_NOP`) on either side of the
  small numbers. It spends three output scripts: P2SH, a
  checksig and `OP_2 CHECKMULTISIG`. Four bytes hold a redeem script of `OP_n` and a
  multisig pushed as P2SH data, and a push-only test that fails.

  `ScriptHashCountCoversBip16` holds only because `last_number` keeps the raw byte
  81..96, which is never less than n. Storing n instead (the mutant `SigopStepDecoded`)
  under-counts a redeem script such as `OP_2 NOP CHECKMULTISIG`, which BIP16 weighs 20.
  The over-count that the raw byte causes is the `sigops_accurate` finding.
- **Buffer run.** It uses 5 items and a capacity of 3, so the pointer wraps several
  times.

### Fairness

`ValidateTransaction` assumes weak fairness of `ValidatorStep` only. The strand runs
every handler it is posted, and the blockchain answers every query, with
`service_stopped` once it stops. Nothing obliges a block to be mined or the service to
stop, and nothing obliges the pool's owner to store another tx, so `MineBlock`, `Stop`
and `PoolAdmit` carry no fairness. The other modules check only safety.

### Deadlock

- The transaction runs say `CHECK_DEADLOCK FALSE`. A validation that has reported, on a
  chain at its height bound and a stopped service, has nothing left to do.
- The block runs stop at the height bound through a `CONSTRAINT` and do not deadlock.
  A rejected block is a stuttering step.

## What is not modelled, and the plan

- **Order of work:**
  - `TxRules`, `ValidateTransaction`, `HeaderRules`, `HeaderChain`, `ValidateBlock`,
    `UtxoLedger`, `SigopCount`, `Sigops`, `PumpkinBuffer` and `ExpiringSet` are written
    and checked.
  - `HeaderChain` models `work_required`, `range_constraint`, `check_proof_of_work` and
    `passes_checkpoints`.
  - `ValidateBlock` uses the header rules through `HeaderRules` and refines `UtxoLedger`.
  - `SigopCount` models the sigop counts on serialized scripts. `ValidateBlock` caches
    them per tx and checks the caches against the scripts.
  - Every operation of `validate.cpp` that changes state is an action. Every rule it
    applies is an operator. What remains is out of reach for the reasons below.
  - Not checked: the BIP16 assertion at `validate.cpp:728`. A low block with a late
    timestamp reaches it in `ValidateBlock`, but whether the organizer ever offers one
    depends on fork handling outside this repository. The assertion is compiled out of
    release builds.
- **Pool contents.** The model admits only txs of a fixed menu to the pool and never
  removes one. Eviction and replacement belong to the mempool container, which is not
  in this repository.
- **Duplicate stores in pumpkin_buffer.** `store` asserts its precondition only when an
  overwrite finds nothing to erase. `PumpkinBuffer` with `Guarded = FALSE` lets a
  caller store a held item. `exists` then turns false while the item is still among the
  last `max_size` stores. Whether `session` ever does this depends on `session.cpp`, so
  no run checks it; the hazard list records it.
- **Script encodings.** `ParseScript` knows only the direct pushes 1..75. The pushdata
  opcodes 76-78 are not among the bytes enumerated.
- **session.** Its logic is not in `src/`. `PumpkinBuffer` takes the caller's discipline
  (`Guarded`) as a constant.
- **Error taxonomy.** `error.hpp` is an enumeration with message strings and no state.
  The models use its codes as strings.
- **Left out.** Serialization, hashing, logging and the error message strings.
