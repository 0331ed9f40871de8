---------------------------- MODULE HeaderChain ----------------------------
(***************************************************************************)
(* The header rules of validate_block (HeaderRules) on a chain of headers  *)
(* that a peer extends one offered header at a time: the proof of work    *)
(* check of check_block, and the bits and checkpoint checks of            *)
(* accept_block.                                                           *)
(***************************************************************************)
EXTENDS HeaderRules

CONSTANTS
  Hashes,                \* header hashes a peer may offer
  Deltas,                \* seconds between consecutive timestamps
  BadBits,               \* bits other than work_required a peer may offer
  MaxHeight              \* the highest block explored

\* The header part of validate_block::start at height d: check_block's
\* proof of work, then accept_block's bits and checkpoint checks.
HeaderEc(d, h) ==
  CASE ~CheckProofOfWork(h.hash, h.bits) -> "proof_of_work"
    [] h.bits # WorkRequired(d)            -> "incorrect_proof_of_work"
    [] ~PassesCheckpoints(d, h.hash)       -> "checkpoints_failed"
    [] OTHER                               -> "ok"

\* A peer offers a header for the next height; it is appended if valid.
OfferHeader ==
  \E delta \in Deltas, hash \in Hashes, bits \in {WorkRequired(Tip)} \cup BadBits :
    LET h == [time |-> chain[Tip].time + delta, bits |-> bits, hash |-> hash] IN
    IF HeaderEc(Tip, h) = "ok" THEN chain' = Append(chain, h)
    ELSE UNCHANGED chain

Init == chain = << [time |-> 0, bits |-> MaxBits, hash |-> 0] >>

Next == OfferHeader

Spec == Init /\ [][Next]_chain

HeightBound == Tip <= MaxHeight

(***************************************************************************)
(* Properties.                                                             *)
(***************************************************************************)
\* The chain never stalls: whatever timestamps the past headers carried,
\* the target work_required demands of the next block is one
\* check_proof_of_work accepts (above zero, at most max_target), so a
\* header with a small enough hash can always extend it.
NextWorkValid ==
  LET target == Decode(WorkRequired(Tip)) IN 0 < target /\ target <= MaxTarget

\* At every readjustment height of the chain the target grows by at most a
\* factor of four over the previous block's (the clamp of the timespan to
\* four times target_timespan), through the lossy compact encoding.
RetargetWithinFactorFour ==
  \A i \in 2 .. Len(chain) :
    Height(i) % ReadjustmentInterval = 0 =>
      Decode(chain[i].bits) <= 4 * Decode(chain[i - 1].bits)

=============================================================================
