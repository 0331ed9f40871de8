--------------------------- MODULE MC_HeaderChain ---------------------------
(***************************************************************************)
(* HeaderChain scaled to base-4 digits and a 3-digit mantissa (sign bit    *)
(* 32): max_target 960 encodes, like Bitcoin's 0x1d00ffff, with a leading *)
(* zero digit.  target_timespan is 8 seconds and the readjustment interval *)
(* 2 blocks, so timestamps 1, 8 or 40 seconds apart reach both clamps.     *)
(***************************************************************************)
EXTENDS HeaderChain, TLC

\* A checkpoint at height 3 requires hash 0.
MCCheckpoints == 3 :> 0

\* A valid but wrong target, a negative target and one above max_target.
MCBadBits == {Compact(240), 6 * MantMod + SignBit + 15, Compact(3840)}
=============================================================================
