------------------------------ MODULE MC_Sigops ------------------------------
(***************************************************************************)
(* Output scripts an input may spend: pay-to-script-hash (hash160, a push  *)
(* of one byte, equal), a bare checksig, and a bare multisig after op_2.   *)
(***************************************************************************)
EXTENDS Sigops

MCOutScripts == {<<OpHash160, 1, 0, OpEqual>>, <<OpCheckSig>>,
                 <<82, OpCheckMultiSig>>}
=============================================================================
