------------------------- MODULE MC_ValidateBlock -------------------------
(***************************************************************************)
(* A chain grown from a genesis coinbase g paying 1 and 1, by blocks of a  *)
(* coinbase and up to two further txs:                                     *)
(*   cA, cB, cC  coinbases paying 2, 3 and 1                               *)
(*   t1, t2  both spend g:0 and pay 1, t1 to a P2SH script, t2 to a        *)
(*           checksig (one legacy sigop)                                   *)
(*   t3      spends t1:0, pays 1; its script pushes a redeem script of     *)
(*           2 checksigs (2 P2SH sigops) and                               *)
(*           fails under BIP16                                             *)
(*   t4      spends g:1 and pays 0, leaving a fee of 1, to a checksig      *)
(*   t5      spends cA:0 and pays 1, leaving a fee of 1                    *)
(*   t6      spends g:1 and pays 2, more than its input                    *)
(*   t7      spends g:0 twice, in its two inputs, and pays 2               *)
(*   tE      spends g:1 and has no outputs                                 *)
(*   tX      spends g:2, an output g does not have                         *)
(* Maturity is 2 blocks, the subsidy 2 halving every 3 blocks, at most 2   *)
(* sigops per block; height 2 is a BIP30 exception.  Headers follow 1 or  *)
(* 40 s after their parent with hash 0 or 700, so the target retargets    *)
(* down and back, a hash can miss it, and BIP16 switches on at time 41.  *)
(***************************************************************************)
EXTENDS ValidateBlock, TLC

CONSTANTS g, cA, cB, cC, t1, t2, t3, t4, t5, t6, t7, tE, tX, MaxHeight

In(h, i, ok, ok16, p2sh) ==
  [prev |-> [hash |-> h, index |-> i], sigOk |-> ok, sigOkBip16 |-> ok16,
   p2shSigops |-> p2sh, scriptSize |-> 1]

Coinbase(outs) ==
  [inputs  |-> <<[prev |-> NullOutpoint, sigOk |-> TRUE, sigOkBip16 |-> TRUE,
                  p2shSigops |-> 0, scriptSize |-> 2]>>,
   outputs |-> outs, sigops |-> 0]

Tx(ins, outs, sigops) == [inputs |-> ins, outputs |-> outs, sigops |-> sigops]

MCTxIds == {g, cA, cB, cC, t1, t2, t3, t4, t5, t6, t7, tE, tX}

MCBody ==
  [h \in MCTxIds |->
     CASE h = g  -> Coinbase(<<1, 1>>)
       [] h = cA -> Coinbase(<<2>>)
       [] h = cB -> Coinbase(<<3>>)
       [] h = cC -> Coinbase(<<1>>)
       [] h = t1 -> Tx(<<In(g, 0, TRUE, TRUE, 0)>>, <<1>>, 0)
       [] h = t2 -> Tx(<<In(g, 0, TRUE, TRUE, 0)>>, <<1>>, 1)
       [] h = t3 -> Tx(<<In(t1, 0, TRUE, FALSE, 2)>>, <<1>>, 0)
       [] h = t4 -> Tx(<<In(g, 1, TRUE, TRUE, 0)>>, <<0>>, 1)
       [] h = t5 -> Tx(<<In(cA, 0, TRUE, TRUE, 0)>>, <<1>>, 0)
       [] h = t6 -> Tx(<<In(g, 1, TRUE, TRUE, 0)>>, <<2>>, 0)
       [] h = t7 -> Tx(<<In(g, 0, TRUE, TRUE, 0), In(g, 0, TRUE, TRUE, 0)>>, <<2>>, 0)
       [] h = tE -> Tx(<<In(g, 1, TRUE, TRUE, 0)>>, << >>, 0)
       [] h = tX -> Tx(<<In(g, 2, TRUE, TRUE, 0)>>, <<1>>, 0)]

\* The txs' scripts, from which the cached counts follow: t1 pays to
\* script hash (hash160 <1 byte> equal), t2 and t4 to a checksig; t3 pushes
\* a redeem script of two checksigs; the coinbases' scripts push nothing.
Empty == << >>
CheckSig == <<OpCheckSig>>
P2sh == <<OpHash160, 1, 0, OpEqual>>
Redeem2 == <<2, OpCheckSig, OpCheckSig>>

MCScripts ==
  [h \in MCTxIds |->
     [inputs  |-> IF h \in {g, cA, cB, cC} THEN <<<<0, 0>>>>
                  ELSE IF h = t3 THEN <<Redeem2>>
                  ELSE [i \in DOMAIN MCBody[h].inputs |-> Empty],
      outputs |-> CASE h = t1 -> <<P2sh>>
                    [] h \in {t2, t4} -> <<CheckSig>>
                    [] OTHER -> [k \in DOMAIN MCBody[h].outputs |-> Empty]]]

\* The verdicts of the checks left abstract: size, clock, merkle root,
\* median time past and finality.
Checks == {"sizeOk", "timeOk", "merkleOk", "mtpOk", "finalOk"}

OkChecks == [f \in Checks |-> TRUE]

\* Blocks passing those checks over every tx list, and blocks failing one.
MakeBlocks(rest) ==
  { [checks |-> OkChecks, txs |-> <<c>> \o s] :
      c \in {g, cA, cB, cC, t1}, s \in BoundedSeq(rest, 2) }
  \cup { [checks |-> [OkChecks EXCEPT ![f] = FALSE], txs |-> <<cA>>] :
           f \in Checks }

\* Header rules at the HeaderChain scale: a checkpoint at height 3, and a
\* valid target other than the one work_required demands.
MCCheckpoints == 3 :> 0
MCBadBits == {HR!Compact(240)}

MCBlocks == MakeBlocks({cA, t1, t2, t3, t4, t5, t6, t7, tE})

MCBlocksOOB == MakeBlocks({t1, t4, tX})

NoJunk == {[value |-> 0, scriptOk |-> FALSE]}

\* A read past the end of outputs may see any value a valid output may have
\* and a script that runs true or false.
AnyJunk == {[value |-> v, scriptOk |-> ok] : v \in 0 .. MaxMoney, ok \in BOOLEAN}

HeightBound == tip < MaxHeight
=============================================================================
