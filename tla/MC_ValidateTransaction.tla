---------------------- MODULE MC_ValidateTransaction ----------------------
(***************************************************************************)
(* A small chain and pool for ValidateTransaction:                         *)
(*   cb0  coinbase confirmed at height 0, pays 2 and 1                     *)
(*   p1   spends cb0:0, confirmed at height 2, pays 1 and 1                *)
(*   m1   memory-pool tx spending p1:0, pays 1 (may be confirmed later)    *)
(*   s1   spends p1:1, pays 0 (no candidate is s1), may be confirmed later *)
(*   cb1  a coinbase paying 2 that the next block may carry                *)
(*   m2   spends cb0:1, pays 1; another validation may admit it to the     *)
(*        pool while this one runs                                         *)
(* The chain starts at depth 2 and grows to at most 4, so a coinbase is    *)
(* mature (maturity 2) exactly when it is two blocks deep.  Candidates    *)
(* spend one or two outputs of these txs, or none that exist.             *)
(***************************************************************************)
EXTENDS ValidateTransaction

CONSTANTS cb0, cb1, p1, m1, s1, m2

MCTxIds == {cb0, cb1, p1, m1, s1, m2}

In(h, i, ok) == [prev |-> [hash |-> h, index |-> i], sigOk |-> ok,
                 scriptSize |-> 1]

Coinbase(outs, size) ==
  [inputs  |-> <<[prev |-> NullOutpoint, sigOk |-> TRUE, scriptSize |-> size]>>,
   outputs |-> outs]

MCBody ==
  [h \in MCTxIds |->
     CASE h = cb0 -> Coinbase(<<2, 1>>, 2)
       [] h = cb1 -> Coinbase(<<2>>, 2)
       [] h = p1  -> [inputs |-> <<In(cb0, 0, TRUE)>>, outputs |-> <<1, 1>>]
       [] h = m1  -> [inputs |-> <<In(p1, 0, TRUE)>>, outputs |-> <<1>>]
       [] h = s1  -> [inputs |-> <<In(p1, 1, TRUE)>>, outputs |-> <<0>>]
       [] h = m2  -> [inputs |-> <<In(cb0, 1, TRUE)>>, outputs |-> <<1>>]]

MCInitHeight ==
  [h \in MCTxIds |->
     CASE h = cb0 -> 0 [] h = p1 -> 2 [] OTHER -> Unconfirmed]

\* The inputs a candidate may carry: outputs of every kind of parent, an
\* output index past the end, a failing script, and the null outpoint.
InputChoices ==
  { In(cb0, 0, TRUE), In(cb1, 0, TRUE), In(p1, 0, TRUE), In(p1, 1, TRUE),
    In(p1, 1, FALSE), In(m1, 0, TRUE), In(m1, 1, TRUE), In(m2, 0, TRUE),
    [prev |-> NullOutpoint, sigOk |-> TRUE, scriptSize |-> 1] }

MCCandidates ==
  { [inputs |-> ins, outputs |-> outs] :
      ins  \in {<<a>> : a \in InputChoices} \cup
               {<<a, b>> : a, b \in InputChoices},
      outs \in {<<1>>, <<3>>, <<2, 2>>} }
  \cup { Coinbase(<<1>>, 2), [inputs |-> << >>, outputs |-> <<1>>] }

MCPool == {m1}
MCMinable == {cb1, m1, s1}
\* A parent of some candidates arrives in the pool mid-validation.
MCArrivals == {m2}
\* Also a tx spending p1:1, the output some candidates spend.
MCRacingArrivals == {m2, s1}
=============================================================================
