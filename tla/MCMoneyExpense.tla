---------------------------- MODULE MCMoneyExpense ----------------------------
(***************************************************************************)
(* Small purses: every kind of coin present, absent or, for the two        *)
(* smallest, overdrawn.                                                    *)
(***************************************************************************)
EXTENDS MoneyExpense

SmallWallets ==
  {[d \in Denominations |->
      CASE d = "PP" -> pp [] d = "GP" -> gp [] d = "EP" -> ep
        [] d = "SP" -> sp [] d = "CP" -> cp] :
     pp \in 0..1, gp \in 0..1, ep \in 0..2, sp \in {-1, 0, 2, 4}, cp \in {-3, 0, 2, 4}}

SmallPrices == (0..6) \cup {10, 11, 23, 49, 50, 59, 60, 99, 100, 101, 150, 164,
                            200, 940, 1000, 1023, 1101}
=============================================================================
