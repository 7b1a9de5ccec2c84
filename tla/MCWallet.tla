------------------------------- MODULE MCWallet -------------------------------
(***************************************************************************)
(* Small instances of Wallet: sums around one gold piece, a character of   *)
(* another campaign, and entries a user may leave incomplete.              *)
(***************************************************************************)
EXTENDS Wallet, TLC

CONSTANTS c1, c2, k1, k2, d1, d2, d3

AnyOrder == Permutations(Documents)

TwoCampaigns == (c1 :> k1) @@ (c2 :> k2)

Sum(gp, ep, sp, cp) ==
  [x \in Denominations |->
     CASE x = "PP" -> 0 [] x = "GP" -> gp [] x = "EP" -> ep [] x = "SP" -> sp
       [] x = "CP" -> cp]

Entry(character, kind, sum, counterparty) ==
  [character |-> character, kind |-> kind, sum |-> sum,
   counterparty |-> counterparty]

\* Coins of a character come in, are spent for their value and in kind, and are
\* corrected; two entries are refused whatever the balance.
Few == {Entry(c1, "income", Sum(1, 1, 0, 0), None),
        Entry(c1, "money expense", Sum(0, 0, 3, 5), None),
        Entry(c1, "material expense", Sum(0, 1, 0, 0), None),
        Entry(c1, "correction", Sum(-1, 0, 2, 0), None),
        Entry(c1, "income", Sum(1, 0, 0, 0), c2),
        Entry(c1, None, Sum(1, 0, 0, 0), None)}
=============================================================================
