-------------------------------- MODULE Coins --------------------------------
(***************************************************************************)
(* Coins, their value and the two moves of the change-making algorithm     *)
(* (CommonModules/КошелекПерсонажа).  A purse may hold a negative number   *)
(* of a coin: nothing in the register forbids it.                          *)
(***************************************************************************)
EXTENDS Integers

Denominations == {"PP", "GP", "EP", "SP", "CP"}

Coins == [Denominations -> Int]

NoCoins == [d \in Denominations |-> 0]

Nominal ==
  [d \in Denominations |->
     CASE d = "PP" -> 1000 [] d = "GP" -> 100 [] d = "EP" -> 50
       [] d = "SP" -> 10   [] d = "CP" -> 1]

Cost(coins) ==
  1000 * coins["PP"] + 100 * coins["GP"] + 50 * coins["EP"]
    + 10 * coins["SP"] + coins["CP"]

\* An exchange turns one coin into Pieces of the next smaller kind that may be
\* given as change: electrum never is.
ChangeInto ==
  [d \in {"PP", "GP", "EP", "SP"} |->
     CASE d = "PP" -> "GP" [] d \in {"GP", "EP"} -> "SP" [] d = "SP" -> "CP"]

\* Mutant: electrum is exchanged at the rate of gold.
PiecesUniform == [d \in {"PP", "GP", "EP", "SP"} |-> 10]

Pieces == [d \in {"PP", "GP", "EP", "SP"} |-> IF d = "EP" THEN 5 ELSE 10]

Smaller(a, b) == IF a <= b THEN a ELSE b

\* Mutant: a coin worth exactly the due sum is passed over.
FittingStrict(purse, due) ==
  {d \in Denominations : Nominal[d] < due /\ purse[d] > 0}

\* The kinds of coin that can be spent without exceeding the sum still due.
Fitting(purse, due) ==
  {d \in Denominations : Nominal[d] <= due /\ purse[d] > 0}

Available(purse) == {d \in Denominations : purse[d] > 0}

Largest(kinds) ==
  CHOOSE d \in kinds : \A e \in kinds : Nominal[e] <= Nominal[d]

Smallest(kinds) ==
  CHOOSE d \in kinds : \A e \in kinds : Nominal[d] <= Nominal[e]

\* СписатьПодходящиеМонеты: as many coins of one kind as the due sum takes.
Taken(purse, due, d) == Smaller(purse[d], due \div Nominal[d])

\* ВыполнитьРазмен for a coin other than CP.
Exchanged(purse, d) ==
  [purse EXCEPT ![d] = @ - 1, ![ChangeInto[d]] = @ + Pieces[d]]

\* One turn of the Пока loop of РассчитатьДенежныйРасход, for a purse worth
\* enough: coins that fit are taken, or the smallest one is exchanged.
Turn(purse, due) ==
  LET fitting == Fitting(purse, due)
      d == Largest(fitting)
      n == Taken(purse, due, d)
  IN IF fitting # {}
     THEN [purse |-> [purse EXCEPT ![d] = @ - n], due |-> due - n * Nominal[d]]
     ELSE [purse |-> Exchanged(purse, Smallest(Available(purse))), due |-> due]

=============================================================================
