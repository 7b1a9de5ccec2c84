----------------------------- MODULE WalletProofs -----------------------------
(***************************************************************************)
(* Proofs about the change-making loop (MoneyExpense), for every purse and *)
(* every price: the value is exact, the internal error is unreachable, no  *)
(* balance is overdrawn further, each turn uses up a measure in Nat; and   *)
(* about the register (Wallet), for any number of documents and any sums:  *)
(* a price is charged exactly, and no coin is spent that is not there      *)
(* unless postings raced or were withdrawn.                                *)
(***************************************************************************)
EXTENDS MoneyExpense, Wallet, TLAPS

\* The functions over the five denominations, read off one by one: the only
\* place where their definitions are expanded.
LEMMA NominalValues ==
  /\ Nominal \in [Denominations -> Nat \ {0}]
  /\ Nominal["PP"] = 1000 /\ Nominal["GP"] = 100 /\ Nominal["EP"] = 50
  /\ Nominal["SP"] = 10 /\ Nominal["CP"] = 1
BY DEF Nominal, Denominations

LEMMA ExchangeValues ==
  /\ ChangeInto["PP"] = "GP" /\ Pieces["PP"] = 10
  /\ ChangeInto["GP"] = "SP" /\ Pieces["GP"] = 10
  /\ ChangeInto["EP"] = "SP" /\ Pieces["EP"] = 5
  /\ ChangeInto["SP"] = "CP" /\ Pieces["SP"] = 10
BY DEF ChangeInto, Pieces

\* A choice of the largest kind out of some kinds of coin finds one of them.
LEMMA LargestExists ==
  ASSUME NEW kinds \in SUBSET Denominations, kinds # {}
  PROVE  Largest(kinds) \in kinds /\ \A e \in kinds : Nominal[e] <= Nominal[Largest(kinds)]
<1>1. \E d \in kinds : \A e \in kinds : Nominal[e] <= Nominal[d]
  <2>1. CASE "PP" \in kinds  BY <2>1, NominalValues DEF Denominations
  <2>2. CASE "PP" \notin kinds /\ "GP" \in kinds
    BY <2>2, NominalValues DEF Denominations
  <2>3. CASE "PP" \notin kinds /\ "GP" \notin kinds /\ "EP" \in kinds
    BY <2>3, NominalValues DEF Denominations
  <2>4. CASE "PP" \notin kinds /\ "GP" \notin kinds /\ "EP" \notin kinds
    <3>1. CASE "SP" \in kinds  BY <2>4, <3>1, NominalValues DEF Denominations
    <3>2. CASE "SP" \notin kinds
      <4>1. "CP" \in kinds /\ \A e \in kinds : e = "CP"
        BY <2>4, <3>2 DEF Denominations
      <4> QED  BY <4>1, NominalValues
    <3> QED  BY <3>1, <3>2
  <2> QED  BY <2>1, <2>2, <2>3, <2>4
<1> QED  BY <1>1 DEF Largest

\* A choice of the smallest kind finds one of them.
LEMMA SmallestExists ==
  ASSUME NEW kinds \in SUBSET Denominations, kinds # {}
  PROVE  Smallest(kinds) \in kinds
<1>1. \E d \in kinds : \A e \in kinds : Nominal[d] <= Nominal[e]
  <2>1. CASE "CP" \in kinds  BY <2>1, NominalValues DEF Denominations
  <2>2. CASE "CP" \notin kinds /\ "SP" \in kinds
    BY <2>2, NominalValues DEF Denominations
  <2>3. CASE "CP" \notin kinds /\ "SP" \notin kinds /\ "EP" \in kinds
    BY <2>3, NominalValues DEF Denominations
  <2>4. CASE "CP" \notin kinds /\ "SP" \notin kinds /\ "EP" \notin kinds
    <3>1. CASE "GP" \in kinds  BY <2>4, <3>1, NominalValues DEF Denominations
    <3>2. CASE "GP" \notin kinds
      <4>1. "PP" \in kinds /\ \A e \in kinds : e = "PP"
        BY <2>4, <3>2 DEF Denominations
      <4> QED  BY <4>1, NominalValues
    <3> QED  BY <3>1, <3>2
  <2> QED  BY <2>1, <2>2, <2>3, <2>4
<1> QED  BY <1>1 DEF Smallest

\* As many coins are taken as there are and as the due sum allows, at least one.
LEMMA TakenBounds ==
  ASSUME NEW p \in Coins, NEW sum \in Nat, NEW d \in Fitting(p, sum)
  PROVE  /\ d \in Denominations
         /\ Taken(p, sum, d) \in Nat \ {0}
         /\ Taken(p, sum, d) <= p[d]
         /\ Taken(p, sum, d) * Nominal[d] \in Nat \ {0}
         /\ Taken(p, sum, d) * Nominal[d] <= sum
<1> DEFINE n == Taken(p, sum, d)
<1>1. d \in Denominations /\ Nominal[d] <= sum /\ p[d] > 0 /\ p[d] \in Int
  BY DEF Fitting, Coins
<1>2. sum \div Nominal[d] \in Nat \ {0} /\ (sum \div Nominal[d]) * Nominal[d] <= sum
  <2>1. CASE d = "PP"  BY <1>1, <2>1, NominalValues
  <2>2. CASE d = "GP"  BY <1>1, <2>2, NominalValues
  <2>3. CASE d = "EP"  BY <1>1, <2>3, NominalValues
  <2>4. CASE d = "SP"  BY <1>1, <2>4, NominalValues
  <2>5. CASE d = "CP"  BY <1>1, <2>5, NominalValues
  <2> QED  BY <1>1, <2>1, <2>2, <2>3, <2>4, <2>5 DEF Denominations
<1>3. n \in Nat \ {0} /\ n <= p[d] /\ n <= sum \div Nominal[d]
  BY <1>1, <1>2 DEF Taken, Smaller
<1>4. n * Nominal[d] \in Nat \ {0} /\ n * Nominal[d] <= sum
  <2>1. CASE d = "PP"  BY <1>2, <1>3, <2>1, NominalValues
  <2>2. CASE d = "GP"  BY <1>2, <1>3, <2>2, NominalValues
  <2>3. CASE d = "EP"  BY <1>2, <1>3, <2>3, NominalValues
  <2>4. CASE d = "SP"  BY <1>2, <1>3, <2>4, NominalValues
  <2>5. CASE d = "CP"  BY <1>2, <1>3, <2>5, NominalValues
  <2> QED  BY <1>1, <2>1, <2>2, <2>3, <2>4, <2>5 DEF Denominations
<1> QED  BY <1>1, <1>3, <1>4

\* Taking coins out of a purse lowers its value by what they are worth, and its
\* weight not below.
LEMMA CostOfTaking ==
  ASSUME NEW p \in Coins, NEW d \in Denominations, NEW n \in Nat
  PROVE  LET q == [p EXCEPT ![d] = @ - n]
         IN /\ q \in Coins
            /\ Cost(q) = Cost(p) - n * Nominal[d]
            /\ Weight(q) <= Weight(p)
<1> DEFINE q == [p EXCEPT ![d] = @ - n]
<1>1. q \in Coins  BY DEF Coins
<1>2. \A e \in Denominations : q[e] = (IF e = d THEN p[e] - n ELSE p[e]) /\ p[e] \in Int
  BY DEF Coins
<1> HIDE DEF q
<1>3. Cost(q) = Cost(p) - n * Nominal[d] /\ Weight(q) <= Weight(p)
  <2>1. CASE d = "PP"  BY <1>2, <2>1, NominalValues DEF Cost, Weight, Denominations
  <2>2. CASE d = "GP"  BY <1>2, <2>2, NominalValues DEF Cost, Weight, Denominations
  <2>3. CASE d = "EP"  BY <1>2, <2>3, NominalValues DEF Cost, Weight, Denominations
  <2>4. CASE d = "SP"  BY <1>2, <2>4, NominalValues DEF Cost, Weight, Denominations
  <2>5. CASE d = "CP"  BY <1>2, <2>5, NominalValues DEF Cost, Weight, Denominations
  <2> QED  BY <2>1, <2>2, <2>3, <2>4, <2>5 DEF Denominations
<1> QED  BY <1>1, <1>3 DEF q

\* Exchanging a coin keeps the value and uses up one unit of weight; only the
\* broken kind decreases, and no electrum appears.
LEMMA CostOfExchange ==
  ASSUME NEW p \in Coins, NEW d \in Denominations \ {"CP"}
  PROVE  /\ Exchanged(p, d) \in Coins
         /\ Cost(Exchanged(p, d)) = Cost(p)
         /\ Weight(Exchanged(p, d)) = Weight(p) - 1
         /\ Exchanged(p, d)[d] = p[d] - 1
         /\ \A e \in Denominations \ {d} : Exchanged(p, d)[e] >= p[e]
         /\ Exchanged(p, d)["EP"] <= p["EP"]
<1> DEFINE q == Exchanged(p, d)
<1>1. CASE d = "PP"
  <2>1. q = [p EXCEPT !["PP"] = @ - 1, !["GP"] = @ + 10]
    BY <1>1, ExchangeValues DEF Exchanged
  <2>2. /\ q \in Coins /\ p["PP"] \in Int /\ p["GP"] \in Int /\ p["EP"] \in Int
        /\ p["SP"] \in Int /\ p["CP"] \in Int
        /\ q["PP"] = p["PP"] - 1 /\ q["GP"] = p["GP"] + 10
        /\ q["EP"] = p["EP"] /\ q["SP"] = p["SP"] /\ q["CP"] = p["CP"]
    BY <2>1 DEF Coins, Denominations
  <2>3. Cost(q) = Cost(p) /\ Weight(q) = Weight(p) - 1
    BY <2>2 DEF Cost, Weight
  <2>4. \A e \in Denominations \ {d} : q[e] >= p[e]
    BY <1>1, <2>2 DEF Denominations
  <2> QED  BY <1>1, <2>2, <2>3, <2>4
<1>2. CASE d = "GP"
  <2>1. q = [p EXCEPT !["GP"] = @ - 1, !["SP"] = @ + 10]
    BY <1>2, ExchangeValues DEF Exchanged
  <2>2. /\ q \in Coins /\ p["PP"] \in Int /\ p["GP"] \in Int /\ p["EP"] \in Int
        /\ p["SP"] \in Int /\ p["CP"] \in Int
        /\ q["GP"] = p["GP"] - 1 /\ q["SP"] = p["SP"] + 10
        /\ q["PP"] = p["PP"] /\ q["EP"] = p["EP"] /\ q["CP"] = p["CP"]
    BY <2>1 DEF Coins, Denominations
  <2>3. Cost(q) = Cost(p) /\ Weight(q) = Weight(p) - 1
    BY <2>2 DEF Cost, Weight
  <2>4. \A e \in Denominations \ {d} : q[e] >= p[e]
    BY <1>2, <2>2 DEF Denominations
  <2> QED  BY <1>2, <2>2, <2>3, <2>4
<1>3. CASE d = "EP"
  <2>1. q = [p EXCEPT !["EP"] = @ - 1, !["SP"] = @ + 5]
    BY <1>3, ExchangeValues DEF Exchanged
  <2>2. /\ q \in Coins /\ p["PP"] \in Int /\ p["GP"] \in Int /\ p["EP"] \in Int
        /\ p["SP"] \in Int /\ p["CP"] \in Int
        /\ q["EP"] = p["EP"] - 1 /\ q["SP"] = p["SP"] + 5
        /\ q["PP"] = p["PP"] /\ q["GP"] = p["GP"] /\ q["CP"] = p["CP"]
    BY <2>1 DEF Coins, Denominations
  <2>3. Cost(q) = Cost(p) /\ Weight(q) = Weight(p) - 1
    <3> HIDE DEF q
    <3>1. Cost(q) = Cost(p)  BY <2>2 DEF Cost
    <3>2. Weight(q) = 111 * p["PP"] + 11 * p["GP"] + 6 * (p["EP"] - 1) + (p["SP"] + 5)
      BY <2>2 DEF Weight
    <3>3. Weight(p) = 111 * p["PP"] + 11 * p["GP"] + 6 * p["EP"] + p["SP"]
      BY DEF Weight
    <3>4. Weight(q) = Weight(p) - 1  BY <2>2, <3>2, <3>3
    <3> QED  BY <3>1, <3>4
  <2>4. \A e \in Denominations \ {d} : q[e] >= p[e]
    <3>1. q["PP"] >= p["PP"] /\ q["GP"] >= p["GP"]  BY <2>2
    <3>2. q["SP"] >= p["SP"] /\ q["CP"] >= p["CP"]  BY <2>2
    <3> HIDE DEF q
    <3> QED  BY <1>3, <3>1, <3>2 DEF Denominations
  <2> QED  BY <1>3, <2>2, <2>3, <2>4
<1>4. CASE d = "SP"
  <2>1. q = [p EXCEPT !["SP"] = @ - 1, !["CP"] = @ + 10]
    BY <1>4, ExchangeValues DEF Exchanged
  <2>2. /\ q \in Coins /\ p["PP"] \in Int /\ p["GP"] \in Int /\ p["EP"] \in Int
        /\ p["SP"] \in Int /\ p["CP"] \in Int
        /\ q["SP"] = p["SP"] - 1 /\ q["CP"] = p["CP"] + 10
        /\ q["PP"] = p["PP"] /\ q["GP"] = p["GP"] /\ q["EP"] = p["EP"]
    BY <2>1 DEF Coins, Denominations
  <2>3. Cost(q) = Cost(p) /\ Weight(q) = Weight(p) - 1
    BY <2>2 DEF Cost, Weight
  <2>4. \A e \in Denominations \ {d} : q[e] >= p[e]
    BY <1>4, <2>2 DEF Denominations
  <2> QED  BY <1>4, <2>2, <2>3, <2>4
<1> QED  BY <1>1, <1>2, <1>3, <1>4 DEF Denominations

-----------------------------------------------------------------------------

\* When no coin fits the due sum, every coin in the purse is worth more than it,
\* and a purse worth enough holds one that can be exchanged.
LEMMA SomethingToBreak ==
  ASSUME NEW p \in Coins, NEW sum \in Nat, sum > 0, Fitting(p, sum) = {},
         Cost(p) >= sum
  PROVE  /\ Available(p) # {}
         /\ "CP" \notin Available(p)
         /\ \A d \in Available(p) : Nominal[d] > sum
<1>1. \A d \in Available(p) : d \in Denominations /\ p[d] > 0 /\ Nominal[d] > sum
  BY NominalValues DEF Available, Fitting
<1>2. "CP" \notin Available(p)
  BY <1>1, NominalValues
<1>3. Available(p) # {}
  <2>1. SUFFICES ASSUME \A d \in Denominations : p[d] <= 0  PROVE FALSE
    BY DEF Available, Coins
  <2>2. /\ p["PP"] <= 0 /\ p["GP"] <= 0 /\ p["EP"] <= 0
        /\ p["SP"] <= 0 /\ p["CP"] <= 0
        /\ p["PP"] \in Int /\ p["GP"] \in Int /\ p["EP"] \in Int
        /\ p["SP"] \in Int /\ p["CP"] \in Int
    BY <2>1 DEF Denominations, Coins
  <2> QED  BY <2>2 DEF Cost
<1> QED  BY <1>1, <1>2, <1>3

LEMMA CostIsInt == ASSUME NEW c \in Coins  PROVE Cost(c) \in Int
BY DEF Cost, Coins, Denominations

LEMMA InitEstablishes == PaymentInit => PaymentInvariant
<1> SUFFICES ASSUME PaymentInit  PROVE PaymentInvariant
  OBVIOUS
<1>1. PaymentTypeOK  BY PaymentAssumption DEF PaymentInit, PaymentTypeOK
<1>2. EnoughLeft /\ ValueKept /\ NeverStuck
  BY <1>1, CostIsInt DEF PaymentInit, PaymentTypeOK, EnoughLeft, ValueKept, NeverStuck
<1>3. NoDeeperDebt  BY <1>1 DEF PaymentInit, PaymentTypeOK, NoDeeperDebt, Smaller, Coins
<1>4. NoElectrumMinted
  BY <1>1 DEF PaymentInit, PaymentTypeOK, NoElectrumMinted, Coins, Denominations
<1> QED  BY <1>1, <1>2, <1>3, <1>4 DEF PaymentInvariant

\* What one turn of the loop does, in the terms of the invariant.
LEMMA TakeCoinsStep ==
  ASSUME PaymentTypeOK, EnoughLeft, TakeCoins
  PROVE  /\ purse' \in Coins /\ due' \in Nat
         /\ due' < due
         /\ Cost(purse') - due' = Cost(purse) - due
         /\ Weight(purse') <= Weight(purse)
         /\ \A e \in Denominations : /\ purse'[e] <= purse[e]
                                     /\ purse'[e] >= Smaller(purse[e], 0)
<1> DEFINE d == Largest(Fitting(purse, due))
           n == Taken(purse, due, d)
<1>1. purse \in Coins /\ due \in Nat  BY DEF PaymentTypeOK
<1>2. d \in Fitting(purse, due)
  BY LargestExists DEF TakeCoins, Fitting
<1>3. /\ d \in Denominations /\ n \in Nat \ {0} /\ n <= purse[d]
      /\ n * Nominal[d] \in Nat \ {0} /\ n * Nominal[d] <= due
  BY <1>1, <1>2, TakenBounds
<1>4. purse' = [purse EXCEPT ![d] = @ - n] /\ due' = due - n * Nominal[d]
  BY DEF TakeCoins
<1> HIDE DEF d, n
<1>5. /\ purse' \in Coins
      /\ Cost(purse') = Cost(purse) - n * Nominal[d]
      /\ Weight(purse') <= Weight(purse)
  BY <1>1, <1>3, <1>4, CostOfTaking
<1>6. \A e \in Denominations : purse'[e] <= purse[e] /\ purse'[e] >= Smaller(purse[e], 0)
  BY <1>1, <1>3, <1>4 DEF Coins, Smaller
<1>7. due' \in Nat /\ due' < due /\ Cost(purse') - due' = Cost(purse) - due
  BY <1>1, <1>3, <1>4, <1>5, CostIsInt
<1> QED  BY <1>5, <1>6, <1>7

LEMMA ExchangeCoinStep ==
  ASSUME PaymentTypeOK, EnoughLeft, ExchangeCoin
  PROVE  /\ purse' \in Coins
         /\ status' = status
         /\ Cost(purse') = Cost(purse)
         /\ Weight(purse') = Weight(purse) - 1
         /\ purse'["EP"] <= purse["EP"]
         /\ \A e \in Denominations : /\ purse'[e] >= Smaller(purse[e], 0)
                                     /\ purse'[e] < purse[e] => Nominal[e] > due
<1> DEFINE d == Smallest(Available(purse))
<1>1. purse \in Coins /\ due \in Nat  BY DEF PaymentTypeOK
<1>2. /\ Available(purse) # {} /\ "CP" \notin Available(purse)
      /\ \A e \in Available(purse) : Nominal[e] > due
  BY <1>1, SomethingToBreak DEF ExchangeCoin, EnoughLeft
<1>3. d \in Available(purse)
  BY <1>2, SmallestExists DEF Available
<1>4. d \in Denominations \ {"CP"} /\ purse[d] > 0 /\ Nominal[d] > due
  BY <1>2, <1>3 DEF Available
<1>5. purse' = Exchanged(purse, d) /\ status' = status
  BY <1>2 DEF ExchangeCoin
<1> HIDE DEF d
<1>6. /\ purse' \in Coins
      /\ Cost(purse') = Cost(purse)
      /\ Weight(purse') = Weight(purse) - 1
      /\ purse'[d] = purse[d] - 1
      /\ \A e \in Denominations \ {d} : purse'[e] >= purse[e]
      /\ purse'["EP"] <= purse["EP"]
  BY <1>1, <1>4, <1>5, CostOfExchange
<1>7. ASSUME NEW e \in Denominations
      PROVE  /\ purse'[e] >= Smaller(purse[e], 0)
             /\ purse'[e] < purse[e] => Nominal[e] > due
  <2>1. purse[e] \in Int /\ purse'[e] \in Int  BY <1>1, <1>6 DEF Coins
  <2>2. CASE e = d  BY <1>4, <1>6, <2>1, <2>2 DEF Smaller
  <2>3. CASE e # d  BY <1>6, <2>1, <2>3 DEF Smaller
  <2> QED  BY <2>2, <2>3
<1> QED  BY <1>5, <1>6, <1>7

LEMMA StepPreserves == PaymentInvariant /\ [PaymentNext]_paymentVars => PaymentInvariant'
<1> SUFFICES ASSUME PaymentInvariant, [PaymentNext]_paymentVars  PROVE PaymentInvariant'
  OBVIOUS
<1> USE DEF PaymentInvariant
<1>1. CASE TakeCoins
  <2>1. /\ purse' \in Coins /\ due' \in Nat
        /\ Cost(purse') - due' = Cost(purse) - due
        /\ \A e \in Denominations : /\ purse'[e] <= purse[e]
                                    /\ purse'[e] >= Smaller(purse[e], 0)
    BY <1>1, TakeCoinsStep
  <2>2. UNCHANGED <<wallet, price, status>>  BY <1>1 DEF TakeCoins
  <2>3. PaymentTypeOK'  BY <2>1, <2>2 DEF PaymentTypeOK
  <2>4. EnoughLeft' /\ ValueKept'
    BY <2>1, <2>2, CostIsInt DEF PaymentTypeOK, EnoughLeft, ValueKept
  <2>5. NoDeeperDebt'
    BY <2>1, <2>2 DEF PaymentTypeOK, NoDeeperDebt, Smaller, Coins
  <2>6. NoElectrumMinted'
    BY <2>1, <2>2 DEF PaymentTypeOK, NoElectrumMinted, Coins, Denominations
  <2>7. NeverStuck'  BY <2>2 DEF NeverStuck
  <2> QED  BY <2>3, <2>4, <2>5, <2>6, <2>7
<1>2. CASE ExchangeCoin
  <2>1. /\ purse' \in Coins /\ status' = status /\ Cost(purse') = Cost(purse)
        /\ purse'["EP"] <= purse["EP"]
        /\ \A e \in Denominations : purse'[e] >= Smaller(purse[e], 0)
    BY <1>2, ExchangeCoinStep
  <2>2. UNCHANGED <<wallet, price, due>>  BY <1>2 DEF ExchangeCoin
  <2>3. PaymentTypeOK'  BY <2>1, <2>2 DEF PaymentTypeOK
  <2>4. EnoughLeft' /\ ValueKept' /\ NeverStuck'
    BY <2>1, <2>2 DEF EnoughLeft, ValueKept, NeverStuck
  <2>5. NoDeeperDebt'
    BY <2>1, <2>2 DEF PaymentTypeOK, NoDeeperDebt, Smaller, Coins
  <2>6. NoElectrumMinted'
    BY <2>1, <2>2 DEF PaymentTypeOK, NoElectrumMinted, Coins, Denominations
  <2> QED  BY <2>3, <2>4, <2>5, <2>6
<1>3. CASE Paid
  BY <1>3 DEF Paid, PaymentTypeOK, EnoughLeft, ValueKept, NeverStuck, NoDeeperDebt,
              NoElectrumMinted
<1>4. CASE UNCHANGED paymentVars
  BY <1>4 DEF paymentVars, PaymentTypeOK, EnoughLeft, ValueKept, NeverStuck, NoDeeperDebt,
              NoElectrumMinted
<1> QED  BY <1>1, <1>2, <1>3, <1>4 DEF PaymentNext

\* Paying out of any purse, for any price, keeps the value exact, never raises
\* the internal error, overdraws nothing further and mints no electrum.
THEOREM PaymentInvariantHolds == PaymentSpec => []PaymentInvariant
<1> QED  BY InitEstablishes, StepPreserves, PTL DEF PaymentSpec

\* The internal error of РассчитатьДенежныйРасход is unreachable.
THEOREM NeverStuckHolds == PaymentSpec => []NeverStuck
<1>1. PaymentInvariant => NeverStuck  BY DEF PaymentInvariant
<1> QED  BY <1>1, PaymentInvariantHolds, PTL

\* No payment takes a coin that is not there.
THEOREM NoDeeperDebtHolds == PaymentSpec => []NoDeeperDebt
<1>1. PaymentInvariant => NoDeeperDebt  BY DEF PaymentInvariant
<1> QED  BY <1>1, PaymentInvariantHolds, PTL

\* Each turn of the loop uses up due + Weight, so no payment loops for ever; the
\* sum and the weight are bounded by what they were at the start.
THEOREM EveryTurnShrinksHolds == PaymentSpec => EveryTurnShrinks
<1> DEFINE Shrinking == status = "paying" /\ status' = "paying" =>
                            /\ due' <= due
                            /\ due' + Weight(purse') < due + Weight(purse)
<1>1. PaymentInvariant /\ [PaymentNext]_paymentVars => [Shrinking]_paymentVars
  <2> SUFFICES ASSUME PaymentInvariant, PaymentNext, status = "paying", status' = "paying"
               PROVE  due' <= due /\ due' + Weight(purse') < due + Weight(purse)
    BY DEF paymentVars
  <2>1. /\ PaymentTypeOK /\ EnoughLeft /\ purse \in Coins /\ due \in Nat
    BY DEF PaymentInvariant, PaymentTypeOK
  <2>2. \A c \in Coins : Weight(c) \in Int  BY DEF Weight, Coins, Denominations
  <2>3. CASE TakeCoins  BY <2>1, <2>2, <2>3, TakeCoinsStep
  <2>4. CASE ExchangeCoin
    <3>1. due' = due  BY <2>4 DEF ExchangeCoin
    <3> QED  BY <2>1, <2>2, <2>4, <3>1, ExchangeCoinStep
  <2>5. CASE Paid  BY <2>5 DEF Paid
  <2> QED  BY <2>3, <2>4, <2>5 DEF PaymentNext
<1> QED  BY <1>1, PaymentInvariantHolds, PTL DEF PaymentSpec, EveryTurnShrinks

\* Only coins worth more than the due sum are ever broken up.
THEOREM OnlyTooLargeCoinsBrokenHolds == PaymentSpec => OnlyTooLargeCoinsBroken
<1> DEFINE Broken == \A d \in Denominations :
                       due' = due /\ purse'[d] < purse[d] => Nominal[d] > due
<1>1. PaymentInvariant /\ [PaymentNext]_paymentVars => [Broken]_paymentVars
  <2> SUFFICES ASSUME PaymentInvariant, PaymentNext, NEW d \in Denominations,
                      due' = due, purse'[d] < purse[d]
               PROVE  Nominal[d] > due
    BY DEF paymentVars
  <2>1. PaymentTypeOK /\ EnoughLeft /\ due \in Nat /\ purse[d] \in Int
    BY DEF PaymentInvariant, PaymentTypeOK, Coins
  <2>2. CASE TakeCoins  BY <2>1, <2>2, TakeCoinsStep
  <2>3. CASE ExchangeCoin  BY <2>1, <2>3, ExchangeCoinStep
  <2>4. CASE Paid  BY <2>1, <2>4 DEF Paid
  <2> QED  BY <2>2, <2>3, <2>4 DEF PaymentNext
<1> QED  BY <1>1, PaymentInvariantHolds, PTL DEF PaymentSpec, OnlyTooLargeCoinsBroken

-----------------------------------------------------------------------------
(* No needless change: each kind of coin but copper is a multiple of the    *)
(* next smaller one, so coins that pay a price pay it in any order of kinds. *)

\* A purse written out.
Purse(pp, gp, ep, sp, cp) ==
  [d \in Denominations |->
     CASE d = "PP" -> pp [] d = "GP" -> gp [] d = "EP" -> ep
       [] d = "SP" -> sp [] d = "CP" -> cp]

\* Coins of a purse, as they are, that are worth a sum.
Choice(c, p, sum) ==
  /\ c \in [Denominations -> Nat]
  /\ \A d \in Denominations : c[d] = 0 \/ c[d] <= p[d]
  /\ Cost(c) = sum
CanPay(p, sum) == \E c \in [Denominations -> Nat] : Choice(c, p, sum)

\* Coins of some kinds hold coins worth just k of the next larger kind.
SilverPays(sp, cp, k) ==
  \E s \in 0..sp, c \in 0..cp : 10 * s + c = 10 * k
ElectrumPays(ep, sp, cp, k) ==
  \E e \in 0..ep, s \in 0..sp, c \in 0..cp : 50 * e + 10 * s + c = 50 * k
GoldPays(gp, ep, sp, cp, k) ==
  \E g \in 0..gp, e \in 0..ep, s \in 0..sp, c \in 0..cp :
    100 * g + 50 * e + 10 * s + c = 100 * k

\* Silver and copper worth more than some silver hold coins worth just that ...
LEMMA SilverMadeUp ==
  ASSUME NEW sp \in Nat, NEW cp \in Nat, NEW k \in Nat, 10 * sp + cp >= 10 * k
  PROVE  SilverPays(sp, cp, k)
<1>1. CASE sp >= k
  <2>1. k \in 0..sp /\ 0 \in 0..cp /\ 10 * k + 0 = 10 * k
    BY <1>1
  <2> QED BY <2>1 DEF SilverPays
<1>2. CASE sp < k
  <2>1. sp \in 0..sp /\ 10 * k - 10 * sp \in 0..cp /\ 10 * sp + (10 * k - 10 * sp) = 10 * k
    BY <1>2
  <2> QED BY <2>1 DEF SilverPays
<1> QED BY <1>1, <1>2

\* ... so do they with electrum ...
LEMMA ElectrumMadeUp ==
  ASSUME NEW ep \in Nat, NEW sp \in Nat, NEW cp \in Nat, NEW k \in Nat,
         50 * ep + 10 * sp + cp >= 50 * k
  PROVE  ElectrumPays(ep, sp, cp, k)
<1>1. CASE ep >= k
  <2>1. k \in 0..ep /\ 0 \in 0..sp /\ 0 \in 0..cp /\ 50 * k + 10 * 0 + 0 = 50 * k
    BY <1>1
  <2> QED BY <2>1 DEF ElectrumPays
<1>2. CASE ep < k
  <2>1. 5 * k - 5 * ep \in Nat /\ 10 * sp + cp >= 10 * (5 * k - 5 * ep)
    BY <1>2
  <2>2. SilverPays(sp, cp, 5 * k - 5 * ep)
    BY <2>1, SilverMadeUp
  <2>3. PICK s \in 0..sp, c \in 0..cp : 10 * s + c = 10 * (5 * k - 5 * ep)
    BY <2>2 DEF SilverPays
  <2>4. ep \in 0..ep /\ 50 * ep + 10 * s + c = 50 * k
    BY <2>3
  <2> QED BY <2>4 DEF ElectrumPays
<1> QED BY <1>1, <1>2

\* ... and with gold.
LEMMA GoldMadeUp ==
  ASSUME NEW gp \in Nat, NEW ep \in Nat, NEW sp \in Nat, NEW cp \in Nat, NEW k \in Nat,
         100 * gp + 50 * ep + 10 * sp + cp >= 100 * k
  PROVE  GoldPays(gp, ep, sp, cp, k)
<1>1. CASE gp >= k
  <2>1. /\ k \in 0..gp /\ 0 \in 0..ep /\ 0 \in 0..sp /\ 0 \in 0..cp
        /\ 100 * k + 50 * 0 + 10 * 0 + 0 = 100 * k
    BY <1>1
  <2> QED BY <2>1 DEF GoldPays
<1>2. CASE gp < k
  <2>1. 2 * k - 2 * gp \in Nat /\ 50 * ep + 10 * sp + cp >= 50 * (2 * k - 2 * gp)
    BY <1>2
  <2>2. ElectrumPays(ep, sp, cp, 2 * k - 2 * gp)
    BY <2>1, ElectrumMadeUp
  <2>3. PICK e \in 0..ep, s \in 0..sp, c \in 0..cp :
          50 * e + 10 * s + c = 50 * (2 * k - 2 * gp)
    BY <2>2 DEF ElectrumPays
  <2>4. gp \in 0..gp /\ 100 * gp + 50 * e + 10 * s + c = 100 * k
    BY <2>3
  <2> QED BY <2>4 DEF GoldPays
<1> QED BY <1>1, <1>2

\* Coins no larger than d that are worth n coins of d or more, at most n of them
\* of d, hold all their coins of d and others that together are worth just that.
LEMMA CoinsMadeUp ==
  ASSUME NEW c \in [Denominations -> Nat], NEW d \in Denominations, NEW n \in Nat,
         c[d] <= n, \A x \in Denominations : Nominal[x] > Nominal[d] => c[x] = 0,
         Cost(c) >= n * Nominal[d]
  PROVE  \E r \in [Denominations -> Nat] :
           /\ \A x \in Denominations : r[x] <= c[x]
           /\ r[d] = c[d] /\ Cost(r) = n * Nominal[d]
<1> DEFINE pp == c["PP"]  gp == c["GP"]  ep == c["EP"]  sp == c["SP"]  cp == c["CP"]
           Part(p, g, e, s, q) ==
             /\ p \in 0..pp /\ g \in 0..gp /\ e \in 0..ep /\ s \in 0..sp /\ q \in 0..cp
             /\ 1000 * p + 100 * g + 50 * e + 10 * s + q = n * Nominal[d]
<1>1. pp \in Nat /\ gp \in Nat /\ ep \in Nat /\ sp \in Nat /\ cp \in Nat
  BY DEF Denominations
<1>2. 1000 * pp + 100 * gp + 50 * ep + 10 * sp + cp >= n * Nominal[d]
  BY DEF Cost
<1>3. ASSUME NEW p, NEW g, NEW e, NEW s, NEW q, Part(p, g, e, s, q),
             Purse(p, g, e, s, q)[d] = c[d]
      PROVE  \E r \in [Denominations -> Nat] :
               /\ \A x \in Denominations : r[x] <= c[x]
               /\ r[d] = c[d] /\ Cost(r) = n * Nominal[d]
  <2>1. PICK r : r = Purse(p, g, e, s, q)
    OBVIOUS
  <2>2. p \in Nat /\ g \in Nat /\ e \in Nat /\ s \in Nat /\ q \in Nat
    BY <1>1, <1>3
  <2>3. /\ r \in [Denominations -> Nat]
        /\ r["PP"] = p /\ r["GP"] = g /\ r["EP"] = e /\ r["SP"] = s /\ r["CP"] = q
    BY <2>1, <2>2 DEF Purse, Denominations
  <2>4. Cost(r) = n * Nominal[d]
    BY <1>3, <2>3 DEF Cost
  <2>5. p <= c["PP"] /\ g <= c["GP"] /\ e <= c["EP"] /\ s <= c["SP"] /\ q <= c["CP"]
    BY <1>1, <1>3
  <2>6. \A x \in Denominations : r[x] <= c[x]
    BY <2>3, <2>5 DEF Denominations
  <2> QED BY <1>3, <2>1, <2>3, <2>4, <2>6
<1>4. ASSUME NEW p, NEW g, NEW e, NEW s, NEW q
      PROVE  /\ Purse(p, g, e, s, q)["PP"] = p /\ Purse(p, g, e, s, q)["GP"] = g
             /\ Purse(p, g, e, s, q)["EP"] = e /\ Purse(p, g, e, s, q)["SP"] = s
             /\ Purse(p, g, e, s, q)["CP"] = q
  BY DEF Purse, Denominations
<1> HIDE DEF pp, gp, ep, sp, cp
<1>5. CASE d = "PP"
  <2>1. Nominal[d] = 1000 /\ pp = c[d] /\ pp <= n
    BY <1>5, NominalValues DEF pp
  <2>2. /\ 10 * n - 10 * pp \in Nat
        /\ 100 * gp + 50 * ep + 10 * sp + cp >= 100 * (10 * n - 10 * pp)
    BY <1>1, <1>2, <2>1
  <2>3. GoldPays(gp, ep, sp, cp, 10 * n - 10 * pp)
    BY <1>1, <2>2, GoldMadeUp
  <2>4. PICK g \in 0..gp, e \in 0..ep, s \in 0..sp, q \in 0..cp :
          100 * g + 50 * e + 10 * s + q = 100 * (10 * n - 10 * pp)
    BY <2>3 DEF GoldPays
  <2>5. Part(pp, g, e, s, q)
    <3>1. 1000 * pp + (100 * g + 50 * e + 10 * s + q) = n * 1000
      BY <1>1, <2>4
    <3> QED BY <1>1, <2>1, <2>4, <3>1
  <2>6. Purse(pp, g, e, s, q)[d] = c[d]
    BY <1>4, <1>5, <2>1
  <2> HIDE DEF Part
  <2> QED BY <1>3, <2>5, <2>6
<1>6. CASE d = "GP"
  <2>1. Nominal[d] = 100 /\ gp = c[d] /\ gp <= n /\ pp = 0
    BY <1>6, NominalValues DEF gp, pp, Denominations
  <2>2. 2 * n - 2 * gp \in Nat /\ 50 * ep + 10 * sp + cp >= 50 * (2 * n - 2 * gp)
    BY <1>1, <1>2, <2>1
  <2>3. ElectrumPays(ep, sp, cp, 2 * n - 2 * gp)
    BY <1>1, <2>2, ElectrumMadeUp
  <2>4. PICK e \in 0..ep, s \in 0..sp, q \in 0..cp :
          50 * e + 10 * s + q = 50 * (2 * n - 2 * gp)
    BY <2>3 DEF ElectrumPays
  <2>5. Part(0, gp, e, s, q)
    BY <1>1, <2>1, <2>4
  <2>6. Purse(0, gp, e, s, q)[d] = c[d]
    BY <1>4, <1>6, <2>1
  <2> HIDE DEF Part
  <2> QED BY <1>3, <2>5, <2>6
<1>7. CASE d = "EP"
  <2>1. Nominal[d] = 50 /\ ep = c[d] /\ ep <= n /\ pp = 0 /\ gp = 0
    BY <1>7, NominalValues DEF ep, gp, pp, Denominations
  <2>2. 5 * n - 5 * ep \in Nat /\ 10 * sp + cp >= 10 * (5 * n - 5 * ep)
    BY <1>1, <1>2, <2>1
  <2>3. SilverPays(sp, cp, 5 * n - 5 * ep)
    BY <1>1, <2>2, SilverMadeUp
  <2>4. PICK s \in 0..sp, q \in 0..cp : 10 * s + q = 10 * (5 * n - 5 * ep)
    BY <2>3 DEF SilverPays
  <2>5. Part(0, 0, ep, s, q)
    BY <1>1, <2>1, <2>4
  <2>6. Purse(0, 0, ep, s, q)[d] = c[d]
    BY <1>4, <1>7, <2>1
  <2> HIDE DEF Part
  <2> QED BY <1>3, <2>5, <2>6
<1>8. CASE d = "SP"
  <2>1. Nominal[d] = 10 /\ sp = c[d] /\ sp <= n /\ pp = 0 /\ gp = 0 /\ ep = 0
    BY <1>8, NominalValues DEF sp, ep, gp, pp, Denominations
  <2>2. Part(0, 0, 0, sp, 10 * n - 10 * sp)
    BY <1>1, <1>2, <2>1
  <2>3. Purse(0, 0, 0, sp, 10 * n - 10 * sp)[d] = c[d]
    BY <1>4, <1>8, <2>1
  <2> HIDE DEF Part
  <2> QED BY <1>3, <2>2, <2>3
<1>9. CASE d = "CP"
  <2>1. Nominal[d] = 1 /\ cp = c[d] /\ cp <= n /\ pp = 0 /\ gp = 0 /\ ep = 0 /\ sp = 0
    BY <1>9, NominalValues DEF cp, sp, ep, gp, pp, Denominations
  <2>2. Part(0, 0, 0, 0, cp)
    BY <1>1, <1>2, <2>1
  <2>3. Purse(0, 0, 0, 0, cp)[d] = c[d]
    BY <1>4, <1>9, <2>1
  <2> HIDE DEF Part
  <2> QED BY <1>3, <2>2, <2>3
<1> QED BY <1>5, <1>6, <1>7, <1>8, <1>9 DEF Denominations

\* Once coins are taken, the others that were chosen pay the rest.
LEMMA RestIsChosen ==
  ASSUME NEW p \in Coins, NEW c \in [Denominations -> Nat], NEW r \in [Denominations -> Nat],
         NEW d \in Denominations, NEW n \in Nat, NEW sum \in Nat,
         Choice(c, p, sum), n <= p[d], \A x \in Denominations : r[x] <= c[x], r[d] = c[d],
         Cost(r) = n * Nominal[d], NEW q, q = [p EXCEPT ![d] = @ - n]
  PROVE  CanPay(q, sum - n * Nominal[d])
<1>1. PICK rest : rest = [x \in Denominations |-> c[x] - r[x]]
  OBVIOUS
<1>2. rest \in [Denominations -> Nat] /\ \A x \in Denominations : rest[x] = c[x] - r[x]
  BY <1>1
<1>3. Cost(rest) = Cost(c) - Cost(r)
  BY <1>2 DEF Cost, Denominations
<1>4. \A x \in Denominations : q[x] = IF x = d THEN p[x] - n ELSE p[x]
  BY DEF Coins
<1>5. ASSUME NEW x \in Denominations PROVE rest[x] = 0 \/ rest[x] <= q[x]
  <2>1. p[x] \in Int /\ c[x] \in Nat /\ r[x] \in Nat /\ p[d] \in Int /\ c[d] \in Nat
    BY DEF Coins
  <2>2. rest[x] = c[x] - r[x] /\ (c[x] = 0 \/ c[x] <= p[x]) /\ r[x] <= c[x]
    BY <1>2 DEF Choice
  <2>3. CASE x = d
    BY <2>1, <2>2, <2>3
  <2>4. CASE x # d
    BY <1>4, <2>1, <2>2, <2>4
  <2> QED BY <2>3, <2>4
<1> QED BY <1>2, <1>3, <1>5 DEF Choice, CanPay

\* The coins of one kind are worth no more than all of them.
LEMMA WorthOfAKind ==
  ASSUME NEW c \in [Denominations -> Nat], NEW d \in Denominations
  PROVE  /\ c[d] * Nominal[d] <= Cost(c)
         /\ c[d] > 0 => Nominal[d] <= Cost(c)
<1>1. /\ c["PP"] \in Nat /\ c["GP"] \in Nat /\ c["EP"] \in Nat
      /\ c["SP"] \in Nat /\ c["CP"] \in Nat
  BY DEF Denominations
<1>2. CASE d = "PP"  BY <1>1, <1>2, NominalValues DEF Cost
<1>3. CASE d = "GP"  BY <1>1, <1>3, NominalValues DEF Cost
<1>4. CASE d = "EP"  BY <1>1, <1>4, NominalValues DEF Cost
<1>5. CASE d = "SP"  BY <1>1, <1>5, NominalValues DEF Cost
<1>6. CASE d = "CP"  BY <1>1, <1>6, NominalValues DEF Cost
<1> QED BY <1>2, <1>3, <1>4, <1>5, <1>6 DEF Denominations

\* As long as coins of the purse pay what is due, some coin fits ...
LEMMA SomethingFits ==
  ASSUME NEW p \in Coins, NEW sum \in Nat, sum > 0, CanPay(p, sum)
  PROVE  Fitting(p, sum) # {}
<1>1. PICK c \in [Denominations -> Nat] : Choice(c, p, sum)
  BY DEF CanPay
<1>2. Cost(c) = sum /\ \A d \in Denominations : c[d] = 0 \/ c[d] <= p[d]
  BY <1>1 DEF Choice
<1>3. PICK d \in Denominations : c[d] > 0
  <2>1. CASE \A d \in Denominations : c[d] = 0
    BY <1>2, <2>1 DEF Cost, Denominations
  <2> QED BY <2>1
<1>4. Nominal[d] <= sum
  BY <1>2, <1>3, WorthOfAKind, NominalValues DEF Denominations
<1> QED BY <1>2, <1>3, <1>4 DEF Fitting, Coins

\* ... and after the largest coins that fit are taken, others pay the rest.
LEMMA TakingLeavesAChoice ==
  ASSUME NEW p \in Coins, NEW sum \in Nat, sum > 0, CanPay(p, sum), NEW d, NEW n,
         d = Largest(Fitting(p, sum)), n = Taken(p, sum, d)
  PROVE  CanPay([p EXCEPT ![d] = @ - n], sum - n * Nominal[d])
<1>1. PICK c \in [Denominations -> Nat] : Choice(c, p, sum)
  BY DEF CanPay
<1>2. Cost(c) = sum /\ \A x \in Denominations : c[x] = 0 \/ c[x] <= p[x]
  BY <1>1 DEF Choice
<1>3. d \in Fitting(p, sum) /\ \A x \in Fitting(p, sum) : Nominal[x] <= Nominal[d]
  BY SomethingFits, LargestExists DEF Fitting
<1>4. /\ d \in Denominations /\ n \in Nat /\ n <= p[d] /\ n * Nominal[d] <= sum
  BY <1>3, TakenBounds
<1>5. ASSUME NEW x \in Denominations, Nominal[x] > Nominal[d] PROVE c[x] = 0
  <2> SUFFICES ASSUME c[x] > 0 PROVE FALSE
    OBVIOUS
  <2>1. Nominal[x] <= sum
    BY <1>2, WorthOfAKind
  <2>2. p[x] > 0
    BY <1>2 DEF Coins
  <2>3. x \in Fitting(p, sum)
    BY <2>1, <2>2 DEF Fitting
  <2> QED BY <1>3, <1>4, <1>5, <2>3, NominalValues
<1>6. c[d] <= n
  <2>1. c[d] * Nominal[d] <= sum /\ c[d] \in Nat
    BY <1>2, <1>4, WorthOfAKind
  <2>2. c[d] <= sum \div Nominal[d]
    <3>1. CASE d = "PP"  BY <2>1, <3>1, NominalValues
    <3>2. CASE d = "GP"  BY <2>1, <3>2, NominalValues
    <3>3. CASE d = "EP"  BY <2>1, <3>3, NominalValues
    <3>4. CASE d = "SP"  BY <2>1, <3>4, NominalValues
    <3>5. CASE d = "CP"  BY <2>1, <3>5, NominalValues
    <3> QED BY <1>4, <3>1, <3>2, <3>3, <3>4, <3>5 DEF Denominations
  <2>3. c[d] <= p[d]
    <3>1. p[d] > 0 /\ p[d] \in Int
      BY <1>3 DEF Fitting, Coins
    <3> QED BY <1>2, <1>4, <3>1
  <2> QED BY <2>2, <2>3 DEF Taken, Smaller
<1>7. PICK r \in [Denominations -> Nat] :
        /\ \A x \in Denominations : r[x] <= c[x]
        /\ r[d] = c[d] /\ Cost(r) = n * Nominal[d]
  BY <1>2, <1>4, <1>5, <1>6, CoinsMadeUp
<1> QED BY <1>1, <1>4, <1>7, RestIsChosen

\* The invariant: when the price can be paid as it is, so can the rest of it, and
\* nothing has been exchanged.
StaysExact ==
  ExactlyPayable => CanPay(purse, due) /\ \A d \in Denominations : purse[d] <= wallet[d]

LEMMA ExactlyPayableIsAChoice ==
  ASSUME PaymentTypeOK, ExactlyPayable
  PROVE  CanPay(wallet, price)
<1> DEFINE UpTo(d) == IF wallet[d] > 0 THEN 0..wallet[d] ELSE {0}
<1>1. PICK pp \in UpTo("PP"), gp \in UpTo("GP"), ep \in UpTo("EP"), sp \in UpTo("SP"),
           cp \in UpTo("CP") : 1000 * pp + 100 * gp + 50 * ep + 10 * sp + cp = price
  BY DEF ExactlyPayable
<1>2. wallet \in Coins
  BY DEF PaymentTypeOK
<1>3. ASSUME NEW d \in Denominations, NEW n \in UpTo(d)
      PROVE  n \in Nat /\ (n = 0 \/ n <= wallet[d])
  BY <1>2 DEF Coins
<1> HIDE DEF UpTo
<1>4. /\ pp \in Nat /\ gp \in Nat /\ ep \in Nat /\ sp \in Nat /\ cp \in Nat
      /\ pp = 0 \/ pp <= wallet["PP"]
      /\ gp = 0 \/ gp <= wallet["GP"]
      /\ ep = 0 \/ ep <= wallet["EP"]
      /\ sp = 0 \/ sp <= wallet["SP"]
      /\ cp = 0 \/ cp <= wallet["CP"]
  BY <1>3 DEF Denominations
<1>5. PICK c : c = Purse(pp, gp, ep, sp, cp)
  OBVIOUS
<1>6. /\ c \in [Denominations -> Nat]
      /\ c["PP"] = pp /\ c["GP"] = gp /\ c["EP"] = ep /\ c["SP"] = sp /\ c["CP"] = cp
  BY <1>4, <1>5 DEF Purse, Denominations
<1>7. \A d \in Denominations : c[d] = 0 \/ c[d] <= wallet[d]
  BY <1>4, <1>6 DEF Denominations
<1>8. Cost(c) = price
  BY <1>1, <1>6 DEF Cost
<1> QED BY <1>6, <1>7, <1>8 DEF Choice, CanPay

LEMMA SameQuestion ==
  ASSUME UNCHANGED <<wallet, price>>
  PROVE  ExactlyPayable' <=> ExactlyPayable
<1> DEFINE Sums(w, x) ==
      LET UpTo(d) == IF w[d] > 0 THEN 0..w[d] ELSE {0}
      IN \E pp \in UpTo("PP"), gp \in UpTo("GP"), ep \in UpTo("EP"),
            sp \in UpTo("SP"), cp \in UpTo("CP") :
           1000 * pp + 100 * gp + 50 * ep + 10 * sp + cp = x
<1>1. ExactlyPayable <=> Sums(wallet, price)
  BY DEF ExactlyPayable
<1>2. ExactlyPayable' <=> Sums(wallet', price')
  BY DEF ExactlyPayable
<1>3. wallet' = wallet /\ price' = price
  OBVIOUS
<1> HIDE DEF Sums
<1> QED BY <1>1, <1>2, <1>3

LEMMA ExactnessIsKept ==
  ASSUME PaymentInvariant, StaysExact, [PaymentNext]_paymentVars
  PROVE  StaysExact'
<1>1. PaymentTypeOK /\ EnoughLeft /\ purse \in Coins /\ due \in Nat /\ wallet \in Coins
  BY DEF PaymentInvariant, PaymentTypeOK
<1>2. CASE TakeCoins
  <2>1. /\ UNCHANGED <<wallet, price>> /\ due > 0
        /\ \A e \in Denominations : purse'[e] <= purse[e]
        /\ purse' \in Coins
    BY <1>1, <1>2, TakeCoinsStep DEF TakeCoins
  <2>2. ExactlyPayable' <=> ExactlyPayable
    BY <2>1, SameQuestion
  <2>3. ASSUME ExactlyPayable PROVE CanPay(purse', due')
    <3>1. PICK d, n : d = Largest(Fitting(purse, due)) /\ n = Taken(purse, due, d)
      OBVIOUS
    <3>2. purse' = [purse EXCEPT ![d] = @ - n] /\ due' = due - n * Nominal[d]
      BY <1>2, <3>1 DEF TakeCoins
    <3>3. CanPay(purse, due)
      BY <2>3 DEF StaysExact
    <3> QED BY <1>1, <2>1, <3>1, <3>2, <3>3, TakingLeavesAChoice
  <2>4. ASSUME ExactlyPayable, NEW e \in Denominations PROVE purse'[e] <= wallet'[e]
    <3>1. purse[e] <= wallet[e] /\ purse'[e] <= purse[e] /\ wallet'[e] = wallet[e]
      BY <2>1, <2>4 DEF StaysExact
    <3> QED BY <1>1, <2>1, <3>1 DEF Coins
  <2> QED BY <2>2, <2>3, <2>4 DEF StaysExact
<1>3. CASE ExchangeCoin
  <2>1. ~ExactlyPayable
    BY <1>1, <1>3, SomethingFits DEF ExchangeCoin, StaysExact
  <2>2. UNCHANGED <<wallet, price>>
    BY <1>3 DEF ExchangeCoin
  <2>3. ~ExactlyPayable'
    BY <2>1, <2>2, SameQuestion
  <2> QED BY <2>3 DEF StaysExact
<1>4. CASE UNCHANGED <<wallet, price, purse, due>>
  <2>1. ExactlyPayable' <=> ExactlyPayable
    BY <1>4, SameQuestion
  <2>2. ASSUME ExactlyPayable PROVE CanPay(purse', due')
    BY <1>4, <2>2 DEF StaysExact
  <2>3. ASSUME ExactlyPayable, NEW d \in Denominations PROVE purse'[d] <= wallet'[d]
    BY <1>4, <2>3 DEF StaysExact
  <2> QED BY <2>1, <2>2, <2>3 DEF StaysExact
<1> QED BY <1>2, <1>3, <1>4 DEF PaymentNext, Paid, paymentVars

\* A price that the coins of the wallet pay as they are is paid without change,
\* whatever purse and price, although the largest coins are taken first.
THEOREM NoNeedlessChangeHolds == PaymentSpec => []NoNeedlessChange
<1>1. PaymentInit => StaysExact
  <2> SUFFICES ASSUME PaymentInit, ExactlyPayable
               PROVE  CanPay(purse, due) /\ \A d \in Denominations : purse[d] <= wallet[d]
    BY DEF StaysExact
  <2>1. PaymentTypeOK /\ purse = wallet /\ due = price
    BY InitEstablishes DEF PaymentInvariant, PaymentInit
  <2> QED BY <2>1, ExactlyPayableIsAChoice DEF PaymentTypeOK, Coins
<1>2. StaysExact => NoNeedlessChange
  BY DEF StaysExact, NoNeedlessChange
<1> QED BY <1>1, <1>2, ExactnessIsKept, PaymentInvariantHolds, PTL DEF PaymentSpec

-----------------------------------------------------------------------------
(* The register and its documents.                                         *)

\* What an accepted entry says.
Accepts(e) ==
  /\ e \in Entries /\ e.character \in Characters /\ e.kind \in Kinds
  /\ e.kind # "correction" => \A x \in Denominations : e.sum[x] >= 0

Transaction ==
  [entry : Entries, basis : Coins, left : Coins, due : Nat, minute : Minutes]

\* How far a transaction has got with the balance it has read: it may go ahead,
\* and the purse it pays from is short of what was paid, of nothing else.
WorkedOut(t) ==
  /\ t \in Transaction /\ Accepts(t.entry)
  /\ t.entry.kind # "money expense" => t.due = 0
  /\ t.entry.kind = "money expense" =>
       /\ Cost(t.basis) - Cost(t.left) = Cost(t.entry.sum) - t.due
       /\ Cost(t.left) >= t.due
       /\ \A x \in Denominations : t.left[x] >= Smaller(t.basis[x], 0)
  /\ t.entry.kind = "material expense" =>
       \A x \in Denominations : t.entry.sum[x] <= 0 \/ t.basis[x] >= t.entry.sum[x]
  /\ t.entry.kind = "correction" =>
       \A x \in Denominations : t.basis[x] + t.entry.sum[x] >= 0

WalletTypeOK ==
  /\ posted \in [Documents -> Entries \cup {None}]
  /\ movement \in [Documents -> Coins]
  /\ balance \in [Characters -> Coins]
  /\ minute \in [Documents -> Minutes \cup {None}]
  /\ open \in [Documents -> Transaction \cup {None}]

WalletInvariant ==
  /\ WalletTypeOK
  /\ \A d \in Documents : posted[d] # None => Accepts(posted[d])
  /\ \A d \in Documents : open[d] # None => WorkedOut(open[d])
  /\ PriceIsCharged
  /\ SolventUnlessDisturbed

LEMMA NoCoinsAreCoins ==
  /\ NoCoins \in Coins
  /\ \A x \in Denominations : NoCoins[x] = 0
BY DEF NoCoins, Coins

\* Sums and differences of coins, and their values.
LEMMA PlusAndMinus ==
  ASSUME NEW a \in Coins, NEW b \in Coins
  PROVE  /\ Plus(a, b) \in Coins /\ Minus(a, b) \in Coins
         /\ \A x \in Denominations :
              /\ a[x] \in Int /\ b[x] \in Int
              /\ Plus(a, b)[x] = a[x] + b[x] /\ Minus(a, b)[x] = a[x] - b[x]
         /\ Cost(Minus(a, b)) = Cost(a) - Cost(b)
<1>1. /\ Plus(a, b) \in Coins /\ Minus(a, b) \in Coins
      /\ \A x \in Denominations :
           /\ a[x] \in Int /\ b[x] \in Int
           /\ Plus(a, b)[x] = a[x] + b[x] /\ Minus(a, b)[x] = a[x] - b[x]
  BY DEF Coins, Plus, Minus
<1>2. Cost(Minus(a, b)) = Cost(a) - Cost(b)
  <2>1. \A x \in {"PP", "GP", "EP", "SP", "CP"} :
           a[x] \in Int /\ b[x] \in Int /\ Minus(a, b)[x] = a[x] - b[x]
    BY <1>1 DEF Denominations
  <2> QED BY <2>1 DEF Cost
<1> QED BY <1>1, <1>2

\* A turn of the loop pays what leaves the purse, and takes no coin that is not
\* there.
LEMMA TurnPays ==
  ASSUME NEW p \in Coins, NEW sum \in Nat, sum > 0, Cost(p) >= sum
  PROVE  LET turn == Turn(p, sum)
         IN /\ turn.purse \in Coins /\ turn.due \in Nat
            /\ Cost(p) - Cost(turn.purse) = sum - turn.due
            /\ Cost(turn.purse) >= turn.due
            /\ \A x \in Denominations : turn.purse[x] >= Smaller(p[x], 0)
<1> DEFINE turn == Turn(p, sum)
<1>1. CASE Fitting(p, sum) # {}
  <2> DEFINE d == Largest(Fitting(p, sum))
             n == Taken(p, sum, d)
  <2>1. d \in Fitting(p, sum)
    BY <1>1, LargestExists DEF Fitting
  <2>2. /\ d \in Denominations /\ n \in Nat \ {0} /\ n <= p[d]
        /\ n * Nominal[d] \in Nat \ {0} /\ n * Nominal[d] <= sum
    BY <2>1, TakenBounds
  <2>3. turn.purse = [p EXCEPT ![d] = @ - n] /\ turn.due = sum - n * Nominal[d]
    BY <1>1 DEF Turn
  <2> HIDE DEF d, n, turn
  <2>4. turn.purse \in Coins /\ Cost(turn.purse) = Cost(p) - n * Nominal[d]
    BY <2>2, <2>3, CostOfTaking
  <2>5. \A x \in Denominations : turn.purse[x] >= Smaller(p[x], 0)
    BY <2>2, <2>3 DEF Coins, Smaller
  <2> QED BY <2>2, <2>3, <2>4, <2>5, CostIsInt DEF turn
<1>2. CASE Fitting(p, sum) = {}
  <2> DEFINE d == Smallest(Available(p))
  <2>1. Available(p) # {} /\ "CP" \notin Available(p)
    BY <1>2, SomethingToBreak
  <2>2. d \in Available(p)
    BY <2>1, SmallestExists DEF Available
  <2>3. d \in Denominations \ {"CP"} /\ p[d] > 0
    BY <2>1, <2>2 DEF Available
  <2>4. turn.purse = Exchanged(p, d) /\ turn.due = sum
    BY <1>2 DEF Turn
  <2> HIDE DEF d, turn
  <2>5. /\ turn.purse \in Coins /\ Cost(turn.purse) = Cost(p)
        /\ turn.purse[d] = p[d] - 1
        /\ \A x \in Denominations \ {d} : turn.purse[x] >= p[x]
    BY <2>3, <2>4, CostOfExchange
  <2>6. ASSUME NEW x \in Denominations
        PROVE  turn.purse[x] >= Smaller(p[x], 0)
    <3>1. p[x] \in Int /\ turn.purse[x] \in Int
      BY <2>5 DEF Coins
    <3>2. CASE x = d
      BY <2>3, <2>5, <3>1, <3>2 DEF Smaller
    <3>3. CASE x # d
      BY <2>5, <3>1, <3>3 DEF Smaller
    <3> QED BY <3>2, <3>3
  <2> QED BY <2>4, <2>5, <2>6, CostIsInt DEF turn
<1> QED BY <1>1, <1>2

\* What d has moved, and the balance without it.
LEMMA Without ==
  ASSUME WalletTypeOK, NEW c \in Characters, NEW d \in Documents
  PROVE  /\ MovedFor(c, d) \in Coins /\ BalanceWithout(c, d) \in Coins
         /\ c \notin Losers(d) =>
              \A x \in Denominations : BalanceWithout(c, d)[x] = balance[c][x]
<1>1. balance[c] \in Coins /\ MovedFor(c, d) \in Coins
  BY NoCoinsAreCoins DEF WalletTypeOK, MovedFor
<1>2. BalanceWithout(c, d) \in Coins
  BY <1>1, PlusAndMinus DEF BalanceWithout
<1>3. ASSUME c \notin Losers(d), NEW x \in Denominations
      PROVE  BalanceWithout(c, d)[x] = balance[c][x]
  <2>1. MovedFor(c, d) = NoCoins
    BY <1>3 DEF Losers, MovedFor
  <2>2. balance[c][x] \in Int /\ BalanceWithout(c, d)[x] = balance[c][x] - 0
    BY <1>1, <2>1, PlusAndMinus, NoCoinsAreCoins DEF BalanceWithout
  <2> QED BY <2>2
<1> QED BY <1>1, <1>2, <1>3

\* The change of a transaction that is worked out: it charges the price, and the
\* wallet it was worked out from can bear it.
LEMMA ChangeIsCovered ==
  ASSUME NEW t, WorkedOut(t), t.due = 0
  PROVE  /\ Change(t) \in Coins
         /\ t.entry.kind = "money expense" => Cost(Change(t)) = - Cost(t.entry.sum)
         /\ (\A x \in Denominations : t.basis[x] >= 0)
              => \A x \in Denominations : t.basis[x] + Change(t)[x] >= 0
<1>1. /\ t \in Transaction /\ t.entry \in Entries /\ t.entry.kind \in Kinds
      /\ t.basis \in Coins /\ t.left \in Coins /\ t.entry.sum \in Coins
  BY WalletAssumption DEF WorkedOut, Accepts, Transaction
<1>2. \A x \in Denominations :
         t.basis[x] \in Int /\ t.left[x] \in Int /\ t.entry.sum[x] \in Int
  BY <1>1 DEF Coins
<1>3. CASE t.entry.kind = "income"
  <2>1. Change(t) = t.entry.sum /\ \A x \in Denominations : t.entry.sum[x] >= 0
    BY <1>3 DEF Change, WorkedOut, Accepts
  <2> QED BY <1>1, <1>2, <1>3, <2>1
<1>4. CASE t.entry.kind = "correction"
  <2>1. Change(t) = t.entry.sum
    BY <1>4 DEF Change
  <2> QED BY <1>1, <1>4, <2>1 DEF WorkedOut
<1>5. CASE t.entry.kind = "material expense"
  <2>1. Change(t) = Minus(NoCoins, t.entry.sum)
    BY <1>5 DEF Change
  <2>2. /\ Change(t) \in Coins
        /\ \A x \in Denominations : Change(t)[x] = 0 - t.entry.sum[x]
    BY <1>1, <2>1, NoCoinsAreCoins, PlusAndMinus
  <2>3. \A x \in Denominations : t.entry.sum[x] <= 0 \/ t.basis[x] >= t.entry.sum[x]
    BY <1>5 DEF WorkedOut
  <2>4. ASSUME NEW x \in Denominations, t.basis[x] >= 0
        PROVE  t.basis[x] + Change(t)[x] >= 0
    <3>1. /\ t.basis[x] \in Int /\ t.entry.sum[x] \in Int
          /\ Change(t)[x] = 0 - t.entry.sum[x]
          /\ t.entry.sum[x] <= 0 \/ t.basis[x] >= t.entry.sum[x]
      BY <1>2, <2>2, <2>3
    <3> HIDE DEF Change
    <3> QED BY <2>4, <3>1
  <2> QED BY <1>5, <2>2, <2>4
<1>6. CASE t.entry.kind = "money expense"
  <2>1. Change(t) = Minus(t.left, t.basis)
    BY <1>6 DEF Change
  <2>2. /\ Change(t) \in Coins /\ Cost(Change(t)) = Cost(t.left) - Cost(t.basis)
        /\ \A x \in Denominations : Change(t)[x] = t.left[x] - t.basis[x]
    BY <1>1, <2>1, PlusAndMinus
  <2>3. /\ Cost(t.basis) - Cost(t.left) = Cost(t.entry.sum) - 0
        /\ \A x \in Denominations : t.left[x] >= Smaller(t.basis[x], 0)
    BY <1>6 DEF WorkedOut
  <2>4. Cost(Change(t)) = - Cost(t.entry.sum)
    BY <1>1, <2>2, <2>3, CostIsInt
  <2>5. ASSUME NEW x \in Denominations, t.basis[x] >= 0
        PROVE  t.basis[x] + Change(t)[x] >= 0
    <3>1. t.left[x] >= 0
      BY <1>2, <2>3, <2>5 DEF Smaller
    <3> QED BY <1>2, <2>2, <3>1
  <2> QED BY <2>2, <2>4, <2>5
<1> QED BY <1>1, <1>3, <1>4, <1>5, <1>6 DEF Kinds

LEMMA WalletStarts == Init => WalletInvariant
<1> SUFFICES ASSUME Init PROVE WalletInvariant
  OBVIOUS
<1>1. WalletTypeOK
  BY NoCoinsAreCoins DEF Init, WalletTypeOK
<1>2. \A d \in Documents : posted[d] = None /\ open[d] = None
  BY DEF Init
<1>3. \A c \in Characters : Solvent(c)
  <2>1. \A c \in Characters : balance[c] = NoCoins
    BY DEF Init
  <2> SUFFICES ASSUME NEW c \in Characters, NEW x \in Denominations
               PROVE  balance[c][x] >= 0
    BY DEF Solvent
  <2>2. balance[c][x] = 0
    BY <2>1, NoCoinsAreCoins
  <2> QED BY <2>2
<1> QED BY <1>1, <1>2, <1>3 DEF WalletInvariant, PriceIsCharged, SolventUnlessDisturbed

\* A transaction goes ahead on what it has read.
LEMMA ReadIsSound ==
  ASSUME WalletInvariant, NEW d \in Documents, NEW e \in Entries,
         NEW active \in Campaigns \cup {None}, NEW now \in Minutes, Read(d, e, active, now)
  PROVE  WalletInvariant'
<1> DEFINE basis == BalanceWithout(e.character, d)
           t == [entry |-> e, basis |-> basis, left |-> basis, due |-> Price(e),
                 minute |-> Stamp(d, now)]
<1>1. WalletTypeOK
  BY DEF WalletInvariant
<1>2. /\ e.character \in Characters /\ e.kind \in Kinds /\ e.sum \in Coins
      /\ e.kind # "correction" => \A x \in Denominations : e.sum[x] >= 0
  BY WalletAssumption DEF Read, Accepted
<1>3. basis \in Coins
  BY <1>1, <1>2, Without
<1>4. Covered(e, basis) /\ open' = [open EXCEPT ![d] = t]
  BY DEF Read
<1>5. UNCHANGED <<posted, movement, balance, minute, raced, withdrawn>>
  BY DEF Read
<1>6. Price(e) \in Nat
  <2>1. CASE e.kind = "money expense"
    <3>1. \A x \in {"PP", "GP", "EP", "SP", "CP"} : e.sum[x] \in Nat
      <4>1. \A x \in Denominations : e.sum[x] \in Int /\ e.sum[x] >= 0
        BY <1>2, <2>1 DEF Coins
      <4> QED BY <4>1 DEF Denominations
    <3>2. Cost(e.sum) \in Nat
      BY <3>1 DEF Cost
    <3> QED BY <2>1, <3>2 DEF Price
  <2>2. CASE e.kind # "money expense"
    BY <2>2 DEF Price
  <2> QED BY <2>1, <2>2
<1>7. Stamp(d, now) \in Minutes
  BY <1>1 DEF WalletTypeOK, Stamp
<1>8. t \in Transaction
  BY <1>3, <1>6, <1>7 DEF Transaction
<1>9. WorkedOut(t)
  <2> HIDE DEF basis
  <2>1. t.entry = e /\ t.basis = basis /\ t.left = basis /\ t.due = Price(e)
    OBVIOUS
  <2>2. Accepts(e)
    BY <1>2 DEF Accepts
  <2> HIDE DEF t
  <2>3. ASSUME e.kind = "money expense"
        PROVE  /\ Cost(t.basis) - Cost(t.left) = Cost(t.entry.sum) - t.due
               /\ Cost(t.left) >= t.due
               /\ \A x \in Denominations : t.left[x] >= Smaller(t.basis[x], 0)
    <3>1. Price(e) = Cost(e.sum) /\ Cost(basis) >= Cost(e.sum)
      BY <1>4, <2>3 DEF Price, Covered
    <3>2. Cost(basis) \in Int /\ Cost(e.sum) \in Int
      BY <1>2, <1>3, CostIsInt
    <3>3. \A x \in Denominations : basis[x] >= Smaller(basis[x], 0)
      BY <1>3 DEF Coins, Smaller
    <3> QED BY <2>1, <3>1, <3>2, <3>3
  <2>4. e.kind = "material expense" =>
          \A x \in Denominations : e.sum[x] <= 0 \/ basis[x] >= e.sum[x]
    BY <1>4 DEF Covered
  <2>5. e.kind = "correction" => \A x \in Denominations : basis[x] + e.sum[x] >= 0
    BY <1>4 DEF Covered
  <2>6. e.kind # "money expense" => Price(e) = 0
    BY DEF Price
  <2> QED BY <1>8, <2>1, <2>2, <2>3, <2>4, <2>5, <2>6 DEF WorkedOut
<1> HIDE DEF t, basis
<1>10. \A f \in Documents : open'[f] = (IF f = d THEN t ELSE open[f])
  BY <1>1, <1>4 DEF WalletTypeOK
<1>11. WalletTypeOK'
  BY <1>1, <1>4, <1>5, <1>8 DEF WalletTypeOK
<1>12. \A f \in Documents : open'[f] # None => WorkedOut(open'[f])
  BY <1>9, <1>10 DEF WalletInvariant
<1> QED
  BY <1>5, <1>11, <1>12
  DEF WalletInvariant, PriceIsCharged, SolventUnlessDisturbed, Solvent

\* A turn of the loop takes the transaction nearer to its change.
LEMMA PayIsSound ==
  ASSUME WalletInvariant, NEW d \in Documents, Pay(d)
  PROVE  WalletInvariant'
<1>1. WalletTypeOK /\ open[d] # None /\ open[d].due > 0 /\ WorkedOut(open[d])
  BY DEF WalletInvariant, Pay
<1>2. PICK t : t = open[d]
  OBVIOUS
<1>3. PICK turn : turn = Turn(t.left, t.due)
  OBVIOUS
<1>4. t \in Transaction /\ WorkedOut(t) /\ t.due > 0
  BY <1>1, <1>2 DEF WorkedOut
<1>5. /\ open' = [open EXCEPT ![d].left = turn.purse, ![d].due = turn.due]
      /\ UNCHANGED <<posted, movement, balance, minute, raced, withdrawn>>
  BY <1>2, <1>3 DEF Pay
<1> DEFINE u == [t EXCEPT !.left = turn.purse, !.due = turn.due]
<1>6. /\ open' = [open EXCEPT ![d] = u]
      /\ \A f \in Documents : open'[f] = (IF f = d THEN u ELSE open[f])
  BY <1>1, <1>2, <1>5 DEF WalletTypeOK
<1>7. /\ t.left \in Coins /\ t.due \in Nat /\ t.basis \in Coins /\ t.entry \in Entries
      /\ t.minute \in Minutes
  BY <1>4 DEF Transaction
<1>8. /\ t.entry.kind = "money expense"
      /\ Cost(t.basis) - Cost(t.left) = Cost(t.entry.sum) - t.due
      /\ Cost(t.left) >= t.due
      /\ \A x \in Denominations : t.left[x] >= Smaller(t.basis[x], 0)
  <2>1. t.due # 0
    BY <1>4, <1>7
  <2>2. t.entry.kind = "money expense"
    BY <1>4, <2>1 DEF WorkedOut
  <2> QED BY <1>4, <2>2 DEF WorkedOut
<1>9. /\ turn.purse \in Coins /\ turn.due \in Nat
      /\ Cost(t.left) - Cost(turn.purse) = t.due - turn.due
      /\ Cost(turn.purse) >= turn.due
      /\ \A x \in Denominations : turn.purse[x] >= Smaller(t.left[x], 0)
  BY <1>3, <1>4, <1>7, <1>8, TurnPays
<1>10. u \in Transaction
  BY <1>4, <1>7, <1>9 DEF Transaction
<1>11. /\ u.entry = t.entry /\ u.basis = t.basis /\ u.left = turn.purse /\ u.due = turn.due
  BY <1>4 DEF Transaction
<1> HIDE DEF u
<1>12. Cost(t.basis) - Cost(turn.purse) = Cost(t.entry.sum) - turn.due
  <2>1. t.entry.sum \in Coins
    BY <1>7, WalletAssumption
  <2>2. /\ Cost(t.basis) \in Int /\ Cost(t.left) \in Int /\ Cost(turn.purse) \in Int
        /\ Cost(t.entry.sum) \in Int
    BY <1>7, <1>9, <2>1, CostIsInt
  <2>3. /\ Cost(t.basis) - Cost(t.left) = Cost(t.entry.sum) - t.due
        /\ Cost(t.left) - Cost(turn.purse) = t.due - turn.due
        /\ t.due \in Int /\ turn.due \in Int
    <3>1. t.due \in Int /\ turn.due \in Int
      BY <1>7, <1>9
    <3> QED BY <1>8, <1>9, <3>1
  <2> DEFINE a == Cost(t.basis)
             b == Cost(t.left)
             c == Cost(turn.purse)
             n == Cost(t.entry.sum)
  <2>4. a \in Int /\ b \in Int /\ c \in Int /\ n \in Int
    BY <2>2
  <2>5. a - b = n - t.due /\ b - c = t.due - turn.due
    BY <2>3
  <2> HIDE DEF a, b, c, n
  <2>6. a - c = n - turn.due
    <3>1. t.due \in Int /\ turn.due \in Int
      BY <2>3
    <3> QED BY <2>4, <2>5, <3>1
  <2> QED BY <2>6 DEF a, b, c, n
<1>13. \A x \in Denominations : turn.purse[x] >= Smaller(t.basis[x], 0)
  <2> TAKE x \in Denominations
  <2>1. turn.purse[x] \in Int /\ t.left[x] \in Int /\ t.basis[x] \in Int
    BY <1>7, <1>9 DEF Coins
  <2>2. turn.purse[x] >= Smaller(t.left[x], 0) /\ t.left[x] >= Smaller(t.basis[x], 0)
    BY <1>8, <1>9
  <2> QED BY <2>1, <2>2 DEF Smaller
<1>14. WorkedOut(u)
  BY <1>4, <1>8, <1>9, <1>10, <1>11, <1>12, <1>13 DEF WorkedOut
<1>15. WalletTypeOK'
  BY <1>1, <1>5, <1>6, <1>10 DEF WalletTypeOK
<1>16. \A f \in Documents : open'[f] # None => WorkedOut(open'[f])
  BY <1>6, <1>14 DEF WalletInvariant
<1> QED
  BY <1>5, <1>15, <1>16
  DEF WalletInvariant, PriceIsCharged, SolventUnlessDisturbed, Solvent

\* A transaction that commits charges its price; and unless it raced, or replaced
\* movements of the character, the balance is what it worked out.
LEMMA CommitIsSound ==
  ASSUME WalletInvariant, NEW d \in Documents, Commit(d)
  PROVE  WalletInvariant'
<1>1. WalletTypeOK /\ open[d] # None /\ open[d].due = 0 /\ WorkedOut(open[d])
  BY DEF WalletInvariant, Commit
<1>2. PICK t : t = open[d]
  OBVIOUS
<1>3. PICK change : change = Change(t)
  OBVIOUS
<1>4. /\ t \in Transaction /\ WorkedOut(t) /\ t.due = 0 /\ Accepts(t.entry)
      /\ t.entry \in Entries /\ t.entry.character \in Characters /\ t.minute \in Minutes
      /\ t.basis \in Coins
  BY <1>1, <1>2 DEF WorkedOut, Accepts, Transaction
<1>5. /\ change \in Coins
      /\ t.entry.kind = "money expense" => Cost(change) = - Cost(t.entry.sum)
      /\ (\A x \in Denominations : t.basis[x] >= 0)
           => \A x \in Denominations : t.basis[x] + change[x] >= 0
  BY <1>3, <1>4, ChangeIsCovered
<1>6. /\ posted' = [posted EXCEPT ![d] = t.entry]
      /\ movement' = [movement EXCEPT ![d] = change]
      /\ balance' = [c \in Characters |->
           IF c = t.entry.character THEN Plus(BalanceWithout(c, d), change)
                                    ELSE BalanceWithout(c, d)]
      /\ minute' = [minute EXCEPT ![d] = t.minute]
      /\ open' = [open EXCEPT ![d] = None]
      /\ raced' = raced \cup (IF Fresh(d) THEN {} ELSE {t.entry.character})
      /\ withdrawn' = withdrawn \cup Losers(d)
  BY <1>2, <1>3 DEF Commit
<1>7. WalletTypeOK'
  <2>1. \A c \in Characters : /\ BalanceWithout(c, d) \in Coins
                              /\ Plus(BalanceWithout(c, d), change) \in Coins
    BY <1>1, <1>5, Without, PlusAndMinus
  <2>2. balance' \in [Characters -> Coins]
    BY <1>6, <2>1
  <2> QED BY <1>1, <1>4, <1>5, <1>6, <2>2 DEF WalletTypeOK
<1>8. \A f \in Documents :
         /\ posted'[f] = (IF f = d THEN t.entry ELSE posted[f])
         /\ movement'[f] = (IF f = d THEN change ELSE movement[f])
         /\ open'[f] = (IF f = d THEN None ELSE open[f])
  BY <1>1, <1>6 DEF WalletTypeOK
<1>9. /\ \A f \in Documents : posted'[f] # None => Accepts(posted'[f])
      /\ \A f \in Documents : open'[f] # None => WorkedOut(open'[f])
  BY <1>4, <1>8 DEF WalletInvariant
<1>10. PriceIsCharged'
  BY <1>5, <1>8 DEF WalletInvariant, PriceIsCharged
<1>11. SolventUnlessDisturbed'
  <2> SUFFICES ASSUME NEW c \in Characters, c \notin raced', c \notin withdrawn'
               PROVE  Solvent(c)'
    BY DEF SolventUnlessDisturbed
  <2>1. c \notin Losers(d) /\ (c = t.entry.character => Fresh(d))
    BY <1>6
  <2>2. /\ \A x \in Denominations : balance[c][x] >= 0
        /\ BalanceWithout(c, d) \in Coins
        /\ \A x \in Denominations : BalanceWithout(c, d)[x] = balance[c][x]
    BY <1>1, <1>6, <2>1, Without DEF WalletInvariant, SolventUnlessDisturbed, Solvent
  <2>3. CASE c = t.entry.character
    <3>1. t.basis = BalanceWithout(c, d)
      BY <1>2, <2>1, <2>3 DEF Fresh
    <3>2. \A x \in Denominations : t.basis[x] + change[x] >= 0
      BY <1>5, <2>2, <3>1
    <3>3. balance'[c] = Plus(t.basis, change)
      BY <1>6, <2>3, <3>1
    <3>4. \A x \in Denominations : balance'[c][x] = t.basis[x] + change[x]
      <4>1. \A x \in Denominations : Plus(t.basis, change)[x] = t.basis[x] + change[x]
        BY <1>4, <1>5, PlusAndMinus
      <4> QED BY <3>3, <4>1
    <3> QED BY <3>2, <3>4 DEF Solvent
  <2>4. CASE c # t.entry.character
    <3>1. balance'[c] = BalanceWithout(c, d)
      BY <1>6, <2>4
    <3> QED BY <2>2, <3>1 DEF Solvent
  <2> QED BY <2>3, <2>4
<1> QED BY <1>7, <1>9, <1>10, <1>11 DEF WalletInvariant

\* A document is withdrawn: whoever loses its movements is no longer vouched for.
LEMMA UnpostIsSound ==
  ASSUME WalletInvariant, NEW d \in Documents, Unpost(d)
  PROVE  WalletInvariant'
<1>1. WalletTypeOK
  BY DEF WalletInvariant
<1>2. /\ posted' = [posted EXCEPT ![d] = None]
      /\ movement' = [movement EXCEPT ![d] = NoCoins]
      /\ balance' = [c \in Characters |-> BalanceWithout(c, d)]
      /\ withdrawn' = withdrawn \cup Losers(d)
      /\ minute' = minute /\ open' = open /\ raced' = raced
  BY DEF Unpost
<1>3. WalletTypeOK'
  <2>1. \A c \in Characters : BalanceWithout(c, d) \in Coins
    BY <1>1, Without
  <2> QED BY <1>1, <1>2, <2>1, NoCoinsAreCoins DEF WalletTypeOK
<1>4. \A f \in Documents :
         /\ posted'[f] = (IF f = d THEN None ELSE posted[f])
         /\ movement'[f] = (IF f = d THEN NoCoins ELSE movement[f])
  BY <1>1, <1>2 DEF WalletTypeOK
<1>5. SolventUnlessDisturbed'
  <2> SUFFICES ASSUME NEW c \in Characters, c \notin raced', c \notin withdrawn'
               PROVE  Solvent(c)'
    BY DEF SolventUnlessDisturbed
  <2>1. c \notin Losers(d) /\ balance'[c] = BalanceWithout(c, d)
    BY <1>2
  <2> QED BY <1>1, <1>2, <2>1, Without DEF WalletInvariant, SolventUnlessDisturbed, Solvent
<1> QED BY <1>2, <1>3, <1>4, <1>5 DEF WalletInvariant, PriceIsCharged

LEMMA WalletInductive == Spec => []WalletInvariant
<1>1. WalletInvariant /\ [Next]_vars => WalletInvariant'
  <2> SUFFICES ASSUME WalletInvariant, [Next]_vars PROVE WalletInvariant'
    OBVIOUS
  <2>1. ASSUME NEW d \in Documents, Rollback(d)
        PROVE  WalletInvariant'
    <3>1. WalletTypeOK
      BY DEF WalletInvariant
    <3>2. /\ open' = [open EXCEPT ![d] = None]
          /\ UNCHANGED <<posted, movement, balance, minute, raced, withdrawn>>
      BY <2>1 DEF Rollback
    <3>3. WalletTypeOK' /\ \A f \in Documents : open'[f] = (IF f = d THEN None ELSE open[f])
      BY <3>1, <3>2 DEF WalletTypeOK
    <3> QED
      BY <3>2, <3>3 DEF WalletInvariant, PriceIsCharged, SolventUnlessDisturbed, Solvent
  <2>2. CASE UNCHANGED vars
    BY <2>2 DEF vars, WalletInvariant, WalletTypeOK, PriceIsCharged, SolventUnlessDisturbed,
                Solvent
  <2> QED
    BY <2>1, <2>2, ReadIsSound, PayIsSound, CommitIsSound, UnpostIsSound DEF Next
<1> QED BY <1>1, WalletStarts, PTL DEF Spec

\* Every posted money expense has cost its character exactly its sum, however
\* stale the balance it was worked out from and whatever change was made: the
\* check of ИзменениеДенежныйРасход on its own result never refuses.
THEOREM PriceIsChargedHolds == Spec => []PriceIsCharged
<1>1. WalletInvariant => PriceIsCharged
  BY DEF WalletInvariant
<1> QED BY <1>1, WalletInductive, PTL

\* For any number of documents and any sums: the balance of a coin is negative
\* only for a character with a posting that was worked out from a stale balance,
\* was replaced, or was withdrawn.
THEOREM SolventUnlessDisturbedHolds == Spec => []SolventUnlessDisturbed
<1>1. WalletInvariant => SolventUnlessDisturbed
  BY DEF WalletInvariant
<1> QED BY <1>1, WalletInductive, PTL
=============================================================================
