----------------------------- MODULE MoneyExpense -----------------------------
(***************************************************************************)
(* РассчитатьДенежныйРасход of CommonModules/КошелекПерсонажа: paying a    *)
(* price out of a purse of five kinds of coin, making change by exchanging *)
(* one coin at a time.  One step of the machine is one turn of the Пока    *)
(* loop.                                                                   *)
(***************************************************************************)
EXTENDS Coins

CONSTANTS
  Wallets,  \* the purses a payment may start from
  Prices    \* the sums to be paid, in CP

ASSUME PaymentAssumption == Wallets \subseteq Coins /\ Prices \subseteq Nat

VARIABLES
  wallet,   \* Остаток, as read from the register
  price,    \* СтоимостьРасхода
  purse,    \* ТекущийОстаток
  due,      \* ОсталосьОплатить
  status    \* "paying", "paid", or the exception: "short", "stuck"

paymentVars == <<wallet, price, purse, due, status>>

\* A wallet that is worth less than the price is refused before the loop.
PaymentInit ==
  /\ wallet \in Wallets
  /\ price \in Prices
  /\ purse = wallet
  /\ due = price
  /\ status = IF Cost(wallet) < price THEN "short" ELSE "paying"

\* СписатьПодходящиеМонеты finds a coin that fits: as many as possible are paid.
TakeCoins ==
  /\ status = "paying"
  /\ due > 0
  /\ Fitting(purse, due) # {}
  /\ LET d == Largest(Fitting(purse, due))
     IN /\ purse' = [purse EXCEPT ![d] = @ - Taken(purse, due, d)]
        /\ due' = due - Taken(purse, due, d) * Nominal[d]
  /\ UNCHANGED <<wallet, price, status>>

\* Mutant: a coin is exchanged although the due sum could still be reduced.
ExchangeTooEarly ==
  /\ status = "paying"
  /\ due > 0
  /\ ~ Available(purse) \subseteq {"CP"}
  /\ purse' = Exchanged(purse, Smallest(Available(purse) \ {"CP"}))
  /\ UNCHANGED <<wallet, price, due, status>>

\* No coin fits: ВыполнитьРазмен breaks the smallest one.  With no coin left, or
\* CP the smallest, it answers Ложь: the internal error of the algorithm.
ExchangeCoin ==
  /\ status = "paying"
  /\ due > 0
  /\ Fitting(purse, due) = {}
  /\ IF Available(purse) = {} \/ "CP" \in Available(purse)
     THEN status' = "stuck" /\ UNCHANGED purse
     ELSE /\ purse' = Exchanged(purse, Smallest(Available(purse)))
          /\ UNCHANGED status
  /\ UNCHANGED <<wallet, price, due>>

Paid ==
  /\ status = "paying"
  /\ due = 0
  /\ status' = "paid"
  /\ UNCHANGED <<wallet, price, purse, due>>

PaymentNext == TakeCoins \/ ExchangeCoin \/ Paid

PaymentSpec == PaymentInit /\ [][PaymentNext]_paymentVars

\* The loop is a procedure call: it runs on until it returns or raises.
FairPaymentSpec == PaymentSpec /\ WF_paymentVars(PaymentNext)

-----------------------------------------------------------------------------

PaymentTypeOK ==
  /\ wallet \in Coins
  /\ price \in Nat
  /\ purse \in Coins
  /\ due \in Nat
  /\ status \in {"paying", "paid", "short", "stuck"}

\* What has left the purse is worth what has been paid, so a finished payment
\* costs the character exactly the price, however many coins were exchanged.
ValueKept == Cost(wallet) - Cost(purse) = price - due

\* The algorithm never runs into its internal error, even from a purse whose
\* balance of some coin is negative.
NeverStuck == status # "stuck"

\* A payment takes away only coins that are there: no balance drops below zero
\* unless it was below already, and then it drops no further.
NoDeeperDebt == \A d \in Denominations : purse[d] >= Smaller(wallet[d], 0)

\* Change is never given in electrum.
NoElectrumMinted == purse["EP"] <= wallet["EP"]

\* The coin an exchange breaks is worth more than what is still due: nothing
\* that could have been spent as it is gets broken up.
OnlyTooLargeCoinsBroken ==
  [][\A d \in Denominations : due' = due /\ purse'[d] < purse[d]
       => Nominal[d] > due]_paymentVars

\* A choice of coins out of the wallet that costs exactly the price.
ExactlyPayable ==
  LET UpTo(d) == IF wallet[d] > 0 THEN 0..wallet[d] ELSE {0}
  IN \E pp \in UpTo("PP"), gp \in UpTo("GP"), ep \in UpTo("EP"),
        sp \in UpTo("SP"), cp \in UpTo("CP") :
       1000 * pp + 100 * gp + 50 * ep + 10 * sp + cp = price

\* When the price can be paid with coins of the wallet as they are, it is: no
\* kind of coin ever increases, whatever order the coins are taken in.
NoNeedlessChange ==
  ExactlyPayable => \A d \in Denominations : purse[d] <= wallet[d]

\* The inductive invariant: enough is left in the purse for what is due.
EnoughLeft == status # "short" => Cost(purse) >= due

PaymentInvariant ==
  /\ PaymentTypeOK
  /\ EnoughLeft
  /\ ValueKept
  /\ NeverStuck
  /\ NoDeeperDebt
  /\ NoElectrumMinted

\* What an exchange uses up: each weight exceeds that of its change by one.
Weight(coins) ==
  111 * coins["PP"] + 11 * coins["GP"] + 6 * coins["EP"] + coins["SP"]

\* Every turn of the loop pays something or uses up weight, and neither ever
\* grows: a payment needs at most due + Weight turns.
EveryTurnShrinks ==
  [][status = "paying" /\ status' = "paying" =>
       /\ due' <= due
       /\ due' + Weight(purse') < due + Weight(purse)]_paymentVars

\* The loop ends, and a wallet worth the price has then paid it.
PaymentEnds == status = "paying" ~> status = "paid"

=============================================================================
