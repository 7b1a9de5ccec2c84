-------------------------------- MODULE Wallet --------------------------------
(***************************************************************************)
(* Documents ОперацияКошелька and the register КошелькиПерсонажей they     *)
(* post to.  A posting is a database transaction: it reads the balance     *)
(* without a lock, then writes the document's own movements; transactions  *)
(* of other documents may commit in between.  Posting again first clears   *)
(* the document's own movements.                                           *)
(***************************************************************************)
EXTENDS Coins, FiniteSets

CONSTANTS
  Documents,   \* the wallet operations
  Characters,
  Campaigns,
  Owner,       \* the campaign a character belongs to
  None,        \* an attribute that is not filled in
  Entries,     \* what users fill into documents, complete or not
  Minutes,     \* what the game clock may show, 0 when it is not set
  Sessions     \* bound: transactions open at a time

Kinds == {"income", "money expense", "material expense", "correction"}

ASSUME WalletAssumption ==
  /\ Entries \subseteq
       [character    : Characters \cup {None},
        kind         : Kinds \cup {None},
        sum          : Coins,
        counterparty : Characters \cup {None}]
  /\ Owner \in [Characters -> Campaigns]
  /\ None \notin Characters \cup Kinds \cup Campaigns
  /\ 0 \in Minutes /\ Minutes \subseteq Nat
  /\ Sessions \in Nat

VARIABLES
  posted,    \* the entry each document is posted with, or None
  movement,  \* what it has moved in the register
  balance,   \* the totals the platform keeps of the register, by character
  minute,    \* its ИгроваяМинута, None before it is first written
  open,      \* its transaction in progress, or None
  raced,     \* history: characters with a posting worked out from a stale balance
  withdrawn  \* history: characters with a posting replaced or withdrawn

vars == <<posted, movement, balance, minute, open, raced, withdrawn>>

Init ==
  /\ posted = [d \in Documents |-> None]
  /\ movement = [d \in Documents |-> NoCoins]
  /\ balance = [c \in Characters |-> NoCoins]
  /\ minute = [d \in Documents |-> None]
  /\ open = [d \in Documents |-> None]
  /\ raced = {}
  /\ withdrawn = {}

Plus(a, b) == [x \in Denominations |-> a[x] + b[x]]
Minus(a, b) == [x \in Denominations |-> a[x] - b[x]]

\* What d has moved for a character.
MovedFor(c, d) ==
  IF posted[d] # None /\ posted[d].character = c THEN movement[d] ELSE NoCoins

\* ПолучитьОстаток within the transaction of d, its own movements cleared.
BalanceWithout(c, d) == Minus(balance[c], MovedFor(c, d))

\* ПроверитьЗаполнениеРеквизитов and ПроверитьПринадлежностьКампании.
Accepted(e, active) ==
  /\ e.character # None
  /\ e.kind # None
  /\ e.kind # "correction" => \A x \in Denominations : e.sum[x] >= 0
  /\ \E x \in Denominations : e.sum[x] # 0
  /\ active # None
  /\ Owner[e.character] = active
  /\ e.counterparty # None => Owner[e.counterparty] = active

\* Mutant: a material expense is covered by the value, not by the coins.
CoveredByValue(e, basis) ==
  CASE e.kind = "income" -> TRUE
    [] e.kind \in {"money expense", "material expense"} -> Cost(basis) >= Cost(e.sum)
    [] e.kind = "correction" -> \A x \in Denominations : basis[x] + e.sum[x] >= 0

\* The wallet, as read, lets the operation go ahead.
Covered(e, basis) ==
  CASE e.kind = "income" -> TRUE
    [] e.kind = "money expense" -> Cost(basis) >= Cost(e.sum)
    [] e.kind = "material expense" ->
         \A x \in Denominations : e.sum[x] <= 0 \/ basis[x] >= e.sum[x]
    [] e.kind = "correction" ->
         \A x \in Denominations : basis[x] + e.sum[x] >= 0

\* The price РассчитатьДенежныйРасход has to pay out of the wallet.
Price(e) == IF e.kind = "money expense" THEN Cost(e.sum) ELSE 0

\* Mutant: the change that was given is forgotten, as if every coin were spent
\* in its own kind.
ChangeWithoutExchange(t) ==
  IF t.entry.kind \in {"money expense", "material expense"}
  THEN [x \in Denominations |-> - Smaller(t.entry.sum[x], t.basis[x])]
  ELSE t.entry.sum

\* РассчитатьИзменение: what the operation of a transaction changes in the wallet.
Change(t) ==
  CASE t.entry.kind \in {"income", "correction"} -> t.entry.sum
    [] t.entry.kind = "material expense" -> Minus(NoCoins, t.entry.sum)
    [] t.entry.kind = "money expense" -> Minus(t.left, t.basis)

\* ПередЗаписью: only a new document is stamped with the game clock.
Stamp(d, now) == IF minute[d] = None THEN now ELSE minute[d]

\* The transaction begins, clears the document's own movements, checks the
\* entry and reads the balance.  Otherwise it is refused, and nothing has happened.
Read(d, e, active, now) ==
  /\ open[d] = None
  /\ Cardinality({t \in Documents : open[t] # None}) < Sessions
  /\ Accepted(e, active)
  /\ LET basis == BalanceWithout(e.character, d)
     IN /\ Covered(e, basis)
        /\ open' = [open EXCEPT ![d] =
             [entry |-> e, basis |-> basis, left |-> basis, due |-> Price(e),
              minute |-> Stamp(d, now)]]
  /\ UNCHANGED <<posted, movement, balance, minute, raced, withdrawn>>

\* A money expense is worked out: one turn of the loop.
Pay(d) ==
  /\ open[d] # None
  /\ open[d].due > 0
  /\ LET turn == Turn(open[d].left, open[d].due)
     IN open' = [open EXCEPT ![d].left = turn.purse, ![d].due = turn.due]
  /\ UNCHANGED <<posted, movement, balance, minute, raced, withdrawn>>

\* Whether the balance the open transaction of d has read is still the balance.
Fresh(d) == open[d].basis = BalanceWithout(open[d].entry.character, d)

\* Whose balance loses the movements d has now.
Losers(d) == IF posted[d] = None THEN {} ELSE {posted[d].character}

\* ЗаписатьДвижения, and the transaction commits.
Commit(d) ==
  /\ open[d] # None
  /\ open[d].due = 0
  /\ posted' = [posted EXCEPT ![d] = open[d].entry]
  /\ movement' = [movement EXCEPT ![d] = Change(open[d])]
  /\ balance' = [c \in Characters |->
       IF c = open[d].entry.character THEN Plus(BalanceWithout(c, d), Change(open[d]))
                                      ELSE BalanceWithout(c, d)]
  /\ minute' = [minute EXCEPT ![d] = open[d].minute]
  /\ open' = [open EXCEPT ![d] = None]
  /\ raced' = raced \cup (IF Fresh(d) THEN {} ELSE {open[d].entry.character})
  /\ withdrawn' = withdrawn \cup Losers(d)

\* A lock timeout, a lost session: the transaction leaves no trace.
Rollback(d) ==
  /\ open[d] # None
  /\ open' = [open EXCEPT ![d] = None]
  /\ UNCHANGED <<posted, movement, balance, minute, raced, withdrawn>>

\* ОбработкаУдаленияПроведения checks nothing; the movements are cleared.
Unpost(d) ==
  /\ open[d] = None
  /\ posted[d] # None
  /\ posted' = [posted EXCEPT ![d] = None]
  /\ movement' = [movement EXCEPT ![d] = NoCoins]
  /\ balance' = [c \in Characters |-> BalanceWithout(c, d)]
  /\ withdrawn' = withdrawn \cup Losers(d)
  /\ UNCHANGED <<minute, open, raced>>

Next ==
  \E d \in Documents :
    \/ \E e \in Entries, active \in Campaigns \cup {None}, now \in Minutes :
         Read(d, e, active, now)
    \/ Pay(d)
    \/ Commit(d)
    \/ Rollback(d)
    \/ Unpost(d)

Spec == Init /\ [][Next]_vars

-----------------------------------------------------------------------------

\* A posted money expense has cost its character exactly the stated sum, in
\* whatever coins, however stale the balance it was worked out from: the check
\* of ИзменениеДенежныйРасход on its own result, left out above, never refuses.
PriceIsCharged ==
  \A d \in Documents :
    posted[d] # None /\ posted[d].kind = "money expense" =>
      Cost(movement[d]) = - Cost(posted[d].sum)

Solvent(c) == \A x \in Denominations : balance[c][x] >= 0

\* No balance of a coin is negative as long as no posting of the character was
\* worked out from a balance another transaction changed meanwhile, and none
\* was replaced or withdrawn.
SolventUnlessDisturbed ==
  \A c \in Characters \ (raced \cup withdrawn) : Solvent(c)

\* What posting checks before it takes coins holds of the register: as long as
\* nothing posted was replaced or withdrawn, no coin was spent twice.
SolventUnlessWithdrawn == \A c \in Characters \ withdrawn : Solvent(c)

=============================================================================
