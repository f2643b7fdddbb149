------------------------------- MODULE Envelopes -------------------------------
(***************************************************************************)
(* The envelope budget (finance/budget.py month_view) over what it reads:  *)
(* the transactions of the accounts on the budget, by month and category,  *)
(* and the rows of finance_budget.  The view keeps nothing: it walks from  *)
(* the first month with anything in it and carries each envelope and the   *)
(* cash not yet assigned forward.                                          *)
(*                                                                         *)
(* A month of a category holds one amount or none.  Transactions without a *)
(* category, which the view does not see, goals, currencies and accounts   *)
(* off the budget are left out.                                            *)
(***************************************************************************)
EXTENDS Integers, FiniteSets, FiniteSetsExt

CONSTANTS
  Months,      \* 1..n
  Categories,  \* the spending categories
  Spending,    \* the amounts that may be spent in one
  Earning,     \* the amounts of an income
  Budgets      \* the amounts that may be assigned

Income == "income"

EnvelopesAssumption ==
  /\ IsFiniteSet(Months) /\ Months = 1..Cardinality(Months)
  /\ Spending \cup Earning \cup Budgets \subseteq Int
  /\ IsFiniteSet(Categories) /\ Income \notin Categories

VARIABLES
  posted,    \* for each month and category the sum of its transactions
  assigned,  \* finance_budget: the rows of each month and category, 0 or 1
  shown      \* the categories that are not deleted

vars == <<posted, assigned, shown>>

Modes   == {"rollover", "reset", "hold"}
Posting == Categories \cup {Income}
Sums(k) == IF k = Income THEN Earning ELSE {-x : x \in Spending}

BudgetTypeOK ==
  /\ posted \in [Months -> [Posting -> {-x : x \in Spending} \cup Earning \cup {0}]]
  /\ assigned \in [Months -> [Categories -> SUBSET [amount : Budgets, mode : Modes]]]
  /\ shown \subseteq Categories

Init ==
  /\ posted = [m \in Months |-> [k \in Posting |-> 0]]
  /\ assigned = [m \in Months |-> [c \in Categories |-> {}]]
  /\ shown = Categories

(* A transaction is entered or imported, and deleted again.                 *)
Post(m, k, sum) ==
  /\ (posted[m][k] = 0) # (sum = 0)
  /\ posted' = [posted EXCEPT ![m][k] = sum]
  /\ UNCHANGED <<assigned, shown>>

(* set_budget_amount: an upsert; without a mode the row keeps its own.      *)
Assign(m, c, amount, modes) ==
  /\ c \in shown /\ amount >= 0
  /\ LET kept == {row.mode : row \in assigned[m][c]}
         mode == IF modes # {} THEN modes
                 ELSE IF kept # {} THEN kept ELSE {"rollover"}
     IN assigned' = [assigned EXCEPT ![m][c] =
                       {[amount |-> amount, mode |-> x] : x \in mode}]
  /\ UNCHANGED <<posted, shown>>

(* delete_category: what was posted and assigned to it stays where it is.   *)
DeleteCategory(c) ==
  /\ c \in shown
  /\ shown' = shown \ {c}
  /\ UNCHANGED <<posted, assigned>>

Next ==
  \/ \E m \in Months, k \in Posting : \E sum \in Sums(k) \cup {0} : Post(m, k, sum)
  \/ \E m \in Months, c \in Categories, amount \in Budgets :
       \E modes \in {{}} \cup {{x} : x \in Modes} : Assign(m, c, amount, modes)
  \/ \E c \in Categories : DeleteCategory(c)

Spec == Init /\ [][Next]_vars

--------------------------------------------------------------------------------
Budgeted(m, c) == SumFunction([row \in assigned[m][c] |-> row.amount])
Mode(m, c)     == IF assigned[m][c] = {} THEN "rollover"
                  ELSE (CHOOSE row \in assigned[m][c] : TRUE).mode

(* _first_activity_month looks for the first of these.                      *)
InUse == {m \in Months : \/ \E k \in Posting : posted[m][k] # 0
                         \/ \E c \in Categories : assigned[m][c] # {}}

(* What an envelope opens a month with.                                     *)
Ending(m, c, opening) == opening + Budgeted(m, c) + posted[m][c]

Carried(m, c, opening) ==
  CASE Mode(m, c) = "reset"    -> 0
    [] Mode(m, c) = "hold"     -> opening
    [] Mode(m, c) = "rollover" -> Ending(m, c, opening)

Openings(c) ==
  LET opening[m \in Months] ==
        IF m <= Min(InUse) THEN 0 ELSE Carried(m - 1, c, opening[m - 1])
  IN opening

(* Mutant: the leftover of a held envelope does not return to the pool.     *)
MutReturned(m, c) ==
  IF Mode(m, c) = "hold" THEN 0
  ELSE Ending(m, c, Openings(c)[m]) - Carried(m, c, Openings(c)[m])

Returned(m, c) == Ending(m, c, Openings(c)[m]) - Carried(m, c, Openings(c)[m])

(* unassigned_carry.                                                        *)
Unassigned ==
  LET pool[m \in Months] ==
        IF m <= Min(InUse) THEN 0
        ELSE pool[m - 1] + posted[m - 1][Income]
             + SumFunction([c \in shown |-> Returned(m - 1, c) - Budgeted(m - 1, c)])
  IN pool

Available(m, c) == Budgeted(m, c) + Openings(c)[m] + posted[m][c]

AvailableToBudget(m) ==
  Unassigned[m] + posted[m][Income] - SumFunction([c \in shown |-> Budgeted(m, c)])

(* The envelopes of a month and the cash still to be assigned are together  *)
(* the cash the categories in the view have brought in and paid out by      *)
(* then: whatever is assigned, carried, reset or held, in whatever order it *)
(* is edited, no money appears or is lost between two months (budget.py,    *)
(* "only cash on hand is budgetable").                                      *)
EnvelopesHoldTheCash ==
  InUse # {} =>
    \A m \in Months :
      SumFunction([c \in shown |-> Available(m, c)]) + AvailableToBudget(m)
        = SumFunction([past \in 1..m |-> posted[past][Income]
                         + SumFunction([c \in shown |-> posted[past][c]])])

================================================================================
