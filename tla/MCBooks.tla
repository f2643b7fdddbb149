------------------------------- MODULE MCBooks --------------------------------
(***************************************************************************)
(* What keeps books, on small instances: the carry cycle with its          *)
(* positions and funding (CarryCycle), and the user's own ledger and       *)
(* budget (FinanceLedger, Envelopes).  They share no state, so a behaviour *)
(* is one of a single part: the others stay at their initial state.        *)
(***************************************************************************)
EXTENDS MCCarryCycle

CONSTANTS Slots, Syncs, Entries, Postings, Window, MaxPosts   \* of FinanceLedger
CONSTANTS Months, Categories, Spending, Earning, Budgets      \* of Envelopes

VARIABLES
  part,   \* the part this behaviour is of
  ledger, statement, fetched, refused,
  posted, assigned, shown

Finance == INSTANCE FinanceLedger
Budget  == INSTANCE Envelopes

ASSUME BooksAssumption ==
  Finance!FinanceLedgerAssumption /\ Budget!EnvelopesAssumption

(* An entry of the day before the two the bank reports: the first of them   *)
(* is within the window of it, the second is not.                           *)
Cents(amount, date, payee) == [amount |-> amount, date |-> date, payee |-> payee]
MCEntries  == {Cents(1, 1, "none")}
MCPostings == {Cents(1, 2, "payee"), Cents(1, 3, "payee")}

money     == <<ledger, statement, fetched, refused>>
envelopes == <<posted, assigned, shown>>

MCInit ==
  /\ part \in {"carry", "ledger", "budget"}
  /\ Init /\ Finance!Init /\ Budget!Init

LedgerFull == Finance!Used = Slots /\ UNCHANGED money

MCNext ==
  /\ UNCHANGED part
  /\ \/ /\ part = "carry"
        /\ Next
        /\ UNCHANGED <<money, envelopes>>
     \/ /\ part = "ledger"
        /\ Finance!Next \/ LedgerFull
        /\ UNCHANGED <<vars, envelopes>>
     \/ /\ part = "budget"
        /\ Budget!Next
        /\ UNCHANGED <<vars, money>>

MCSpec == MCInit /\ [][MCNext]_<<part, vars, money, envelopes>>

(* Every variable of a part has its type while that part runs.              *)
BooksTypeOK ==
  /\ part = "carry"  => TypeOK
  /\ part = "ledger" => Finance!TypeOK
  /\ part = "budget" => Budget!BudgetTypeOK

(* A split and a transfer are one economic unit: their rows live and die    *)
(* together and add up (finance/service.py delete_transaction).             *)
GroupsStandTogether == Finance!GroupsStandTogether

(* While a row is reconciled nothing changes it (finance/reconcile.py,      *)
(* service.py).                                                             *)
ReconciledIsLocked == Finance!ReconciledIsLocked

(* An import accounts for all it holds, and once (finance/reconcile.py).    *)
ImportsAccountForAllOnce == Finance!ImportsAccountForAllOnce

(* Envelopes and unassigned cash together are the cash there is             *)
(* (finance/budget.py month_view).                                          *)
EnvelopesHoldTheCash == Budget!EnvelopesHoldTheCash
==============================================================================
