----------------------------- MODULE FinanceLedger -----------------------------
(***************************************************************************)
(* The transactions of one user's finance ledger (finance/service.py,      *)
(* reconcile.py, transfers.py): entered by hand as plain entries, splits   *)
(* or transfers, reconciled, deleted, and imported from the bank.  Every   *)
(* write is one transaction under the user's lock (finance_write), but a   *)
(* sync asks the bank before it takes the lock: what it imports is what    *)
(* the bank said some time ago, and imports may overtake each other.       *)
(*                                                                         *)
(* There are two accounts, and only "checking" is linked to a bank.        *)
(* Categories, notes, cleared flags and rules, which no decision here      *)
(* reads back, are left out.  Ids are the bank's own: a file whose id      *)
(* column holds something else (a check number, a reference), and so may   *)
(* repeat an id or disagree with the bank's, is not modelled.              *)
(***************************************************************************)
EXTENDS Integers, Sequences, FiniteSets, Functions

CONSTANTS
  Slots,     \* the rows finance_transaction may come to hold: 1..n
  Syncs,     \* requests that import
  Entries,   \* what the user may enter: [amount, date, payee] records
  Postings,  \* what the bank may report: records of the same kind
  Window,    \* FUZZY_WINDOW_DAYS
  MaxPosts   \* bound: transactions the bank reports

NoPayee  == "none"      \* an entry without one
Transfer == "transfer"   \* a payee that names an account
NoId     == 0            \* the bank numbers what it has booked from 1

FinanceLedgerAssumption ==
  /\ IsFiniteSet(Slots) /\ Slots = 1..Cardinality(Slots)
  /\ Window \in Nat /\ MaxPosts \in Nat
  /\ \A e \in Entries \cup Postings : e.amount \in Int \ {0} /\ e.date \in Nat
  /\ \A e \in Postings : e.payee # NoPayee

VARIABLES
  ledger,     \* finance_transaction
  statement,  \* what the bank reports, in its order
  fetched,    \* for each request, the batch it will import, if it has one
  refused     \* an import was refused by the unique index

vars == <<ledger, statement, fetched, refused>>

Accounts == {"checking", "savings"}
Payees   == {e.payee : e \in Entries \cup Postings} \cup {NoPayee, Transfer}
BankRow  == {[id |-> id, amount |-> e.amount, date |-> e.date, payee |-> e.payee] :
               id \in 0..MaxPosts, e \in Postings}

Row == [status : {"none", "live", "deleted"}, account : Accounts, amount : Int,
        date : Nat, payee : Payees, id : 0..MaxPosts,
        reconciled : BOOLEAN, partner : Slots \cup {0}, parent : Slots \cup {0}]

TypeOK ==
  /\ DOMAIN ledger = Slots /\ \A n \in Slots : ledger[n] \in Row
  /\ \A i \in DOMAIN statement : statement[i] \in BankRow
  /\ DOMAIN fetched = Syncs
  /\ \A s \in Syncs : /\ Cardinality(fetched[s]) <= 1
                      /\ \A batch \in fetched[s], i \in 1..MaxPosts :
                           i \in DOMAIN batch => batch[i] \in BankRow
  /\ refused \in BOOLEAN

Blank == [status |-> "none", account |-> "checking", amount |-> 0,
          date |-> 0, payee |-> NoPayee, id |-> NoId,
          reconciled |-> FALSE, partner |-> 0, parent |-> 0]

Init ==
  /\ ledger = [n \in Slots |-> Blank]
  /\ statement = <<>>
  /\ fetched = [s \in Syncs |-> {}]
  /\ refused = FALSE

Is(n, status) == ledger[n].status = status
Live == {n \in Slots : Is(n, "live")}
Used == {n \in Slots : ~Is(n, "none")}
Fresh == Cardinality(Used) + 1    \* rows are numbered as they are inserted

--------------------------------------------------------------------------------
(* create_manual_transaction.                                               *)
Entry(account, amount, date, payee) ==
  [Blank EXCEPT !.status = "live", !.account = account, !.amount = amount,
                !.date = date, !.payee = payee]

EnterPlain(account, amount, date, payee) ==
  /\ Fresh \in Slots
  /\ ledger' = [ledger EXCEPT ![Fresh] = Entry(account, amount, date, payee)]
  /\ UNCHANGED <<statement, fetched, refused>>

(* A parent and its children, whose amounts add up to the parent's.         *)
EnterSplit(account, first, second, date, payee) ==
  /\ Fresh + 2 \in Slots
  /\ LET child(amount) ==
           [Entry(account, amount, date, payee) EXCEPT !.parent = Fresh]
     IN ledger' = [ledger EXCEPT ![Fresh]     = Entry(account, first + second, date, payee),
                                 ![Fresh + 1] = child(first),
                                 ![Fresh + 2] = child(second)]
  /\ UNCHANGED <<statement, fetched, refused>>

(* create_transfer_side: the payee names an account, and a mirror with the  *)
(* negated amount is written there.  Nothing compares the two accounts: the *)
(* mirror of an entry whose payee is its own account is on that account.    *)
EnterTransfer(account, target, amount, date) ==
  /\ Fresh + 1 \in Slots
  /\ LET side == Entry(account, amount, date, Transfer)
         mirror == Entry(target, -amount, date, Transfer)
     IN ledger' = [ledger EXCEPT ![Fresh]     = [side EXCEPT !.partner = Fresh + 1],
                                 ![Fresh + 1] = [mirror EXCEPT !.partner = Fresh]]
  /\ UNCHANGED <<statement, fetched, refused>>

(* update_transaction, as far as its flag reaches.                          *)
SetReconciled(n, flag) ==
  /\ n \in Used
  /\ ledger[n].reconciled # flag
  /\ ledger' = [ledger EXCEPT ![n].reconciled = flag]
  /\ UNCHANGED <<statement, fetched, refused>>

(* The rows that go with one: its children, the other side of a transfer.   *)
Children(n) == {c \in Live : ledger[c].parent = n}
Partners(own) ==
  {p \in Live : /\ ledger[p].partner # 0
                /\ ledger[p].partner \in own \/ \E m \in own : ledger[m].partner = p}

(* Mutant: the other side of a transfer stays.                              *)
MutGroup(n) == {n} \cup Children(n)

Group(n) ==
  LET own      == {n} \cup Children(n)
      partners == Partners(own)
  IN own \cup partners \cup UNION {Children(p) : p \in partners}

(* delete_transaction: the whole group or, if any of it is reconciled, none. *)
Delete(n) ==
  /\ n \in Live /\ ledger[n].parent = 0
  /\ \A m \in Group(n) : ~ledger[m].reconciled
  /\ ledger' = [m \in Slots |->
                  IF m \in Group(n) THEN [ledger[m] EXCEPT !.status = "deleted"]
                  ELSE ledger[m]]
  /\ UNCHANGED <<statement, fetched, refused>>

--------------------------------------------------------------------------------
(* The bank: a transaction appears, pending without an id or booked with a  *)
(* new one, and a pending one is booked.  Its ids are distinct and never    *)
(* change.                                                                  *)
NewId == Cardinality({i \in DOMAIN statement : statement[i].id # NoId}) + 1

BankPosts(bankRow) ==
  /\ Len(statement) < MaxPosts
  /\ bankRow.id \in {NoId, NewId}
  /\ statement' = Append(statement, bankRow)
  /\ UNCHANGED <<ledger, fetched, refused>>

BankBooks(i) ==
  /\ statement[i].id = NoId
  /\ statement' = [statement EXCEPT ![i].id = NewId]
  /\ UNCHANGED <<ledger, fetched, refused>>

(* sync_bank_account reads from the provider; a file the user exported may  *)
(* hold the same transactions without ids.  A request that failed before it *)
(* imported leaves nothing but a new request.                               *)
Fetch(s, withIds) ==
  /\ fetched' = [fetched EXCEPT ![s] =
                   {[i \in DOMAIN statement |->
                       IF withIds THEN statement[i]
                       ELSE [statement[i] EXCEPT !.id = NoId]]}]
  /\ UNCHANGED <<ledger, statement, refused>>

--------------------------------------------------------------------------------
(* match_transactions.  A matching gives each row of the batch the ledger   *)
(* row it is taken for, or 0.  `heap` is the order in which the database    *)
(* returns rows that nothing else orders.                                   *)
Heaps == Bijection(Slots, Slots)

(* Mutant: the batch's rows may share a ledger row.                         *)
MutTaken(matching) == {}

Taken(matching) == {matching[i] : i \in DOMAIN matching}

(* The rows of the batch without a match.                                   *)
Unmatched(matching) == {i \in DOMAIN matching : matching[i] = 0}

(* _exact_match, with reimport_deleted False.                               *)
Exact(rows, bankRow) ==
  {n \in Slots : /\ rows[n].status = "live" /\ rows[n].account = "checking"
                 /\ bankRow.id # NoId /\ rows[n].id = bankRow.id}

Distance(rows, n, bankRow) ==
  LET d == rows[n].date - bankRow.date IN IF d < 0 THEN -d ELSE d

(* _fuzzy_dataset, with strict id checking.                                 *)
Similar(rows, bankRow) ==
  {n \in Slots : /\ rows[n].status = "live" /\ rows[n].account = "checking"
                 /\ rows[n].amount = bankRow.amount
                 /\ Distance(rows, n, bankRow) <= Window
                 /\ rows[n].id = NoId \/ bankRow.id = NoId}

(* The candidate nearest in time, the first of them in the heap.            *)
Nearest(rows, heap, bankRow, some) ==
  CHOOSE n \in some : \A m \in some :
    LET dn == Distance(rows, n, bankRow)
        dm == Distance(rows, m, bankRow)
    IN dn < dm \/ (dn = dm /\ heap[n] <= heap[m])

(* One pass over the batch, in its order: a row that has no match yet takes *)
(* the nearest candidate that no other has.                                 *)
Match(rows, heap, batch, matching, samePayee) ==
  LET pass[i \in 0..Len(batch)] ==
        IF i = 0 THEN matching
        ELSE LET done == pass[i - 1]
                 free == {n \in Similar(rows, batch[i]) \ Taken(done) :
                            samePayee => rows[n].payee = batch[i].payee}
             IN IF done[i] # 0 \/ free = {} THEN done
                ELSE [done EXCEPT ![i] = Nearest(rows, heap, batch[i], free)]
  IN pass[Len(batch)]

(* Its row by id, then one of the same payee, then any.                     *)
Matching(rows, heap, batch) ==
  LET exact == [i \in DOMAIN batch |->
                  LET found == Exact(rows, batch[i])
                  IN IF found = {} THEN 0 ELSE CHOOSE n \in found : TRUE]
      payee == Match(rows, heap, batch, exact, TRUE)
  IN Match(rows, heap, batch, payee, FALSE)

(* Mutant: a reconciled row is merged into like any other.                  *)
MutMerged(row, bankRow) ==
  [row EXCEPT !.id = IF bankRow.id # NoId THEN bankRow.id ELSE @,
              !.payee = IF @ # NoPayee THEN @ ELSE bankRow.payee]

(* _merge_updates; a reconciled row is left alone.                          *)
Merged(row, bankRow) ==
  IF row.reconciled THEN row
  ELSE [row EXCEPT !.id = IF bankRow.id # NoId THEN bankRow.id ELSE @,
                   !.payee = IF @ # NoPayee THEN @ ELSE bankRow.payee]

(* Where each row of the batch ends up: with its match or, in the order of  *)
(* the batch, after the last row there is.                                  *)
Landing(rows, matching) ==
  LET last == Cardinality({n \in Slots : rows[n].status # "none"})
  IN [i \in DOMAIN matching |->
        IF matching[i] # 0 THEN matching[i]
        ELSE last + Cardinality({j \in Unmatched(matching) : j <= i})]

(* reconcile: matched rows are merged, the others added.                    *)
Reconciled(rows, batch, matching) ==
  LET landing == Landing(rows, matching)
  IN [n \in Slots |->
        LET landed  == {i \in DOMAIN matching : landing[i] = n}
            bankRow == batch[CHOOSE i \in landed : TRUE]
        IN IF landed = {} THEN rows[n]
           ELSE IF rows[n].status # "none" THEN Merged(rows[n], bankRow)
           ELSE [Entry("checking", bankRow.amount, bankRow.date, bankRow.payee)
                   EXCEPT !.id = bankRow.id]]

(* The unique index over the live rows of an account.                       *)
IdsAreUnique(rows) ==
  \A n, m \in Slots :
    /\ n # m /\ rows[n].status = "live" /\ rows[m].status = "live"
    /\ rows[n].account = rows[m].account
    => rows[n].id = NoId \/ rows[n].id # rows[m].id

(* import_transactions: one transaction, or none of it.                     *)
Import(s) ==
  /\ fetched[s] # {}
  /\ fetched' = [fetched EXCEPT ![s] = {}]
  /\ UNCHANGED statement
  /\ \E batch \in fetched[s] :
     \E matching \in {Matching(ledger, heap, batch) : heap \in Heaps} :
       LET after == Reconciled(ledger, batch, matching)
       IN /\ Cardinality(Used) + Cardinality(Unmatched(matching)) \in Slots \cup {0}
          /\ IF IdsAreUnique(after)
               THEN ledger' = after /\ refused' = FALSE
               ELSE UNCHANGED ledger /\ refused' = TRUE

Next ==
  \/ \E e \in Entries :
       \/ EnterPlain("checking", e.amount, e.date, e.payee)
       \/ EnterSplit("checking", e.amount, e.amount, e.date, e.payee)
       \/ \E account, target \in Accounts :
            EnterTransfer(account, target, e.amount, e.date)
  \/ \E n \in Slots :
       Delete(n) \/ \E flag \in BOOLEAN : SetReconciled(n, flag)
  \/ \E bankRow \in BankRow : BankPosts(bankRow)
  \/ \E i \in DOMAIN statement : BankBooks(i)
  \/ \E s \in Syncs :
       \/ Import(s)
       \/ \E withIds \in BOOLEAN : Fetch(s, withIds)

Spec == Init /\ [][Next]_vars

--------------------------------------------------------------------------------
(* A split and a transfer are one economic unit: a child is as live as its  *)
(* parent and the children make up its amount, both sides of a transfer     *)
(* live and cancel, on whatever accounts they lie (service.py               *)
(* delete_transaction, audit B13).                                          *)
GroupsStandTogether ==
  \A n \in Used :
    /\ ledger[n].parent # 0 =>
         LET parent == ledger[n].parent
             family == {c \in Used : ledger[c].parent = parent}
         IN /\ ledger[parent].status = ledger[n].status
            /\ ledger[parent].amount =
                 SumFunction([c \in family |-> ledger[c].amount])
    /\ ledger[n].partner # 0 =>
         LET partner == ledger[ledger[n].partner]
         IN /\ partner.partner = n
            /\ partner.status = ledger[n].status
            /\ partner.amount = -ledger[n].amount

(* While a row is reconciled nothing changes it: not a later import that    *)
(* takes it for the bank's, not the deletion of something it belongs to     *)
(* (reconcile.py, "reconciled rows are locked").                            *)
ReconciledIsLocked ==
  [][\A n \in Slots :
       ledger[n].reconciled /\ ledger'[n].reconciled => ledger'[n] = ledger[n]]_vars

Amounting(rows, amount) ==
  {n \in Slots : rows[n].status = "live" /\ rows[n].account = "checking"
                 /\ rows[n].amount = amount}

AddsNothing(rows, batch) ==
  \A heap \in Heaps : Unmatched(Matching(rows, heap, batch)) = {}

HasAllIds(batch) == \A i \in DOMAIN batch : batch[i].id # NoId

(* The user has deleted the row that held the id.                           *)
IsDeleted(rows, id) ==
  /\ id # NoId
  /\ \E n \in Slots : /\ rows[n].status = "deleted" /\ rows[n].account = "checking"
                      /\ rows[n].id = id

(* An import accounts for all it holds, and once. The ids being the bank's  *)
(* own, it is never refused, and of each amount the account then has at     *)
(* least as many live rows as the batch, whatever was entered and imported  *)
(* before and but for what the user has deleted (reconcile.py, "one-to-one  *)
(* across the whole batch"); where all rows have ids, and no entry was      *)
(* reconciled before it had one, the same batch would add nothing more. A   *)
(* batch without ids may add again what it holds: of it only the count is   *)
(* asked.                                                                   *)
ImportsAccountForAllOnce ==
  [][\A s \in Syncs : \A batch \in fetched[s] :
       fetched'[s] = {} =>
         /\ ~refused'
         /\ \A amount \in {e.amount : e \in Postings} :
              Cardinality(Amounting(ledger', amount)) >=
                Cardinality({i \in DOMAIN batch :
                               batch[i].amount = amount /\ ~IsDeleted(ledger, batch[i].id)})
         /\ HasAllIds(batch) /\ (\A n \in Live : ledger[n].reconciled => ledger[n].id # NoId)
              => AddsNothing(ledger', batch)]_vars

================================================================================
