------------------------------ MODULE Bookkeeping ------------------------------
(***************************************************************************)
(* One bank account of one company over some days: create_payment and      *)
(* create_bill_payment settle open documents and enter the books, the bank *)
(* shows what it shows, and reconcile_bank_csv compares a statement file   *)
(* with the General Ledger (src/src/index.js, on Allocation and            *)
(* Reconciliation).                                                        *)
(*                                                                         *)
(* Abstractions.                                                           *)
(*   - A payment is planned and posted in one step: what QuickBooks does   *)
(*     with a line that exceeds a balance is not known.                    *)
(*   - Payments are applied to documents; an unapplied one is QuickBooks'. *)
(*   - A preview changes nothing.                                          *)
(*   - The statement covers the days asked for, newest row first, and its  *)
(*     ending balance is the bank's on the last of them.                   *)
(***************************************************************************)
EXTENDS Allocation, Reconciliation

CONSTANTS
    Invoice, Bill, Credit,   \* documents
    Documents,               \* what each says: [owner, balance]
    CustomerPayment,         \* payments asked for: [customer, allocations, total]
    BillPayment,             \* [vendor, bills, credits, cash]
    BankAmount,              \* amounts the bank shows
    File,                    \* export formats: [convention, marks]
    Opening,                 \* balances before the first day: [bank, books]
    Tolerance,               \* date_tolerance_days
    MaxDay,                  \* bound on the days
    MaxRows                  \* bound on the rows of the books and of the bank

Document == Invoice \cup Bill \cup Credit
Party == {Documents[d].owner : d \in Document}

\* Amounts asked for are positive (the tools' schemas); an invoice that cannot be fetched
\* is None.
Asked == Nat \ {0}

ASSUME BookkeepingAssumption ==
    /\ IsFiniteSet(Document)
    /\ Invoice \cap Bill = {} /\ Invoice \cap Credit = {} /\ Bill \cap Credit = {}
    /\ Documents \in [Document -> [owner : Party, balance : Nat]]
    /\ \A p \in CustomerPayment :
          /\ p.allocations \in Seq([doc : Invoice \cup {None}, amount : Asked])
          /\ p.total \in Asked
    /\ \A p \in BillPayment :
          p.bills \in Seq(Bill) /\ p.credits \in Seq(Credit) /\ p.cash \in Asked
    /\ File \subseteq [convention : Convention, marks : (SUBSET Mark) \ {{}}]
    /\ BankAmount \subseteq Int \ {0}
    /\ Opening \in [bank : Int, books : Int]
    /\ {Tolerance, MaxDay, MaxRows} \subseteq Nat
    /\ None \notin Int

VARIABLES
    day,
    open,        \* the open balance of each document
    register,    \* the bank account in the books: [date, amount, party]
    bank,        \* the same account at the bank: [date, amount], newest first
    file         \* how the bank writes its statements

vars == <<day, open, register, bank, file>>

Init ==
    /\ day = 1
    /\ open = [d \in Document |-> Documents[d].balance]
    /\ register = <<>>
    /\ bank = <<>>
    /\ file \in File

\* QuickBooks takes the lines of a payment off their documents.
Settle(lines) ==
    open' = [d \in Document |->
                open[d] - SumFunctionOnSet(Amounts(lines),
                                           {k \in DOMAIN lines : lines[k].doc = d})]

Enter(amount, party) ==
    register' = Append(register, [date |-> day, amount |-> amount, party |-> party])

\* create_payment with allocations, confirmed.
CreatePayment(p) ==
    LET invoices == [d \in Invoice |->
                        [owner |-> Documents[d].owner, balance |-> open[d]]]
        plan == PlanInvoiceAllocations(p.allocations, invoices, p.total, p.customer)
    IN  /\ Len(register) < MaxRows
        /\ plan.ok
        /\ Settle(plan.lines)
        /\ Enter(Money(p.total), p.customer)
        /\ UNCHANGED <<day, bank, file>>

Fetched(docs) == [k \in DOMAIN docs |-> [doc |-> docs[k], balance |-> open[docs[k]]]]

\* create_bill_payment for bills of the vendor, confirmed if it uses credits.
CreateBillPayment(p) ==
    LET plan == PlanBillPaymentApplication(Fetched(p.bills), Fetched(p.credits), p.cash)
    IN  /\ Len(register) < MaxRows
        /\ p.bills # <<>>
        /\ \A d \in ToSet(p.bills \o p.credits) : Documents[d].owner = p.vendor
        /\ plan.ok
        /\ Settle(plan.lines)
        /\ Enter(-Money(p.cash), p.vendor)
        /\ UNCHANGED <<day, bank, file>>

\* The bank processes something: a payment of the books, late or never, or its own.
BankShows(amount) ==
    /\ Len(bank) < MaxRows
    /\ bank' = <<[date |-> day, amount |-> amount]>> \o bank
    /\ UNCHANGED <<day, open, register, file>>

NextDay ==
    /\ day < MaxDay
    /\ day' = day + 1
    /\ UNCHANGED <<open, register, bank, file>>

Next ==
    \/ \E p \in CustomerPayment : CreatePayment(p)
    \/ \E p \in BillPayment : CreateBillPayment(p)
    \/ \E amount \in BankAmount : BankShows(amount)
    \/ NextDay

Spec == Init /\ [][Next]_vars
-----------------------------------------------------------------------------
(* reconcile_bank_csv. *)

Cell(n) == [form |-> "number", marks |-> IF n < 0 THEN file.marks ELSE {}, cents |-> Size(n)]
Blank == [form |-> "blank", marks |-> {}, cents |-> 0]

\* The statement file the bank writes.
Printed(row) ==
    CASE file.convention = "debit_credit" ->
            [date   |-> row.date,
             debit  |-> IF row.amount < 0 THEN Cell(row.amount) ELSE Blank,
             credit |-> IF row.amount < 0 THEN Blank ELSE Cell(row.amount)]
      [] file.convention = "negative_out" -> [date |-> row.date, cell |-> Cell(row.amount)]
      [] file.convention = "positive_out" -> [date |-> row.date, cell |-> Cell(-row.amount)]

Statement == [k \in DOMAIN bank |-> Printed(bank[k])]

Within(rows, from, to) ==
    Keep(rows, {k \in DOMAIN rows : from <= rows[k].date /\ rows[k].date <= to})

\* The General Ledger report of QuickBooks for these days.
GeneralLedger(from, to) ==
    LET before == Opening.books + Net(Within(register, 1, from - 1))
        rows == Within(register, from, to)
    IN  <<[date |-> 0, amount |-> None, balance |-> before, party |-> None]>>
        \o [k \in DOMAIN rows |->
               [date |-> rows[k].date, amount |-> rows[k].amount, party |-> rows[k].party,
                balance |-> before + Net(SubSeq(rows, 1, k))]]

Inflows(transactions) ==
    Keep(transactions, {k \in DOMAIN transactions : transactions[k].amount > 0})
Outflows(transactions) ==
    LET out == Keep(transactions, {k \in DOMAIN transactions : transactions[k].amount < 0})
    IN  [k \in DOMAIN out |-> [out[k] EXCEPT !.amount = Size(@)]]

\* The worksheet for the days from..to, with the statement's ending balance.
ReconcileBankCsv(from, to, statementEnding) ==
    LET plan == PlanImport(Statement, file.convention)
        ledger == BankRegisterFromGl(GeneralLedger(from, to))
        outflows == MatchTransactions(Within(plan.outflows, from, to),
                                      Outflows(ledger.transactions), Tolerance)
        inflows == MatchTransactions(Within(plan.inflows, from, to),
                                     Inflows(ledger.transactions), Tolerance)
    IN  BankTieOut(statementEnding, ledger.ending, outflows, inflows)
-----------------------------------------------------------------------------
InvoicesOf(p) == {d \in Invoice : Documents[d].owner = p}
BillsOf(p) == {d \in Bill : Documents[d].owner = p}
CreditsOf(p) == {d \in Credit : Documents[d].owner = p}

Balance(docs) == SumFunctionOnSet(open, docs)
BalanceBefore(docs) == SumFunctionOnSet([d \in Document |-> Documents[d].balance], docs)
Paid(p) == SumFunctionOnSet(Amounts(register), {k \in DOMAIN register : register[k].party = p})

\* Every cent a party pays or is paid comes off its own documents, and no document is
\* settled for more than it is open for (planInvoiceAllocations,
\* planBillPaymentApplication).
MoneyConserved ==
    /\ \A d \in Document : open[d] \in 0..Documents[d].balance
    /\ \A p \in Party :
          Balance(InvoicesOf(p)) - Balance(BillsOf(p)) + Balance(CreditsOf(p)) + Paid(p)
            = BalanceBefore(InvoicesOf(p)) - BalanceBefore(BillsOf(p))
                + BalanceBefore(CreditsOf(p))

ViablePairs(rows, regs) ==
    {p \in (DOMAIN rows) \X (DOMAIN regs) : Viable(rows, regs, Tolerance, p[1], p[2])}
Matching(S) == \A p, q \in S : p[1] = q[1] <=> p[2] = q[2]
Cost(S, rows, regs) == SumFunction([p \in S |-> Distance(rows[p[1]], regs[p[2]])])

Optimal(rows, regs) ==
    LET pairs == MatchPairs(rows, regs, Tolerance)
        Score(S) == [count |-> Cardinality(S), cost |-> Cost(S, rows, regs)]
    IN  /\ pairs \subseteq ViablePairs(rows, regs) /\ Matching(pairs)
        /\ \A S \in SUBSET ViablePairs(rows, regs) :
              Matching(S) => ~Better(Score(S), Score(pairs))

\* No other way to pair the statement's rows with the books' pairs more of them, or as
\* many at a smaller distance of their dates (matchTransactions).
MatchOptimal ==
    LET plan == PlanImport(Statement, file.convention)
    IN  /\ Optimal(plan.outflows, Outflows(register))
        /\ Optimal(plan.inflows, Inflows(register))

\* Whatever is in transit, outstanding or missing, for every range of days and every
\* export format the difference is what the two balances differed by before
\* (bankRegisterFromGl, bankTieOut, the signs of planImport).
TieOutExact ==
    \A from \in 1..day, to \in 1..day : from <= to =>
        LET bankBefore == Opening.bank + Net(Within(bank, 1, from - 1))
            booksBefore == Opening.books + Net(Within(register, 1, from - 1))
        IN  ReconcileBankCsv(from, to, Opening.bank + Net(Within(bank, 1, to)))
              = bankBefore - booksBefore
=============================================================================
