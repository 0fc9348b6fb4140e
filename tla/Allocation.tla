------------------------------ MODULE Allocation ------------------------------
(***************************************************************************)
(* How money lands against open documents (src/src/allocate.js): which     *)
(* amounts of a customer payment go to which invoices, and which bills are *)
(* settled by cash and vendor credits.  Pure; Bookkeeping posts the plans. *)
(*                                                                         *)
(* Balances are cents, and the amounts a caller gives are tenths of a      *)
(* cent, never half a cent (what toFixed does there depends on the binary  *)
(* fraction).  A plan is [ok, lines]; lines are [doc, amount].             *)
(***************************************************************************)
EXTENDS Integers, Sequences, FiniteSetsExt, SequencesExt

Refused == [ok |-> FALSE, lines |-> <<>>]
Accepted(lines) == [ok |-> TRUE, lines |-> lines]

\* money: to the cent.
Money(tenths) == (tenths + 5) \div 10

Amounts(lines) == [k \in DOMAIN lines |-> lines[k].amount]
Total(lines) == SumFunction(Amounts(lines))

Distinct(lines) == Cardinality({l.doc : l \in ToSet(lines)}) = Len(lines)

\* planInvoiceAllocations: every invoice exists, is listed once, belongs to the customer,
\* gets something, and not more than it is open for; together they are the payment.
\* invoices maps an id to [owner, balance].
PlanInvoiceAllocations(allocations, invoices, total, customer) ==
    LET applied == [k \in DOMAIN allocations |->
                       [doc |-> allocations[k].doc, amount |-> Money(allocations[k].amount)]]
        Fits(l) == /\ l.doc \in DOMAIN invoices
                   /\ invoices[l.doc].owner = customer
                   /\ l.amount > 0
                   /\ l.amount <= invoices[l.doc].balance
    IN  IF /\ applied # <<>>
           /\ Distinct(applied)
           /\ \A l \in ToSet(applied) : Fits(l)
           /\ Total(applied) = Money(total)
        THEN Accepted(applied)
        ELSE Refused

Smaller(a, b) == IF a < b THEN a ELSE b

\* Cash and credits are spread over the bills in their order, each capped at its balance.
Spread(bills, money) ==
    LET after[k \in 0..Len(bills)] ==   \* the first k bills
            IF k = 0 THEN [remaining |-> money, lines |-> <<>>]
            ELSE LET applying == Smaller(after[k - 1].remaining, bills[k].balance)
                 IN  IF applying <= 0 THEN after[k - 1]
                     ELSE [remaining |-> after[k - 1].remaining - applying,
                           lines |-> Append(after[k - 1].lines,
                                            [doc |-> bills[k].doc, amount |-> applying])]
    IN  after[Len(bills)]

\* Mutant of PlanBillPaymentApplication: money the bills cannot take is dropped.
PlanBillPaymentUncapped(bills, credits, cash) ==
    LET used == [k \in DOMAIN credits |->
                    [doc |-> credits[k].doc, amount |-> credits[k].balance]]
    IN  IF Distinct(bills) /\ Distinct(credits) /\ \A l \in ToSet(used) : l.amount > 0
        THEN Accepted(Spread(bills, Money(cash) + Total(used)).lines \o used)
        ELSE Refused

\* planBillPaymentApplication: credits are used up whole, and nothing may be left over.
\* bills and credits are [doc, balance], in the order given.
PlanBillPaymentApplication(bills, credits, cash) ==
    LET used == [k \in DOMAIN credits |->
                    [doc |-> credits[k].doc, amount |-> credits[k].balance]]
        spread == Spread(bills, Money(cash) + Total(used))
    IN  IF /\ Distinct(bills)
           /\ Distinct(credits)
           /\ \A l \in ToSet(used) : l.amount > 0
           /\ spread.remaining = 0
        THEN Accepted(spread.lines \o used)
        ELSE Refused
=============================================================================
