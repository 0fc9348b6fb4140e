---------------------------- MODULE Reconciliation ----------------------------
(***************************************************************************)
(* Reading a bank statement and comparing it with the books: planImport of *)
(* src/src/csv.js, the register, the matching and the tie-out of           *)
(* src/src/reconcile.js.  Pure; Bookkeeping supplies the statement and the *)
(* ledger.                                                                 *)
(*                                                                         *)
(* Dates are days, and a date that cannot be read is 0.  Amounts are       *)
(* cents; money in is positive.  A cell of the statement is [form, marks,  *)
(* cents]: blank (or a placeholder), other text, or a number with a minus  *)
(* before it, after it, or parentheses.                                    *)
(***************************************************************************)
EXTENDS Integers, Sequences, FiniteSetsExt, SequencesExt

CONSTANT None   \* a balance that is not known

Mark == {"paren", "lead", "trail"}
Convention == {"debit_credit", "negative_out", "positive_out"}

Size(n) == IF n < 0 THEN -n ELSE n
Net(rows) == SumFunction([k \in DOMAIN rows |-> rows[k].amount])
Sum(rows) == SumFunction([k \in DOMAIN rows |-> Size(rows[k].amount)])

\* The rows at the positions of S, as they came.
Keep(rows, S) ==
    LET kept[k \in 0..Len(rows)] ==   \* of the first k rows
            IF k = 0 THEN <<>>
            ELSE IF k \in S THEN Append(kept[k - 1], rows[k]) ELSE kept[k - 1]
    IN  kept[Len(rows)]
-----------------------------------------------------------------------------
(* planImport. *)

\* parseAmount of a cell that holds a number: any mark makes it negative, once.
ParseAmount(cell) == IF cell.marks # {} THEN -cell.cents ELSE cell.cents

IsNumber(cell) == cell.form = "number"
Filled(cell) == IsNumber(cell) /\ ParseAmount(cell) # 0

\* Rows: [date, debit, credit] or [date, cell].
Unreadable(row, convention) ==
    \/ row.date = 0
    \/ IF convention = "debit_credit"
       THEN \/ "text" \in {row.debit.form, row.credit.form}
            \/ ~IsNumber(row.debit) /\ ~IsNumber(row.credit)
            \/ Filled(row.debit) /\ Filled(row.credit)
       ELSE ~IsNumber(row.cell)

\* The signed amount: a filled debit is money out however it is signed.
Signed(row, convention) ==
    CASE convention = "debit_credit" ->
            IF Filled(row.debit) THEN -Size(ParseAmount(row.debit))
            ELSE IF Filled(row.credit) THEN Size(ParseAmount(row.credit)) ELSE 0
      [] convention = "negative_out" -> ParseAmount(row.cell)
      [] convention = "positive_out" -> -ParseAmount(row.cell)

\* Outflows and inflows keep the size only; rows of zero are dropped.
PlanImport(rows, convention) ==
    LET readable == {k \in DOMAIN rows : ~Unreadable(rows[k], convention)}
        Entries(sign) ==
            LET flow == Keep(rows, {k \in readable : sign * Signed(rows[k], convention) > 0})
            IN  [k \in DOMAIN flow |-> [date   |-> flow[k].date,
                                       amount |-> Size(Signed(flow[k], convention))]]
    IN  [outflows |-> Entries(-1), inflows |-> Entries(1),
         errors |-> Len(rows) - Cardinality(readable)]
-----------------------------------------------------------------------------
(* bankRegisterFromGl and bankTieOut. *)

\* Rows of the General Ledger: [date, amount, balance, party]; the opening balance is the
\* row without a date and an amount.
BankRegisterFromGl(gl) ==
    LET opening == Keep(gl, {k \in DOMAIN gl : /\ gl[k].date = 0
                                               /\ gl[k].amount = None
                                               /\ gl[k].balance # None})
        transactions == Keep(gl, {k \in DOMAIN gl : gl[k].date # 0 /\ gl[k].amount # None})
        beginning == IF opening = <<>> THEN None ELSE opening[1].balance
    IN  [transactions |-> transactions,
         beginning |-> beginning,
         ending |-> IF transactions # <<>> /\ Last(transactions).balance # None
                    THEN Last(transactions).balance
                    ELSE IF beginning = None THEN None ELSE beginning + Net(transactions)]

\* Mutant of BankTieOut: what is outstanding is added to the bank's balance.
BankTieOutAdded(statementEnding, glEnding, outflows, inflows) ==
    LET bank == statementEnding + Sum(inflows.register_only) + Sum(outflows.register_only)
        book == glEnding + Sum(inflows.statement_only) - Sum(outflows.statement_only)
    IN  IF None \in {statementEnding, glEnding} THEN None ELSE bank - book

\* The difference of the adjusted balances.
BankTieOut(statementEnding, glEnding, outflows, inflows) ==
    LET bank == statementEnding + Sum(inflows.register_only) - Sum(outflows.register_only)
        book == glEnding + Sum(inflows.statement_only) - Sum(outflows.statement_only)
    IN  IF None \in {statementEnding, glEnding} THEN None ELSE bank - book
-----------------------------------------------------------------------------
(* matchTransactions. *)

Distance(s, q) == Size(s.date - q.date)

Viable(statement, register, tolerance, i, j) ==
    /\ statement[i].amount = register[j].amount
    /\ Distance(statement[i], register[j]) <= tolerance

\* The members of S one after another: each has as many before it as its place says.
\* before is a strict order of S, a set of pairs.
Ordered(S, before) ==
    [k \in 1..Cardinality(S) |->
        CHOOSE i \in S : Cardinality({j \in S : <<j, i>> \in before}) = k - 1]

\* The rows of one amount, by date and then as they came.
ByDate(rows, amount) ==
    LET S == {i \in DOMAIN rows : rows[i].amount = amount}
    IN  Ordered(S, {p \in S \X S : \/ rows[p[1]].date < rows[p[2]].date
                                   \/ rows[p[1]].date = rows[p[2]].date /\ p[1] < p[2]})

\* A score is the number of matches, their distance, and the matches themselves.
NoMatch == [count |-> 0, cost |-> 0, pairs |-> {}]

Better(a, b) == a.count > b.count \/ (a.count = b.count /\ a.cost < b.cost)

Matched(score, statement, register, i, j) ==
    [count |-> score.count + 1,
     cost  |-> score.cost + Distance(statement[i], register[j]),
     pairs |-> score.pairs \cup {<<i, j>>}]

\* scoreRow: what the first m of the register rows, at the positions regs, score against
\* the statement rows up to i; above is what they score without i.  Skip the statement
\* row, or the register row if that is better, or match the two if that is no worse.
ScoreRow(above, i, regs, statement, register, tolerance) ==
    LET score[m \in 0..Len(regs)] ==
            IF m = 0 THEN NoMatch
            ELSE LET left == score[m - 1]
                     skip == IF Better(left, above[m]) THEN left ELSE above[m]
                     match == Matched(above[m - 1], statement, register, i, regs[m])
                 IN  IF Viable(statement, register, tolerance, i, regs[m])
                           /\ ~Better(skip, match)
                     THEN match ELSE skip
    IN  score

\* The best score of the statement rows at the positions rows, taken one after another.
BestScore(rows, regs, statement, register, tolerance) ==
    LET score[k \in 0..Len(rows)] ==
            IF k = 0 THEN [m \in 0..Len(regs) |-> NoMatch]
            ELSE ScoreRow(score[k - 1], rows[k], regs, statement, register, tolerance)
    IN  score[Len(rows)][Len(regs)]

\* Mutant of MatchPairs: each statement row takes the nearest register row still free.
MatchPairsGreedy(statement, register, tolerance) ==
    LET Free(pairs, i) == {j \in DOMAIN register :
                              /\ Viable(statement, register, tolerance, i, j)
                              /\ \A p \in pairs : p[2] # j}
        Nearest(C, i) == CHOOSE j \in C :
                            \A x \in C : Distance(statement[i], register[j])
                                            <= Distance(statement[i], register[x])
    IN  FoldLeft(LAMBDA pairs, i :
                    IF Free(pairs, i) = {} THEN pairs
                    ELSE pairs \cup {<<i, Nearest(Free(pairs, i), i)>>},
                 {}, [i \in 1..Len(statement) |-> i])

\* Every amount is solved by itself.
MatchPairs(statement, register, tolerance) ==
    UNION {BestScore(ByDate(statement, amount), ByDate(register, amount),
                     statement, register, tolerance).pairs :
              amount \in {statement[i].amount : i \in DOMAIN statement}}

MatchTransactions(statement, register, tolerance) ==
    LET pairs == MatchPairs(statement, register, tolerance)
    IN  [pairs |-> pairs,
         statement_only |-> Keep(statement, DOMAIN statement \ {p[1] : p \in pairs}),
         register_only  |-> Keep(register, DOMAIN register \ {p[2] : p \in pairs})]
=============================================================================
