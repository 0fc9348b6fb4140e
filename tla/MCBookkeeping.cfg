SPECIFICATION Spec
CONSTANTS
    None = None
    i1 = i1
    i2 = i2
    i3 = i3
    b1 = b1
    b2 = b2
    v1 = v1
    ada = ada
    bob = bob
    vera = vera
    Invoice = {i1, i2, i3}
    Bill = {b1, b2}
    Credit = {v1}
    Documents <- MCDocuments
    CustomerPayment <- MCCustomerPayment
    BillPayment <- MCBillPayment
    BankAmount <- MCBankAmount
    File <- MCFile
    Opening <- MCOpening
    Tolerance = 1
    MaxDay = 3
    MaxRows = 3
INVARIANTS MoneyConserved MatchOptimal TieOutExact
CHECK_DEADLOCK FALSE
