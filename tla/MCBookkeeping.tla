---------------------------- MODULE MCBookkeeping ----------------------------
(* One instance of Bookkeeping: two customers, one vendor with a credit. *)
EXTENDS Bookkeeping

CONSTANTS i1, i2, i3, b1, b2, v1, ada, bob, vera

MCDocuments ==
    [d \in Document |->
        CASE d = i1 -> [owner |-> ada, balance |-> 2]
          [] d = i2 -> [owner |-> ada, balance |-> 1]
          [] d = i3 -> [owner |-> bob, balance |-> 1]
          [] d = b1 -> [owner |-> vera, balance |-> 2]
          [] d = b2 -> [owner |-> vera, balance |-> 1]
          [] d = v1 -> [owner |-> vera, balance |-> 1]]

Alloc(d, tenths) == [doc |-> d, amount |-> tenths]

MCCustomerPayment ==
    {[customer |-> ada, allocations |-> <<Alloc(i1, 10)>>, total |-> 10],
     [customer |-> ada, allocations |-> <<Alloc(i1, 10), Alloc(i2, 10)>>, total |-> 20],
     [customer |-> ada, allocations |-> <<Alloc(i1, 14), Alloc(i2, 6)>>, total |-> 24],
     [customer |-> ada, allocations |-> <<Alloc(i1, 10), Alloc(i1, 10)>>, total |-> 20],
     [customer |-> bob, allocations |-> <<Alloc(i3, 10), Alloc(i2, 10)>>, total |-> 20],
     [customer |-> bob, allocations |-> <<Alloc(i3, 10)>>, total |-> 14],
     [customer |-> bob, allocations |-> <<Alloc(i3, 10)>>, total |-> 20]}

MCBillPayment ==
    {[vendor |-> vera, bills |-> <<b1, b2>>, credits |-> <<v1>>, cash |-> 10],
     [vendor |-> vera, bills |-> <<b2, b1>>, credits |-> <<>>, cash |-> 20],
     [vendor |-> vera, bills |-> <<b2, b2>>, credits |-> <<>>, cash |-> 20],
     [vendor |-> ada, bills |-> <<b2>>, credits |-> <<>>, cash |-> 10]}

MCFile == {[convention |-> "debit_credit", marks |-> {"lead"}],
           [convention |-> "negative_out", marks |-> {"paren", "lead"}],
           [convention |-> "positive_out", marks |-> {"trail"}]}

MCBankAmount == {-1, 1}
MCOpening == [bank |-> 7, books |-> 5]
=============================================================================
