--------------------------- MODULE TransactionsMC ---------------------------
(***************************************************************************)
(* Instances of Transactions for TLC.  Every .cfg picks its requests from  *)
(* the table below, its apps and its bounds.                               *)
(***************************************************************************)
EXTENDS Transactions, TLC

(* "wrapped" is a hold invoice of this hub around the hash of "ext1".      *)
MCHash == [ext1 |-> "h1", ext2 |-> "h2", own1 |-> "h3", hold1 |-> "h4",
           wrapped |-> "h1", key1 |-> "h5", selfkey |-> "h6"]

MCAmount == [ext1 |-> 20000, ext2 |-> 10500, own1 |-> 20000, hold1 |-> 20000,
             wrapped |-> 21000, key1 |-> 10500, selfkey |-> 15000]

MCHashOf == [x \in Requests |-> MCHash[x]]
MCAmountOf == [x \in Requests |-> MCAmount[x]]

(* Own invoices and keysends pay to the first app, the isolated one.       *)
MCPayee == [x \in Own |-> CHOOSE a \in Apps : TRUE]

(* Enough for one payment of 20 sats with its reserve of 10 sats.          *)
MCFunding == [a \in Apps |-> 30000]
MCBudget == [a \in Apps |-> 0]
MCBudget60 == [a \in Apps |-> 60]

PayerSymmetry == Permutations(Payers)
=============================================================================
