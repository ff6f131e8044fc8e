------------------------- MODULE RequestHandlingMC -------------------------
(***************************************************************************)
(* Instances of RequestHandling for TLC: the requests of a .cfg are taken  *)
(* from these tables.                                                      *)
(***************************************************************************)
EXTENDS RequestHandling, TLC

MCMethods == [keysend |-> "pay_keysend", multi |-> "multi_pay_invoice",
              empty |-> "multi_pay_keysend",
              info |-> "get_info", strange |-> "unknown", noparams |-> "pay_invoice",
              cipher |-> "pay_invoice", garbled |-> "pay_invoice", nojson |-> "get_info"]

MCDamages == [noparams |-> "params", cipher |-> "encryption", garbled |-> "content",
              nojson |-> "json"]

MCMethod == [r \in Requests |-> MCMethods[r]]
MCDamage == [r \in Requests |-> IF r \in DOMAIN MCDamages THEN MCDamages[r] ELSE "none"]
MCPartsOf == [r \in Requests |-> CASE r = "multi" -> 2 [] r = "empty" -> 0 [] OTHER -> 1]
MCSender == [r \in Requests |-> CHOOSE k \in PubKeys : TRUE]

(* With the right to pay and without it.                                   *)
MCScopeSets == {{"pay_invoice"}, {"get_balance"}}

Symmetry == Permutations(Goroutines)
=============================================================================
