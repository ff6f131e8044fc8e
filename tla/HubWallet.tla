------------------------------ MODULE HubWallet ------------------------------
(***************************************************************************)
(* A user at the screens of a running hub.  The user has come for one of   *)
(* its areas: swaps, channels, app connections, or payments; the modules   *)
(* of the areas share no state, so the others stay as they are.  The       *)
(* values here are the instance that is checked.                           *)
(***************************************************************************)
EXTENDS Swaps, Channels, Connections, WalletScreens

CONSTANT Areas      \* a subset of {"swaps", "channels", "apps", "wallet"}

VARIABLE area

allVars == <<area, swapVars, chanVars, appVars, walletVars>>

ASSUME AreasAssumption == Areas \subseteq {"swaps", "channels", "apps", "wallet"}

TheSwapLimits == [min |-> 5, max |-> 20, spendable |-> 20, receivable |-> 20]
Plan(s, pages, faults) == [swaps |-> s, pages |-> pages, faults |-> faults]
ThePlans == {Plan({"in1"}, {"swap", "receive", "debug"}, 1), Plan({"out1"}, {"swap", "send", "auto"}, 1),
             Plan({"in1", "out1"}, {"auto"}, 0)}
ManyAutoSwaps == {Plan({"out1", "out2"}, {"auto"}, 0)}
Rate(unit, every) == [unit |-> unit, every |-> every]
ThePlanRates == {Rate("days", 1), Rate("days", 10), Rate("days", 31), Rate("weeks", 1), Rate("months", 1)}
TheJitTerms == [min |-> 4, max |-> 10]

-----------------------------------------------------------------------------
(* An area the user has not come for is at one of its initial states.      *)
SwapsIdle == plan = (CHOOSE p \in Plans : TRUE)
ChannelsIdle ==
    /\ chanVisit = (CHOOSE v \in ChannelVisits : TRUE)
    /\ onchain.total = 0
    /\ chanTab.page = (CHOOSE p \in Visit.pages \ {"order"} : TRUE)
AppsIdle == appVisit = (CHOOSE v \in AppVisits : TRUE) /\ account.plan /\ ~account.full
WalletIdle ==
    /\ walletVisit = (CHOOSE v \in WalletVisits : TRUE)
    /\ ~terms.jit /\ terms.receivable = 5
    /\ deposits.utxo[1].state = "none"
    /\ walletTab.page = (CHOOSE p \in {"wallet", "send", "receive"} : Leads(p))

HubWalletInit ==
    /\ area \in Areas
    /\ SwapInit /\ (area # "swaps" => SwapsIdle)
    /\ ChannelInit /\ (area # "channels" => ChannelsIdle)
    /\ AppInit /\ (area # "apps" => AppsIdle)
    /\ WalletInit /\ (area # "wallet" => WalletIdle)

HubWalletNext ==
    \/ area = "swaps" /\ SwapsNext /\ UNCHANGED <<area, chanVars, appVars, walletVars>>
    \/ area = "channels" /\ ChannelsNext /\ UNCHANGED <<area, swapVars, appVars, walletVars>>
    \/ area = "apps" /\ ConnectionsNext /\ UNCHANGED <<area, swapVars, chanVars, walletVars>>
    \/ area = "wallet" /\ WalletNext /\ UNCHANGED <<area, swapVars, chanVars, appVars>>

(* SwapsFairness, of the steps in the area of swaps.                       *)
HubWalletFairness ==
    /\ WF_swapVars(area = "swaps" /\ TakeUpdate) /\ WF_swapVars(area = "swaps" /\ SendUpdate)
    /\ \A s \in Swaps : WF_swapVars(area = "swaps" /\ Boltz(s)) /\ WF_swapVars(area = "swaps" /\ ListenerStep(s))
    /\ \A s \in Outs : WF_swapVars(area = "swaps" /\ PayerStep(s))

HubWalletSpec == HubWalletInit /\ [][HubWalletNext]_allVars /\ HubWalletFairness

(* The variables of every area have their types. *)
HubWalletTypeOK == area \in Areas /\ SwapTypeOK /\ ChannelTypeOK /\ AppTypeOK /\ WalletTypeOK
=============================================================================
