---------------------------- MODULE HubLifecycle ----------------------------
(***************************************************************************)
(* What the hub promises its owner, without passwords being checked,       *)
(* locks, goroutines or screens: the password is chosen while the hub is   *)
(* being set up and its node is off, a node runs only on a hub that has a  *)
(* password, what was set up stays set up, and from then on a password     *)
(* becomes another one only when a change was asked for while the node was *)
(* on, or when the process comes up with a restored backup.                *)
(***************************************************************************)
CONSTANTS
    Passwords,      \* what a password can be
    None            \* no password yet

VARIABLES
    password,       \* the unlock password of the hub
    done,           \* the setup is complete
    running,        \* the node is on
    changing        \* a change of password was asked for and not made yet

vars == <<password, done, running, changing>>

Init ==
    /\ ~changing
    /\ \/ password = None /\ ~done /\ ~running
       \/ password \in Passwords /\ done /\ running

Configure ==
    /\ ~done /\ ~running
    /\ password' \in Passwords
    /\ UNCHANGED <<done, running, changing>>

Run ==
    /\ password # None
    /\ running' = TRUE
    /\ UNCHANGED <<password, done, changing>>

Complete ==
    /\ password # None
    /\ done' = TRUE
    /\ UNCHANGED <<password, running, changing>>

Stop ==
    /\ running' = FALSE
    /\ UNCHANGED <<password, done, changing>>

AskForChange ==
    /\ done /\ running
    /\ changing' = TRUE
    /\ UNCHANGED <<password, done, running>>

(* The change is made, or it fails.                                        *)
ChangePassword ==
    /\ changing
    /\ changing' = FALSE
    /\ password' \in Passwords
    /\ UNCHANGED <<done, running>>

Boot ==
    /\ running' = FALSE /\ changing' = FALSE
    /\ \/ UNCHANGED <<password, done>>
       \/ password' \in Passwords /\ done' = TRUE

Next == Configure \/ Run \/ Complete \/ Stop \/ AskForChange \/ ChangePassword \/ Boot
Spec == Init /\ [][Next]_vars
=============================================================================
