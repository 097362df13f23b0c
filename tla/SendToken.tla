------------------------------ MODULE SendToken ------------------------------
(***************************************************************************)
(* What docs/features/telegram-send-confirmation.md:221-234 asks of the    *)
(* confirmation of a send, without requests, transactions or timers: a     *)
(* token is armed once and at most one token is armed at a time; an armed  *)
(* token is either used or void, for good; only a used token sends, and it *)
(* sends at most once.                                                     *)
(***************************************************************************)
EXTENDS Naturals

CONSTANT Token

VARIABLES
    state,  \* per token: none, armed, used or void
    sent    \* per token: has its message gone out

tokenVars == <<state, sent>>

Init ==
    /\ state = [t \in Token |-> "none"]
    /\ sent  = [t \in Token |-> FALSE]

\* Arming a token makes the one armed before it void.
Arm(t) ==
    /\ state[t] = "none"
    /\ state' = [u \in Token |-> IF u = t THEN "armed"
                                 ELSE IF state[u] = "armed" THEN "void"
                                 ELSE state[u]]
    /\ sent' = sent

Use(t) ==
    /\ state[t] = "armed"
    /\ state' = [state EXCEPT ![t] = "used"]
    /\ sent' = sent

Void(t) ==
    /\ state[t] = "armed"
    /\ state' = [state EXCEPT ![t] = "void"]
    /\ sent' = sent

Send(t) ==
    /\ state[t] = "used"
    /\ ~sent[t]
    /\ sent' = [sent EXCEPT ![t] = TRUE]
    /\ state' = state

Next == \E t \in Token : Arm(t) \/ Use(t) \/ Void(t) \/ Send(t)

Spec == Init /\ [][Next]_tokenVars

=============================================================================
