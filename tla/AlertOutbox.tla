----------------------------- MODULE AlertOutbox -----------------------------
(***************************************************************************)
(* What the alert outbox promises, without leases, workers or retries: an  *)
(* accepted alert has a fixed audience; while it is open its message may   *)
(* reach a member of the audience, any number of times; it is closed once, *)
(* as completed only if it has reached everybody, and a closed alert is    *)
(* never sent again.  docs/runbooks/telegram.md:129-138 calls this         *)
(* at-least-once delivery per target chat.                                 *)
(***************************************************************************)
EXTENDS FiniteSets

CONSTANTS Alert, Person

VARIABLES
    state,     \* per alert: absent, open, completed or failed
    audience,  \* per alert: who has to be reached
    got        \* per alert: who has been reached

outboxVars == <<state, audience, got>>

Init ==
    /\ state    = [a \in Alert |-> "absent"]
    /\ audience = [a \in Alert |-> {}]
    /\ got      = [a \in Alert |-> {}]

Accept(a, to) ==
    /\ state[a] = "absent"
    /\ state' = [state EXCEPT ![a] = "open"]
    /\ audience' = [audience EXCEPT ![a] = to]
    /\ got' = got

Reach(a, p) ==
    /\ state[a] = "open"
    /\ p \in audience[a]
    /\ got' = [got EXCEPT ![a] = @ \cup {p}]
    /\ UNCHANGED <<state, audience>>

Close(a, how) ==
    /\ state[a] = "open"
    /\ how = "completed" => audience[a] \subseteq got[a]
    /\ state' = [state EXCEPT ![a] = how]
    /\ UNCHANGED <<audience, got>>

Next ==
    \E a \in Alert :
        \/ \E to \in (SUBSET Person) \ {{}} : Accept(a, to)
        \/ \E p \in Person : Reach(a, p)
        \/ \E how \in {"completed", "failed"} : Close(a, how)

Spec == Init /\ [][Next]_outboxVars

=============================================================================
