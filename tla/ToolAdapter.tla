---------------------------- MODULE ToolAdapter ----------------------------
(***************************************************************************)
(* What a tool adapter promises the assistant turn that calls it.  A call  *)
(* is started once, the service behind the adapter carries out the command *)
(* some number of times while the call runs, and the call ends once: with  *)
(* an answer, and then the command was carried out, or with an APIError,   *)
(* and then nothing is promised about it.  The adapter may try a command   *)
(* MaxRetries + 1 times, so that is how often it can be carried out.       *)
(***************************************************************************)
EXTENDS Naturals

CONSTANTS Calls,        \* tool calls
          MaxRetries    \* retries of one request by the adapter

VARIABLES phase,        \* phase[c]: "idle", "running", "ok" or "failed"
          performed     \* performed[c]: how often c's command was carried out

vars == <<phase, performed>>

Init == /\ phase = [c \in Calls |-> "idle"]
        /\ performed = [c \in Calls |-> 0]

Start(c) == /\ phase[c] = "idle"
            /\ phase' = [phase EXCEPT ![c] = "running"]
            /\ UNCHANGED performed

Perform(c) == /\ phase[c] = "running"
              /\ performed[c] <= MaxRetries
              /\ performed' = [performed EXCEPT ![c] = @ + 1]

Carry(c) == Perform(c) /\ UNCHANGED phase

(* The last execution and the end of the call may be one step: the service *)
(* carries the command out and its answer ends the call.                   *)
Succeed(c) == /\ phase[c] = "running"
              /\ \/ Perform(c)
                 \/ performed[c] > 0 /\ UNCHANGED performed
              /\ phase' = [phase EXCEPT ![c] = "ok"]

Fail(c) == /\ phase[c] = "running"
           /\ Perform(c) \/ UNCHANGED performed
           /\ phase' = [phase EXCEPT ![c] = "failed"]

Next == \E c \in Calls : Start(c) \/ Carry(c) \/ Succeed(c) \/ Fail(c)

Spec == Init /\ [][Next]_vars
=============================================================================
