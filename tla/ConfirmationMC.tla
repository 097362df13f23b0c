---------------------------- MODULE ConfirmationMC ----------------------------
(* Small instances of Confirmation for TLC. *)
EXTENDS Confirmation, TLC

CONSTANTS q1, q2, q3, q4

Three == {q1, q2, q3}
Four  == {q1, q2, q3, q4}

WebOnly        == {"agent_api"}
WebAndTelegram == {"agent_api", "telegram"}

RequestSymmetry == Permutations(Request)
=============================================================================
