-------------------------- MODULE TelegramUpdatesMC --------------------------
(* Small instances of TelegramUpdates for TLC. *)
EXTENDS TelegramUpdates, TLC

CONSTANTS u1, u2, h1, h2, a1, a2, a3

OneUpdate   == {u1}
TwoUpdates  == {u1, u2}
OneHandler  == {h1}
TwoHandlers == {h1, h2}
TwoRuns     == {a1, a2}
ThreeRuns   == {a1, a2, a3}

Sends == {"send"}
TextAndSend == {"text", "send"}

Symmetric == Permutations({u1, u2}) \cup Permutations({h1, h2})
                 \cup Permutations({a1, a2, a3})
=============================================================================
