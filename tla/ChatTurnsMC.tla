------------------------------ MODULE ChatTurnsMC ------------------------------
(* Small instances of ChatTurns for TLC. *)
EXTENDS ChatTurns, TLC

CONSTANTS chat, web, t1, t2, v1, v2, w1, w2

ChatAndWeb == {chat, web}
Chats      == {chat}
Webs       == {web}
OneTurn    == {t1}
TwoTurns   == {t1, t2}
TwoConversations == {v1, v2}
OneText    == {w1}
TwoTexts   == {w1, w2}

Symmetric == Permutations(TwoTurns) \cup Permutations(TwoConversations)
=============================================================================
