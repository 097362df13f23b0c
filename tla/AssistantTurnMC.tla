-------------------------- MODULE AssistantTurnMC --------------------------
(* Two turns: of a web client or a Telegram chat, a command or a dictation. *)
EXTENDS AssistantTurn

TwoTurns == {1, 2}

Web     == [NoRequest EXCEPT !.fact = "fact"]
Stream  == [Web EXCEPT !.streamed = TRUE]
Stray   == [NoRequest EXCEPT !.known = FALSE]
Search  == [NoRequest EXCEPT !.search = "yes", !.streamed = TRUE]
Chat    == [Web EXCEPT !.source = "telegram", !.bound = TRUE]
Send    == [NoRequest EXCEPT !.source = "telegram_command", !.bound = TRUE,
                             !.forced = "telegram-send"]
Plain   == [Send EXCEPT !.forced = NoTool]
Unknown == [Send EXCEPT !.known = FALSE]
Aliases == [Send EXCEPT !.forced = "telegram-list-aliases"]
Dictate == [Web EXCEPT !.dictated = TRUE]
Quiet   == [Web EXCEPT !.search = "no"]

(* The first turn does everything there is to do with tools; the second    *)
(* meets it in the memory and in the transcript.                           *)
Requested == [t \in TwoTurns |->
  IF t = 1 THEN {Web, Stream, Stray, Search, Chat, Send, Plain, Unknown, Aliases,
                 Dictate}
  ELSE {Quiet}]

Connected == [search |-> "on", household |-> "real", bot |-> TRUE, token |-> FALSE,
              credentials |-> TRUE, offline |-> TRUE, demo |-> FALSE, memory |-> TRUE]
Showcase  == [search |-> "off", household |-> "demo", bot |-> FALSE, token |-> FALSE,
              credentials |-> FALSE, offline |-> FALSE, demo |-> TRUE, memory |-> TRUE]
Bare      == [Showcase EXCEPT !.household = "none", !.demo = FALSE, !.memory = FALSE]

Installed == {Connected, Showcase, Bare}

Asked == {"web-search", "telegram-send", "spotify-play-playlist", "spotify-next"}
=============================================================================
