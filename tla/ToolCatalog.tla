---------------------------- MODULE ToolCatalog ----------------------------
(***************************************************************************)
(* The tools of agent-api as functions of the deployment: what the planner *)
(* offers to the model (modules/chat/planner.py), what the policy admits   *)
(* (policy.py), and what a call of the executor can come to (executor.py). *)
(*                                                                         *)
(* A deployment is what Settings says, and the household file it points to.*)
(* The settings are read once; the file is read again at each use, so a    *)
(* caller that re-reads it passes a deployment with another household.     *)
(***************************************************************************)
EXTENDS Naturals

CONSTANT MaxRetries  \* SpotifyClient._max_retries

ASSUME CatalogAssumption == MaxRetries \in Nat

Deployment ==
  [search      : {"off", "no adapter", "on"},
   household   : {"none", "demo", "real", "invalid"},
   bot         : BOOLEAN,    \* telegram_bot_token
   token       : BOOLEAN,    \* spotify_access_token
   credentials : BOOLEAN,    \* spotify_client_id and spotify_client_secret
   offline     : BOOLEAN,    \* spotify_redirect_uri and spotify_refresh_token
   demo        : BOOLEAN,    \* spotify_demo_enabled
   memory      : BOOLEAN]    \* memory_enabled and an ollama_embed_model

HouseholdTools == {"telegram-list-aliases", "telegram-send"}
BaselineTools  == {"spotify-list-playlists", "spotify-play-playlist",
                   "spotify-start-station"}
ClientTools    == {"spotify-search", "spotify-play", "spotify-pause",
                   "spotify-next"}

Tool == {"web-search"} \union HouseholdTools \union BaselineTools
          \union ClientTools

(* Tools that change nothing outside agent-api.                            *)
ReadOnly == {"web-search", "telegram-list-aliases", "spotify-list-playlists",
             "spotify-search"}

Source == {"agent_api", "telegram", "telegram_command"}

-----------------------------------------------------------------------------
(* Settings and household.                                                 *)

ClientConfigured(d) == d.token \/ d.credentials

RealConfigured(d) == d.credentials /\ d.offline

DemoConfigured(d) == d.demo /\ ~RealConfigured(d)

BaselineConfigured(d) == RealConfigured(d) \/ DemoConfigured(d)

(* load_household_config raises a RuntimeError, which is no APIError.      *)
HouseholdRaises(d) == d.household = "invalid"

SendState(d) ==
  CASE d.household = "demo"           -> "demo"
    [] d.household = "real" /\ d.bot  -> "real"
    [] OTHER                          -> "unconfigured"

(* The adapter objects of api/deps.py; NULL without their settings.        *)
SearchAdapter(d)  == d.search # "no adapter"
BotAdapter(d)     == d.bot
SpotifyAdapter(d) == ClientConfigured(d)

(* resolve_capability_discovery: what /help and /status tell the users.    *)
SpotifyState(d) ==
  CASE RealConfigured(d) -> "real"
    [] DemoConfigured(d) -> "demo"
    [] OTHER             -> "unconfigured"

Commands(d) ==
  {"/help", "/status", "/ask"}
    \union {c \in {"/aliases"} : d.household # "none"}
    \union {c \in {"/send"} : SendState(d) # "unconfigured"}

-----------------------------------------------------------------------------
(* ToolPlanner.build_planning_messages: the tools of the planning prompt.  *)
Offered(d) ==
  {t \in {"web-search"} : d.search = "on"}
    \union {t \in {"telegram-list-aliases"} : d.household # "none"}
    \union {t \in {"telegram-send"} : SendState(d) # "unconfigured"}
    \union {t \in BaselineTools : BaselineConfigured(d)}
    \union {t \in ClientTools : ClientConfigured(d)}

(* The directive in the model's answer: a JSON object with a "tool", and   *)
(* for each field whether it is absent, blank (or of another type) or good.*)
(* A seed is good if it is one of the supported kinds and moods.           *)
Field == {"query", "alias", "text", "message", "playlist_name", "name",
          "seed", "track_uri", "uri", "device_id"}

Directive == [tool : Tool \union {"other"},
              fields : [Field -> {"absent", "blank", "good"}]]

(* arguments.get(f), or arguments.get(g) if that is None.                  *)
Either(fields, f, g) == IF fields[f] = "absent" THEN fields[g] ELSE fields[f]

DeviceUsable(fields) == fields["device_id"] # "blank"

(* ToolPlanner.parse_decision: does the directive become a decision?  With *)
(* "uri" present, spotify-play still needs what "track_uri" says first.    *)
Decides(answer) ==
  LET fields == answer.fields
  IN  CASE answer.tool \in {"web-search", "spotify-search"} ->
             fields["query"] = "good"
        [] answer.tool \in {"spotify-list-playlists", "telegram-list-aliases"} ->
             TRUE
        [] answer.tool = "telegram-send" ->
             fields["alias"] = "good" /\ Either(fields, "text", "message") = "good"
        [] answer.tool = "spotify-play-playlist" ->
             /\ Either(fields, "playlist_name", "name") = "good"
             /\ DeviceUsable(fields)
        [] answer.tool = "spotify-start-station" ->
             fields["seed"] = "good" /\ DeviceUsable(fields)
        [] answer.tool = "spotify-play" ->
             Either(fields, "track_uri", "uri") = "good" /\ DeviceUsable(fields)
        [] answer.tool \in {"spotify-pause", "spotify-next"} ->
             DeviceUsable(fields)
        [] OTHER -> FALSE

(* The arguments that a decision carries on to the executor.               *)
Arguments(answer) ==
  LET fields == answer.fields
      Only(kept) == [f \in Field |-> IF f \in kept THEN fields[f] ELSE "absent"]
  IN  CASE answer.tool \in {"spotify-list-playlists", "telegram-list-aliases"} ->
             Only({})
        [] answer.tool = "telegram-send" ->
             [Only({"alias"}) EXCEPT !["text"] = Either(fields, "text", "message")]
        [] answer.tool = "spotify-play-playlist" ->
             [Only({"device_id"}) EXCEPT
                !["playlist_name"] = Either(fields, "playlist_name", "name")]
        [] answer.tool = "spotify-start-station" -> Only({"seed", "device_id"})
        [] answer.tool = "spotify-play" ->
             [fields EXCEPT !["track_uri"] = Either(fields, "track_uri", "uri"),
                            !["uri"] = "absent"]
        [] answer.tool \in {"spotify-pause", "spotify-next"} ->
             [fields EXCEPT !["track_uri"] = "absent", !["uri"] = "absent"]
        [] OTHER -> fields

(* What the executor's _normalize_... helpers and resolve_telegram_send    *)
(* insist on; they raise an APIError, and for spotify-play that one would  *)
(* meet a handler that uses a variable not yet assigned.                   *)
Needs(tool) ==
  CASE tool \in {"web-search", "spotify-search"} -> {"query"}
    [] tool = "telegram-send"                    -> {"alias", "text"}
    [] tool = "spotify-play-playlist"            -> {"playlist_name"}
    [] tool = "spotify-start-station"            -> {"seed"}
    [] tool = "spotify-play"                     -> {"track_uri"}
    [] OTHER                                     -> {}

-----------------------------------------------------------------------------
(* Mutant: the policy forgets where a request comes from.                  *)
AllowedFromAnywhere(source, tool) == TRUE

(* ToolPolicyEngine.evaluate.                                              *)
AllowedFrom(source, tool) ==
  CASE source = "telegram"         -> FALSE
    [] source = "telegram_command" -> tool \in HouseholdTools
    [] OTHER                       -> TRUE

Configured(d, tool) ==
  CASE tool = "web-search"             -> d.search = "on"
    [] tool = "telegram-list-aliases"  -> d.household # "none"
    [] tool = "telegram-send"          -> SendState(d) # "unconfigured"
    [] tool \in BaselineTools          -> BaselineConfigured(d)
    [] OTHER                           -> ClientConfigured(d)

Allowed(d, source, tool) ==
  tool \in Tool /\ AllowedFrom(source, tool) /\ Configured(d, tool)

(* The adapter that the audit row of an allowed call names.                *)
Adapter(d, tool) ==
  CASE tool = "web-search"            -> "search-http"
    [] tool = "telegram-list-aliases" -> "telegram-config"
    [] tool = "telegram-send"         -> "telegram-bot-api"
    [] tool \in BaselineTools /\ DemoConfigured(d) -> "spotify-demo"
    [] OTHER                          -> "spotify-http"

-----------------------------------------------------------------------------
(* What a call can come to: the status of its ToolExecutionRecord ("none"  *)
(* if an exception leaves execute), whether it was a demo, and how often   *)
(* the service behind it did what was asked.                               *)
Outcome == [status : {"completed", "failed", "APIError", "RuntimeError"},
            demo : BOOLEAN, done : Nat]

Failed     == [status |-> "failed", demo |-> FALSE, done |-> 0]
Completed  == [status |-> "completed", demo |-> FALSE, done |-> 0]
InDemo     == [status |-> "completed", demo |-> TRUE, done |-> 0]
Raises(e)  == [status |-> e, demo |-> FALSE, done |-> 0]

(* A command sent through an adapter that tries it up to n times, as       *)
(* ToolAdapter promises: completed means done, failed may mean done too.   *)
Commanded(n) == {[Completed EXCEPT !.done = k] : k \in 1..n}
                  \union {[Failed EXCEPT !.done = k] : k \in 0..n}

(* WebSearchClient.search: after the retries an answer, or an APIError.    *)
Searched == {Completed, Failed}

(* execute: web-search.                                                    *)
WebSearch(d) == IF SearchAdapter(d) THEN Searched ELSE {Failed}

(* execute: telegram-list-aliases reads the household once more.           *)
ListAliases(d) ==
  CASE HouseholdRaises(d)     -> {Raises("RuntimeError")}
    [] d.household = "none"   -> {Failed}
    [] OTHER                  -> {Completed}

(* execute: telegram-send resolves the alias in the household as it is now *)
(* and sends once, without a retry.                                        *)
TelegramSend(d, known) ==
  CASE HouseholdRaises(d)                    -> {Raises("RuntimeError")}
    [] d.household = "none" \/ ~known        -> {Failed}
    [] d.household = "demo" /\ known         -> {InDemo}
    [] d.household = "real" /\ known         ->
         IF BotAdapter(d) THEN Commanded(1) ELSE {Failed}

(* _execute_spotify_demo_tool: no handler catches the APIError of a name   *)
(* that _resolve_playlist_uri does not find.                               *)
SpotifyDemo(tool, known) ==
  IF tool = "spotify-play-playlist" /\ ~known THEN {Raises("APIError")}
  ELSE {InDemo}

(* _execute_spotify_tool with the client: the reads, play-playlist (which  *)
(* lists, resolves the name and then plays), and the other commands.       *)
SpotifyRead == {Completed, Failed}

SpotifyPlayPlaylist(known) ==
  IF known THEN Commanded(MaxRetries + 1) ELSE {Failed}

SpotifyCommand == Commanded(MaxRetries + 1)

SpotifyReal(d, tool, known) ==
  CASE ~SpotifyAdapter(d)                        -> {Failed}
    [] SpotifyAdapter(d) /\ tool \in ReadOnly    -> SpotifyRead
    [] SpotifyAdapter(d) /\ tool = "spotify-play-playlist" ->
         SpotifyPlayPlaylist(known)
    [] OTHER                                     -> SpotifyCommand

(* ToolExecutor.execute after the policy; known says whether the alias or  *)
(* the playlist that the arguments name exists.                            *)
Outcomes(d, tool, known) ==
  CASE tool = "web-search"            -> WebSearch(d)
    [] tool = "telegram-list-aliases" -> ListAliases(d)
    [] tool = "telegram-send"         -> TelegramSend(d, known)
    [] tool \in BaselineTools /\ DemoConfigured(d) -> SpotifyDemo(tool, known)
    [] OTHER                          -> SpotifyReal(d, tool, known)
=============================================================================
