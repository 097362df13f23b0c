------------------------ MODULE AssistantTurnProofs ------------------------
(***************************************************************************)
(* Proofs about the tools (ToolCatalog), the memory's rules (MemoryItems)  *)
(* and the turns that use both (AssistantTurn), for any number of turns,   *)
(* any requests, deployments and tools, and any number of faults, edits    *)
(* and changes of the memory.                                              *)
(***************************************************************************)
EXTENDS AssistantTurn, TLAPS

(***************************************************************************)
(* The tools and the memory: what the planner, the policy and the executor *)
(* of agent-api agree on, in every deployment, and what a call of a tool   *)
(* can never come to.                                                      *)
(***************************************************************************)
(* For an ordinary request the planning prompt (planner.py) offers exactly *)
(* the tools that the policy (policy.py) allows: the two are written apart *)
(* and read the settings apart.                                            *)
THEOREM OfferedIsAllowed ==
  ASSUME NEW d \in Deployment
  PROVE  Offered(d) = {tool \in Tool : Allowed(d, "agent_api", tool)}
  BY DEF Offered, Allowed, AllowedFrom, Configured, Tool, HouseholdTools,
         BaselineTools, ClientTools

(* A directive of the model that the parser (planner.py) lets through has  *)
(* every argument that the executor (executor.py) will insist on, so no    *)
(* planned call meets the exception of a missing argument.                 *)
THEOREM DecisionIsExecutable ==
  ASSUME NEW answer \in Directive, Decides(answer)
  PROVE  \A f \in Needs(answer.tool) : Arguments(answer)[f] = "good"
<1> DEFINE fields == answer.fields
<1>1. answer.tool \in Tool \union {"other"} /\ fields \in [Field -> {"absent", "blank", "good"}]
  BY DEF Directive
<1>2. CASE answer.tool \in {"web-search", "spotify-search"}
  BY <1>1, <1>2 DEF Decides, Arguments, Needs, Field
<1>3. CASE answer.tool = "telegram-send"
  BY <1>1, <1>3 DEF Decides, Arguments, Needs, Field, Either
<1>4. CASE answer.tool = "spotify-play-playlist"
  BY <1>1, <1>4 DEF Decides, Arguments, Needs, Field, Either
<1>5. CASE answer.tool = "spotify-start-station"
  BY <1>1, <1>5 DEF Decides, Arguments, Needs, Field
<1>6. CASE answer.tool = "spotify-play"
  BY <1>1, <1>6 DEF Decides, Arguments, Needs, Field, Either
<1>7. CASE answer.tool \in {"telegram-list-aliases", "spotify-list-playlists",
                            "spotify-pause", "spotify-next", "other"}
  BY <1>7 DEF Needs
<1> QED
  BY <1>1, <1>2, <1>3, <1>4, <1>5, <1>6, <1>7
     DEF Tool, HouseholdTools, BaselineTools, ClientTools

(* What /help advertises (capabilities.py) is what the policy allows a     *)
(* Telegram command: /aliases and /send, each exactly when its tool passes.*)
THEOREM AdvertisedIsAllowed ==
  ASSUME NEW d \in Deployment
  PROVE  /\ "/aliases" \in Commands(d)
              <=> Allowed(d, "telegram_command", "telegram-list-aliases")
         /\ "/send" \in Commands(d)
              <=> Allowed(d, "telegram_command", "telegram-send")
         /\ \A tool \in BaselineTools :
              SpotifyState(d) # "unconfigured" <=> Allowed(d, "agent_api", tool)
<1>1. /\ "/aliases" \in Commands(d)
           <=> Allowed(d, "telegram_command", "telegram-list-aliases")
      /\ "/send" \in Commands(d)
           <=> Allowed(d, "telegram_command", "telegram-send")
  BY DEF Commands, Allowed, AllowedFrom, Configured, Tool, HouseholdTools,
         BaselineTools
<1>2. ASSUME NEW tool \in BaselineTools
      PROVE  SpotifyState(d) # "unconfigured" <=> Allowed(d, "agent_api", tool)
  BY <1>2 DEF SpotifyState, Allowed, AllowedFrom, Configured, Tool,
              BaselineTools, BaselineConfigured, RealConfigured, DemoConfigured
<1> QED BY <1>1, <1>2

(* A tool that the policy allows finds the adapter object that its handler *)
(* needs: the policy reads the settings, api/deps.py builds from them.     *)
(* (The search adapter is the one the policy asks for itself.)             *)
THEOREM AllowedHasAdapter ==
  ASSUME NEW d \in Deployment, NEW source \in Source, NEW tool \in Tool,
         Allowed(d, source, tool)
  PROVE  /\ tool = "web-search" => SearchAdapter(d)
         /\ tool = "telegram-send" => d.household = "demo" \/ BotAdapter(d)
         /\ tool \in BaselineTools \union ClientTools =>
              Adapter(d, tool) = "spotify-demo" \/ SpotifyAdapter(d)
<1>1. Configured(d, tool)
  BY DEF Allowed
<1>2. tool = "web-search" => SearchAdapter(d)
  BY <1>1 DEF Configured, BaselineTools, SearchAdapter
<1>3. tool = "telegram-send" => d.household = "demo" \/ BotAdapter(d)
  BY <1>1 DEF Configured, BaselineTools, SendState, BotAdapter
<1>4. ASSUME tool \in BaselineTools
      PROVE  Adapter(d, tool) = "spotify-demo" \/ SpotifyAdapter(d)
  BY <1>1, <1>4 DEF Configured, BaselineTools, BaselineConfigured, RealConfigured,
     Adapter, SpotifyAdapter, ClientConfigured
<1>5. ASSUME tool \in ClientTools
      PROVE  SpotifyAdapter(d)
  BY <1>1, <1>5 DEF Configured, ClientTools, BaselineTools, SpotifyAdapter
<1> QED BY <1>2, <1>3, <1>4, <1>5

-----------------------------------------------------------------------------
(* What Commanded(n) holds: a completed command was carried out, and none  *)
(* was carried out more than n times.                                      *)
LEMMA CommandedFacts ==
  ASSUME NEW n \in Nat, NEW outcome \in Commanded(n)
  PROVE  /\ outcome \in Outcome /\ outcome.done \in 0..n /\ ~outcome.demo
         /\ outcome.status \in {"completed", "failed"}
         /\ outcome.status = "completed" => outcome.done > 0
<1>1. CASE \E k \in 1..n : outcome = [Completed EXCEPT !.done = k]
  <2>1. PICK k \in 1..n : outcome = [Completed EXCEPT !.done = k]
    BY <1>1
  <2>2. outcome = [status |-> "completed", demo |-> FALSE, done |-> k]
    BY <2>1 DEF Completed
  <2> QED BY <2>2 DEF Outcome
<1>2. CASE \E k \in 0..n : outcome = [Failed EXCEPT !.done = k]
  <2>1. PICK k \in 0..n : outcome = [Failed EXCEPT !.done = k]
    BY <1>2
  <2>2. outcome = [status |-> "failed", demo |-> FALSE, done |-> k]
    BY <2>1 DEF Failed
  <2> QED BY <2>2 DEF Outcome
<1> QED BY <1>1, <1>2 DEF Commanded

(* However the executor (executor.py) ends a call of a tool: "completed"   *)
(* is told only of what was done or demonstrated; a demo and an exception  *)
(* do nothing; a reading tool changes nothing; a message is sent at most   *)
(* once, and a Spotify command is repeated at most by the adapter's        *)
(* retries.                                                                *)
THEOREM OutcomesAreHonest ==
  ASSUME NEW d \in Deployment, NEW tool \in Tool, NEW known \in BOOLEAN,
         NEW outcome \in Outcomes(d, tool, known)
  PROVE  /\ outcome \in Outcome
         /\ outcome.done \in 0..MaxRetries + 1
         /\ tool = "telegram-send" => outcome.done \in 0..1
         /\ tool \in ReadOnly => outcome.done = 0
         /\ outcome.demo \/ outcome.status \notin {"completed", "failed"} => outcome.done = 0
         /\ outcome.status = "completed" /\ tool \notin ReadOnly =>
              outcome.demo \/ outcome.done > 0
<1> USE CatalogAssumption
<1> DEFINE Harmless == outcome \in Outcome /\ outcome.done = 0
<1> DEFINE Active(n) ==
      /\ outcome \in Outcome /\ outcome.done \in 0..n /\ ~outcome.demo
      /\ outcome.status \in {"completed", "failed"}
      /\ outcome.status = "completed" => outcome.done > 0
<1>1. outcome \in {Completed, Failed, InDemo, Raises("RuntimeError"), Raises("APIError")}
        => Harmless
  <2>1. Completed \in Outcome /\ Completed.done = 0
    BY DEF Completed, Outcome
  <2>2. Failed \in Outcome /\ Failed.done = 0
    BY DEF Failed, Outcome
  <2>3. InDemo \in Outcome /\ InDemo.done = 0
    BY DEF InDemo, Outcome
  <2>4. ASSUME NEW e \in {"RuntimeError", "APIError"}
        PROVE  Raises(e) \in Outcome /\ Raises(e).done = 0
    BY <2>4 DEF Raises, Outcome
  <2> QED BY <2>1, <2>2, <2>3, <2>4
<1>2. outcome \in {Failed, InDemo, Raises("RuntimeError"), Raises("APIError")}
        => (outcome.status = "completed" => outcome.demo)
  BY DEF Failed, InDemo, Raises
<1>3. ASSUME NEW n \in Nat
      PROVE  outcome \in Commanded(n) => Active(n)
  BY <1>3, CommandedFacts
<1>4. CASE tool \in {"web-search", "telegram-list-aliases"}
  <2>1. outcome \in {Completed, Failed, Raises("RuntimeError")}
    BY <1>4 DEF Outcomes, BaselineTools, WebSearch, Searched, ListAliases
  <2> QED BY <1>1, <1>4, <2>1 DEF ReadOnly
<1>5. CASE tool = "telegram-send"
  <2>1. d.household \in {"none", "demo", "real", "invalid"}
    BY DEF Deployment
  <2>2. outcome \in {InDemo, Failed, Raises("RuntimeError")} \union Commanded(1)
    BY <1>5, <2>1 DEF Outcomes, BaselineTools, TelegramSend, HouseholdRaises
  <2>3. CASE outcome \in Commanded(1)
    <3>1. Active(1) BY <1>3, <2>3
    <3> QED BY <1>5, <3>1 DEF ReadOnly
  <2>4. CASE outcome \in {InDemo, Failed, Raises("RuntimeError")}
    BY <1>1, <1>2, <2>4
  <2> QED BY <2>2, <2>3, <2>4
<1>6. CASE tool \in BaselineTools \union ClientTools
  <2>1. outcome \in SpotifyDemo(tool, known) \union SpotifyReal(d, tool, known)
    BY <1>6 DEF Outcomes, BaselineTools, ClientTools
  <2>2. tool # "telegram-send"
    BY <1>6 DEF BaselineTools, ClientTools
  <2>3. CASE tool \in ReadOnly
    <3>1. outcome \in {InDemo, Completed, Failed}
      BY <2>1, <2>3 DEF SpotifyDemo, SpotifyReal, SpotifyRead, ReadOnly
    <3> QED BY <1>1, <2>2, <2>3, <3>1
  <2>4. CASE tool \notin ReadOnly
    <3>1. outcome \in {InDemo, Raises("APIError"), Failed} \union Commanded(MaxRetries + 1)
      BY <2>1, <2>4 DEF SpotifyDemo, SpotifyReal, SpotifyPlayPlaylist, SpotifyCommand
    <3>2. CASE outcome \in Commanded(MaxRetries + 1)
      <4>1. Active(MaxRetries + 1) BY <1>3, <3>2
      <4> QED BY <2>2, <2>4, <4>1
    <3>3. CASE outcome \in {InDemo, Raises("APIError"), Failed}
      BY <1>1, <1>2, <2>2, <2>4, <3>3
    <3> QED BY <3>1, <3>2, <3>3
  <2> QED BY <2>3, <2>4
<1> QED
  BY <1>4, <1>5, <1>6 DEF Tool, HouseholdTools

(* A change of an item's status (memory_repo.py) never brings one back:    *)
(* what is forgotten is not retrieved then or after any further change.    *)
THEOREM ForgottenForGood ==
  ASSUME NEW memory, memory = [i \in DOMAIN memory |-> memory[i]],
         NEW i \in DOMAIN memory, NEW j \in DOMAIN memory,
         NEW to \in {"invalidated", "deleted"},
         memory[j] \in {"invalidated", "deleted"}
  PROVE  /\ j \notin Retrievable(Transitioned(memory, i, to))
         /\ \A hits \in Retrievals(Transitioned(memory, i, to)) : j \notin hits
<1>1. j \notin Retrievable(Transitioned(memory, i, to))
  BY DEF Retrievable, Transitioned, MayBecome
<1> QED BY <1>1 DEF Retrievals

(***************************************************************************)
(* The turns.                                                              *)
(***************************************************************************)

(* The inductive invariant.  A thread is Sound(k) by itself; Keeps(k, d)   *)
(* relates it to the household, Forgets and Learned to the memory.         *)
Items == Turns \union {Old}

Replies == {"none", "error", "text", "unknown_alias", "cannot_send", "shall_i",
            "unavailable", "aliases", "sent", "demo"}

Thread == [pc : Threads, request : Request, plans : BOOLEAN,
           tool : Tool \union {NoTool},
           promised : {"none", "demo", "real", "invalid"},
           recall : {"none", "completed", "error"}, hits : SUBSET Items,
           record : Records, demo : BOOLEAN, done : 0..MaxRetries + 1,
           caught : BOOLEAN, failing : BOOLEAN, reply : Replies, audit : Records,
           edited : BOOLEAN, gone : SUBSET Items, lost : BOOLEAN,
           unlearned : BOOLEAN]

(* Nothing has been done yet.                                              *)
Early(k) == k.pc \in {"idle", "command", "recall", "plan", "policy", "call"}

Fresh(k) == k.done = 0 /\ k.record = "none" /\ k.audit = "none"
              /\ k.reply = "none" /\ ~k.failing /\ ~k.caught

(* The tool that a turn is about to have allowed, or to call.              *)
Choice(k) ==
  /\ k.tool \in Tool
  /\ k.request.forced # NoTool => k.tool = k.request.forced
  /\ k.tool = "telegram-send" => k.request.source # "agent_api"

Consents(k) ==
  /\ k.request.source # "telegram"
  /\ k.tool = "telegram-send" => k.request.source = "telegram_command"

(* "completed" means done, or demonstrated.                                *)
Meant(k, status) ==
  status = "completed" /\ k.tool \notin ReadOnly => k.demo = (k.done = 0)

Sound(k) ==
  /\ k \in Thread
  /\ k.request.forced # NoTool => k.request.source = "telegram_command"
  /\ Early(k) => Fresh(k)
  /\ k.pc = "answer" => ~k.failing /\ ~k.caught
  /\ k.caught => ~k.failing
  /\ k.caught /\ ~k.request.streamed => k.done = 0
  /\ k.request.dictated => k.done = 0 /\ (Early(k) => k.pc = "idle")
  /\ k.pc = "command" => k.request.forced # NoTool
  /\ k.pc = "recall" \/ k.pc = "plan" => k.request.forced = NoTool
  /\ k.pc = "policy" \/ k.pc = "call" => Choice(k)
  /\ k.pc = "call" => AllowedFrom(k.request.source, k.tool)
  /\ k.done > 0 => Consents(k)
  /\ k.done > 0 /\ ~Over(k) => k.record # "none"
  /\ k.done > 0 /\ (Over(k) \/ k.pc = "store") => k.audit # "none" \/ k.lost
  /\ Meant(k, k.record) /\ Meant(k, k.audit)
  /\ k.reply = "sent" => k.done = 1 \/ (k.edited /\ k.demo)
  /\ k.reply = "demo" => k.done = 0 \/ k.edited
  /\ k.reply = "unknown_alias" => k.done = 0

Keeps(k, d) ==
  (k.pc = "policy" \/ k.pc = "call") /\ k.request.forced = "telegram-send" /\ ~k.edited
    => k.promised = d.household

Forgets(k, memory) ==
  /\ \A i \in k.gone : memory[i] \in {"invalidated", "deleted"}
  /\ k.hits \intersect k.gone = {}

State ==
  /\ deployment \in Deployment
  /\ items \in [Items -> Status \union {"none"}]
  /\ rows \in [Turns -> {"none", "unanswered", "matched", "answered"}]
  /\ faults \in 0..MaxFaults /\ edits \in 0..MaxEdits /\ forgets \in 0..MaxForgets

Learned(t) == items[t] # "none" =>
                turn[t].pc = "ok" /\ turn[t].request.fact # NoFact

Inv ==
  /\ State
  /\ turn = [t \in Turns |-> turn[t]]
  /\ \A t \in Turns : /\ Sound(turn[t])
                      /\ Keeps(turn[t], deployment)
                      /\ Forgets(turn[t], items)
                      /\ Learned(t)

-----------------------------------------------------------------------------
(* What becomes of one sound thread.                                       *)

LEMMA Names ==
  /\ "idle" \in Threads /\ "command" \in Threads /\ "recall" \in Threads
  /\ "plan" \in Threads /\ "policy" \in Threads /\ "call" \in Threads
  /\ "answer" \in Threads /\ "persist" \in Threads /\ "audit_recall" \in Threads
  /\ "audit_tool" \in Threads /\ "store" \in Threads /\ "ok" \in Threads
  /\ "error" \in Threads
  /\ "none" \in Records /\ "completed" \in Records /\ "failed" \in Records
  /\ "pending_confirmation" \in Records
  /\ "none" \in Replies /\ "error" \in Replies /\ "text" \in Replies
  /\ "unknown_alias" \in Replies /\ "cannot_send" \in Replies /\ "shall_i" \in Replies
  /\ "unavailable" \in Replies /\ "aliases" \in Replies /\ "sent" \in Replies
  /\ "demo" \in Replies
  BY DEF Threads, Records, Replies

LEMMA IdleThread == Idle \in Thread
<1>1. NoRequest \in Request
  BY DEF NoRequest, Request, NoTool, NoFact, Source
<1>2. 0 \in 0..MaxRetries + 1
  BY CatalogAssumption
<1> QED BY <1>1, <1>2 DEF Idle, Thread, Threads, Records, Replies

LEMMA IdleSound ==
  ASSUME NEW r \in Request, r.forced # NoTool => r.source = "telegram_command"
  PROVE  Sound([Idle EXCEPT !.request = r])
<1> DEFINE f == [Idle EXCEPT !.request = r]
<1>1. f \in Thread
  BY IdleThread DEF Thread
<1>2. /\ f.pc = "idle" /\ f.failing = FALSE /\ f.caught = FALSE /\ f.request = r
      /\ f.record = "none" /\ f.done = 0 /\ f.reply = "none" /\ f.audit = "none"
  BY DEF Idle
<1> HIDE DEF f
<1>3. Sound(f)
  BY <1>1, <1>2 DEF Sound, Early, Fresh, Over, Meant, Consents
<1> QED BY <1>3 DEF f

LEMMA EndSound ==
  ASSUME NEW k, Sound(k), NEW pc \in {"ok", "error"},
         k.done > 0 => k.audit # "none" \/ k.lost
  PROVE  Sound(End(k, pc)) /\ End(k, pc).pc = pc /\ End(k, pc).request = k.request
           /\ End(k, pc).hits = {} /\ End(k, pc).gone = {}
<1> DEFINE f == End(k, pc)
<1>1. k \in Thread
  BY DEF Sound
<1>2. f \in Thread
  BY <1>1 DEF Thread, Threads, Records, End
<1>3. /\ f.pc = pc /\ f.failing = FALSE /\ f.caught = FALSE /\ f.hits = {} /\ f.gone = {}
      /\ f.request = k.request /\ f.tool = k.tool /\ f.record = "none"
      /\ f.demo = k.demo /\ f.done = k.done /\ f.reply = k.reply /\ f.audit = k.audit
      /\ f.edited = k.edited /\ f.lost = k.lost
  BY <1>1 DEF Thread, End
<1> HIDE DEF f
<1>4. Sound(f)
  BY <1>2, <1>3 DEF Sound, Early, Over, Meant, Consents
<1> QED BY <1>3, <1>4 DEF f

LEMMA FailsSound ==
  ASSUME NEW k, Sound(k), ~Over(k)
  PROVE  Sound(Fails(k))
<1> DEFINE f == Fails(k)
<1>1. k \in Thread
  BY DEF Sound
<1>2. f \in Thread
  BY <1>1 DEF Thread, Threads, Fails
<1>3. /\ f.pc = "persist" /\ f.failing = TRUE /\ f.caught = FALSE
      /\ f.request = k.request /\ f.tool = k.tool /\ f.record = k.record
      /\ f.demo = k.demo /\ f.done = k.done /\ f.reply = k.reply /\ f.audit = k.audit
      /\ f.edited = k.edited /\ f.lost = k.lost
  BY <1>1 DEF Thread, Fails
<1> HIDE DEF f
<1>4. Sound(f)
  BY <1>2, <1>3 DEF Sound, Early, Over, Meant, Consents
<1> QED BY <1>4 DEF f

LEMMA ErrsSound ==
  ASSUME NEW k, Sound(k), k.done > 0 => k.audit # "none" \/ k.lost
  PROVE  Sound(Errs(k)) /\ Errs(k).pc = "error" /\ Errs(k).request = k.request
           /\ Errs(k).hits = {} /\ Errs(k).gone = {}
<1> DEFINE f == Errs(k)
<1>1. k \in Thread
  BY DEF Sound
<1>2. f \in Thread
  BY <1>1 DEF Thread, Threads, Records, Replies, Errs, End
<1>3. /\ f.pc = "error" /\ f.failing = FALSE /\ f.caught = FALSE /\ f.hits = {} /\ f.gone = {}
      /\ f.request = k.request /\ f.tool = k.tool /\ f.record = "none"
      /\ f.demo = k.demo /\ f.done = k.done /\ f.reply = "error" /\ f.audit = k.audit
      /\ f.edited = k.edited /\ f.lost = k.lost
  BY <1>1 DEF Thread, Errs, End
<1> HIDE DEF f
<1>4. Sound(f)
  BY <1>2, <1>3 DEF Sound, Early, Over, Meant, Consents
<1> QED BY <1>3, <1>4 DEF f

LEMMA VanishesSound ==
  ASSUME NEW k, Sound(k)
  PROVE  Sound(Vanishes(k)) /\ Vanishes(k).pc = "error" /\ Vanishes(k).request = k.request
           /\ Vanishes(k).hits = {} /\ Vanishes(k).gone = {}
<1> DEFINE f == Vanishes(k)
<1>1. k \in Thread
  BY DEF Sound
<1>2. f \in Thread
  BY <1>1 DEF Thread, Threads, Records, Replies, Vanishes, Errs, End
<1>3. /\ f.pc = "error" /\ f.failing = FALSE /\ f.caught = FALSE /\ f.hits = {} /\ f.gone = {}
      /\ f.request = k.request /\ f.tool = k.tool /\ f.record = "none"
      /\ f.demo = k.demo /\ f.done = k.done /\ f.reply = "error" /\ f.audit = k.audit
      /\ f.edited = k.edited /\ f.lost = TRUE
  BY <1>1 DEF Thread, Vanishes, Errs, End
<1> HIDE DEF f
<1>4. Sound(f)
  BY <1>2, <1>3 DEF Sound, Early, Over, Meant, Consents
<1> QED BY <1>3, <1>4 DEF f

(* A thread that has done nothing so far is sound as far as its next step  *)
(* goes, and so is one whose turn ends without a tool having done anything.*)
LEMMA FreshSound ==
  ASSUME NEW f \in Thread, Fresh(f),
         f.request.forced # NoTool => f.request.source = "telegram_command",
         f.pc = "command" => f.request.forced # NoTool,
         f.pc = "recall" \/ f.pc = "plan" => f.request.forced = NoTool,
         f.pc = "policy" \/ f.pc = "call" => Choice(f),
         f.pc = "call" => AllowedFrom(f.request.source, f.tool),
         f.request.dictated /\ Early(f) => f.pc = "idle"
  PROVE  Sound(f)
  BY DEF Sound, Fresh, Over, Meant

LEMMA UndoneSound ==
  ASSUME NEW f \in Thread, f.pc = "persist", f.done = 0, ~f.failing, f.audit = "none",
         f.record # "completed", f.reply # "sent",
         f.request.forced # NoTool => f.request.source = "telegram_command"
  PROVE  Sound(f)
  BY DEF Sound, Early, Over, Meant

(* A thread that is gone asks nothing of the household or of the memory.   *)
LEMMA GoneKeeps ==
  ASSUME NEW k, k.pc = "error" \/ k.pc = "ok", k.hits = {}, k.gone = {}, NEW d, NEW memory
  PROVE  Keeps(k, d) /\ Forgets(k, memory)
  BY DEF Keeps, Forgets

(* One turn moves on, and neither the household nor the memory changes.    *)
LEMMA Moves ==
  ASSUME Inv, State', NEW t \in Turns, turn[t].pc # "ok",
         NEW k, Becomes(t, k), Sound(k), Keeps(k, deployment), Forgets(k, items),
         UNCHANGED <<deployment, items>>
  PROVE  Inv'
<1>1. turn' = [u \in Turns |-> IF u = t THEN k ELSE turn[u]]
  BY DEF Inv, Becomes
<1>2. turn' = [u \in Turns |-> turn'[u]]
  BY <1>1
<1>3. ASSUME NEW u \in Turns
      PROVE  /\ Sound(turn'[u]) /\ Keeps(turn'[u], deployment')
             /\ Forgets(turn'[u], items') /\ Learned(u)'
  <2>1. CASE u = t
    <3>1. turn'[u] = k
      BY <1>1, <2>1
    <3>2. items[t] = "none"
      BY DEF Inv, Learned
    <3> QED BY <2>1, <3>1, <3>2 DEF Learned
  <2>2. CASE u # t
    <3>1. turn'[u] = turn[u]
      BY <1>1, <2>2
    <3> QED BY <3>1 DEF Inv, Learned
  <2> QED BY <2>1, <2>2
<1> QED BY <1>2, <1>3 DEF Inv

(* A step that may be a fault and changes no table.                        *)
LEMMA StateStays ==
  ASSUME State, UNCHANGED <<deployment, items, rows, edits, forgets>>,
         UNCHANGED faults \/ Fault
  PROVE  State'
<1>1. faults' \in 0..MaxFaults
  BY TurnAssumption DEF State, Fault
<1> QED BY <1>1 DEF State

(* The step of a turn that is not about to be allowed anything, and that   *)
(* remembers no more than before.                                          *)
LEMMA Onward ==
  ASSUME Inv, State', NEW t \in Turns, turn[t].pc # "ok",
         NEW k, Becomes(t, k), Sound(k), k.pc \notin {"policy", "call"},
         k.gone \subseteq turn[t].gone, k.hits \subseteq turn[t].hits,
         UNCHANGED <<deployment, items>>
  PROVE  Inv'
<1>1. Keeps(k, deployment)
  BY DEF Keeps
<1>2. Forgets(turn[t], items)
  BY DEF Inv
<1>3. Forgets(k, items)
  BY <1>2 DEF Forgets
<1> QED BY <1>1, <1>3, Moves

-----------------------------------------------------------------------------
(* Every action preserves the invariant.                                   *)

LEMMA BegunSound ==
  ASSUME NEW k \in Thread, k.pc = "idle", Fresh(k), ~k.caught,
         k.request.forced # NoTool => k.request.source = "telegram_command"
  PROVE  LET f == Goes(k, First(k.request))
         IN  /\ Sound(k) /\ Sound(f)
             /\ f.pc \notin {"policy", "call"} /\ f.gone = k.gone /\ f.hits = k.hits
<1> DEFINE r == k.request
           f == Goes(k, First(r))
<1>6. r \in Request /\ r.dictated \in BOOLEAN
  BY DEF Thread, Request
<1>1. /\ First(r) \in {"persist", "command", "recall"}
      /\ First(r) = "command" => r.forced # NoTool
      /\ First(r) = "recall" => r.forced = NoTool
      /\ r.dictated => First(r) = "persist"
  BY <1>6 DEF First
<1>2. f \in Thread
  BY <1>1 DEF Thread, Threads, Goes
<1>3. /\ f.pc = First(r) /\ f.failing = k.failing /\ f.caught = k.caught /\ f.request = r
      /\ f.record = k.record /\ f.done = k.done /\ f.reply = k.reply /\ f.audit = k.audit
      /\ f.hits = k.hits /\ f.gone = k.gone
  BY DEF Thread, Goes
<1> HIDE DEF f
<1>4. Sound(k)
  BY DEF Sound, Early, Fresh, Over, Meant, Consents
<1>5. Sound(f)
  BY <1>1, <1>2, <1>3 DEF Sound, Early, Fresh, Over, Meant, Consents
<1> QED BY <1>1, <1>3, <1>4, <1>5 DEF f

LEMMA BeginStep ==
  ASSUME Inv, NEW t \in Turns, Begin(t)
  PROVE  Inv'
<1>1. PICK r \in Requests[t] :
        LET k == [Idle EXCEPT !.request = r, !.gone = Forgotten,
                              !.plans = Offered(deployment) # {}]
        IN  Becomes(t, IF HouseholdRaises(deployment) /\ ~r.dictated
                       THEN Errs(k) ELSE Goes(k, First(r)))
  BY DEF Begin
<1> DEFINE plans == Offered(deployment) # {}
           i == [Idle EXCEPT !.request = r]
           k == [Idle EXCEPT !.request = r, !.gone = Forgotten, !.plans = plans]
           f == Goes(k, First(r))
<1>2. r \in Request /\ (r.forced # NoTool => r.source = "telegram_command")
  BY TurnAssumption
<1>3. Forgotten \in SUBSET Items /\ plans \in BOOLEAN
  BY DEF Forgotten, Inv, State
<1>4. i \in Thread
  BY <1>2, IdleSound DEF Sound
<1>5. k = [i EXCEPT !.gone = Forgotten, !.plans = plans]
  BY DEF Idle
<1>6. k \in Thread
  BY <1>3, <1>4, <1>5 DEF Thread
<1>7. k.pc = "idle" /\ Fresh(k) /\ ~k.caught /\ k.request = r /\ k.hits = {} /\ k.gone = Forgotten
  BY DEF Idle, Fresh
<1>8. State' /\ turn[t].pc # "ok" /\ UNCHANGED <<deployment, items>>
  BY StateStays DEF Begin, Inv, At
<1>9. Becomes(t, IF HouseholdRaises(deployment) /\ ~r.dictated THEN Errs(k) ELSE f)
  BY <1>1
<1> HIDE DEF k
<1>10. Sound(k) /\ Sound(f) /\ f.pc \notin {"policy", "call"} /\ f.gone = Forgotten /\ f.hits = {}
  BY <1>2, <1>6, <1>7, BegunSound
<1>11. CASE HouseholdRaises(deployment) /\ ~r.dictated
  <2>1. Sound(Errs(k)) /\ Keeps(Errs(k), deployment) /\ Forgets(Errs(k), items)
    BY <1>7, <1>10, ErrsSound, GoneKeeps DEF Fresh
  <2> QED BY <1>8, <1>9, <1>11, <2>1, Moves
<1>12. CASE ~(HouseholdRaises(deployment) /\ ~r.dictated)
  <2>1. Keeps(f, deployment) /\ Forgets(f, items)
    BY <1>10 DEF Keeps, Forgets, Forgotten
  <2> QED BY <1>8, <1>9, <1>10, <1>12, <2>1, Moves
<1> QED BY <1>11, <1>12

LEMMA BeginFailsStep ==
  ASSUME Inv, NEW t \in Turns, BeginFails(t)
  PROVE  Inv'
<1>1. PICK r \in Requests[t] : Becomes(t, Errs([Idle EXCEPT !.request = r]))
  BY DEF BeginFails
<1> DEFINE i == [Idle EXCEPT !.request = r]
<1>2. r \in Request /\ (r.forced # NoTool => r.source = "telegram_command")
  BY TurnAssumption
<1>3. Sound(i) /\ i.done = 0
  BY <1>2, IdleSound DEF Idle
<1> HIDE DEF i
<1>4. Sound(Errs(i)) /\ Keeps(Errs(i), deployment) /\ Forgets(Errs(i), items)
  BY <1>3, ErrsSound, GoneKeeps
<1>5. State'
  BY StateStays DEF BeginFails, Inv
<1> QED BY <1>1, <1>4, <1>5, Moves DEF BeginFails, At, i

LEMMA FailsStep ==
  ASSUME Inv, State', NEW t \in Turns, ~Over(turn[t]), Becomes(t, Fails(turn[t])),
         UNCHANGED <<deployment, items>>
  PROVE  Inv'
<1> DEFINE k == turn[t]
           f == Fails(k)
<1>1. Sound(k) /\ k \in Thread
  BY DEF Inv, Sound
<1>2. f.pc = "persist" /\ f.gone = k.gone /\ f.hits = k.hits
  BY <1>1 DEF Fails, Thread
<1>3. Sound(f)
  BY <1>1, FailsSound
<1>4. k.pc # "ok"
  BY DEF Over
<1> HIDE DEF f
<1>5. Becomes(t, f)
  BY DEF f
<1> QED BY <1>2, <1>3, <1>4, <1>5, Onward

LEMMA VanishesStep ==
  ASSUME Inv, State', NEW t \in Turns, ~Over(turn[t]), Becomes(t, Vanishes(turn[t])),
         UNCHANGED <<deployment, items>>
  PROVE  Inv'
<1>1. Sound(turn[t])
  BY DEF Inv
<1>2. Sound(Vanishes(turn[t])) /\ Keeps(Vanishes(turn[t]), deployment)
        /\ Forgets(Vanishes(turn[t]), items)
  BY <1>1, VanishesSound, GoneKeeps
<1> QED BY <1>2, Moves DEF Over

LEMMA CommandStep ==
  ASSUME Inv, NEW t \in Turns, Command(t)
  PROVE  Inv'
<1> DEFINE j == turn[t]
           k == [j EXCEPT !.tool = j.request.forced]
           send == k.tool = "telegram-send"
<1>1. /\ j \in Thread /\ Sound(j) /\ Forgets(j, items) /\ j.pc = "command" /\ Fresh(j)
      /\ j.request.forced \in HouseholdTools
      /\ j.request \in Request
      /\ j.request.forced # NoTool => j.request.source = "telegram_command"
  BY DEF Inv, Command, At, Sound, Early, Thread, Request
<1>2. k \in Thread
  BY <1>1 DEF Thread, Tool
<1>3. /\ k.pc = "command" /\ k.request = j.request /\ k.tool = j.request.forced
      /\ k.hits = j.hits /\ k.gone = j.gone /\ k.done = 0 /\ k.record = "none"
      /\ k.audit = "none" /\ k.reply = "none" /\ k.failing = FALSE /\ k.caught = j.caught
      /\ k.edited = j.edited
  BY <1>1 DEF Thread, Fresh
<1>4. State' /\ j.pc # "ok" /\ UNCHANGED <<deployment, items>> /\ deployment \in Deployment
  BY <1>1, StateStays DEF Command, Inv, State
<1>5. Becomes(t,
        CASE send /\ HouseholdRaises(deployment) -> Errs(k)
          [] send /\ ~HouseholdRaises(deployment)
                  /\ (deployment.household = "none" \/ ~k.request.known) ->
               [k EXCEPT !.pc = "persist", !.record = "failed",
                         !.reply = "unknown_alias"]
          [] OTHER -> [k EXCEPT !.pc = "policy",
                         !.promised = IF send THEN deployment.household ELSE @])
  BY DEF Command
<1> HIDE DEF k
<1>6. CASE send /\ HouseholdRaises(deployment)
  <2>1. Becomes(t, Errs(k))
    BY <1>5, <1>6
  <2>2. Sound(k)
    BY <1>1, <1>2, <1>3 DEF Sound, Early, Fresh, Over, Meant, Consents
  <2>3. Sound(Errs(k)) /\ Keeps(Errs(k), deployment) /\ Forgets(Errs(k), items)
    BY <1>3, <2>2, ErrsSound, GoneKeeps
  <2> QED BY <1>4, <2>1, <2>3, Moves
<1>7. CASE send /\ ~HouseholdRaises(deployment)
             /\ (deployment.household = "none" \/ ~k.request.known)
  <2> DEFINE f == [k EXCEPT !.pc = "persist", !.record = "failed", !.reply = "unknown_alias"]
  <2>1. Becomes(t, f)
    BY <1>5, <1>7
  <2>2. f \in Thread
    BY <1>2, Names DEF Thread
  <2>3. /\ f.pc = "persist" /\ f.record = "failed" /\ f.reply = "unknown_alias"
        /\ f.request = k.request /\ f.tool = k.tool /\ f.hits = k.hits /\ f.gone = k.gone
        /\ f.done = k.done /\ f.audit = k.audit /\ f.failing = k.failing /\ f.caught = k.caught
    BY <1>2 DEF Thread
  <2> HIDE DEF f
  <2>4. Sound(f)
    BY <1>1, <1>3, <2>2, <2>3 DEF Sound, Early, Over, Meant, Consents
  <2> QED BY <1>3, <1>4, <2>1, <2>3, <2>4, Onward
<1>8. CASE ~(send /\ HouseholdRaises(deployment))
             /\ ~(send /\ ~HouseholdRaises(deployment)
                       /\ (deployment.household = "none" \/ ~k.request.known))
  <2> DEFINE f == [k EXCEPT !.pc = "policy",
                            !.promised = IF send THEN deployment.household ELSE @]
  <2>1. Becomes(t, f)
    BY <1>5, <1>8
  <2>2. f \in Thread
    BY <1>2, <1>4 DEF Thread, Threads, Deployment
  <2>3. /\ f.pc = "policy" /\ f.promised = (IF send THEN deployment.household ELSE k.promised)
        /\ f.request = k.request /\ f.tool = k.tool /\ f.hits = k.hits /\ f.gone = k.gone
        /\ f.done = k.done /\ f.audit = k.audit /\ f.failing = k.failing /\ f.caught = k.caught
        /\ f.record = k.record /\ f.reply = k.reply
    BY <1>2 DEF Thread
  <2> HIDE DEF f
  <2>4. Sound(f)
    <3>1. Choice(f)
      BY <1>1, <1>3, <2>3 DEF Choice, Tool, HouseholdTools, NoTool
    <3> QED BY <1>1, <1>3, <2>2, <2>3, <3>1
        DEF Sound, Early, Fresh, Over, Meant, Consents, HouseholdTools, NoTool
  <2>5. Keeps(f, deployment) /\ Forgets(f, items)
    BY <1>1, <1>3, <2>3 DEF Keeps, Forgets
  <2> QED BY <1>4, <2>1, <2>4, <2>5, Moves
<1> QED BY <1>6, <1>7, <1>8

LEMMA RecallStep ==
  ASSUME Inv, NEW t \in Turns, Recall(t)
  PROVE  Inv'
<1> DEFINE k == turn[t]
           Recalls(f) ==
             /\ f \in Thread /\ Fresh(f) /\ f.pc = "plan" /\ f.request = k.request
             /\ f.gone = k.gone
             /\ f.hits \subseteq k.hits \/ f.hits \subseteq Retrievable(items)
<1>1. /\ k \in Thread /\ Sound(k) /\ Forgets(k, items) /\ k.pc = "recall" /\ Fresh(k)
      /\ items \in [Items -> Status \union {"none"}]
  BY DEF Inv, State, Recall, At, Sound, Early
<1>2. State' /\ k.pc # "ok" /\ UNCHANGED <<deployment, items>>
  BY <1>1, StateStays DEF Recall, Inv
<1>3. Recalls(Goes(k, "plan"))
  BY <1>1, Names DEF Goes, Thread, Fresh
<1>4. ASSUME NEW hits \in Retrievals(items)
      PROVE  Recalls([k EXCEPT !.pc = "plan", !.recall = "completed", !.hits = hits])
  <2>1. hits \subseteq Items /\ hits \subseteq Retrievable(items)
    BY <1>1 DEF Retrievals, Retrievable
  <2> QED BY <1>1, <2>1, Names DEF Thread, Fresh
<1>5. Recalls([k EXCEPT !.pc = "plan", !.recall = "error"])
  BY <1>1, Names DEF Thread, Fresh
<1>6. \E f : Becomes(t, f) /\ Recalls(f)
  BY <1>3, <1>4, <1>5 DEF Recall
<1>7. PICK f : Becomes(t, f) /\ Recalls(f)
  BY <1>6
<1>8. Sound(f)
  BY <1>1, <1>7, FreshSound DEF Sound, Early
<1>9. Keeps(f, deployment) /\ Forgets(f, items)
  BY <1>1, <1>7 DEF Keeps, Forgets, Retrievable
<1> QED BY <1>2, <1>7, <1>8, <1>9, Moves

LEMMA SkipPlanStep ==
  ASSUME Inv, NEW t \in Turns, SkipPlan(t)
  PROVE  Inv'
<1> DEFINE k == turn[t]
           f == [k EXCEPT !.pc = "policy", !.tool = "web-search"]
           g == Goes(k, "answer")
<1>1. k \in Thread /\ Sound(k) /\ Forgets(k, items) /\ k.pc = "plan" /\ Fresh(k)
  BY DEF Inv, SkipPlan, At, Sound, Early
<1>2. State' /\ k.pc # "ok" /\ UNCHANGED <<deployment, items>>
  BY <1>1, StateStays DEF SkipPlan, Inv
<1>3. Becomes(t, IF k.request.search = "yes" THEN f ELSE g)
  BY DEF SkipPlan
<1>4. /\ f \in Thread /\ Fresh(f) /\ f.pc = "policy" /\ f.request = k.request
      /\ f.tool = "web-search" /\ f.gone = k.gone /\ f.hits = k.hits
  BY <1>1, Names DEF Thread, Fresh, Tool
<1>5. /\ g \in Thread /\ Fresh(g) /\ g.pc = "answer" /\ g.request = k.request
      /\ g.gone = k.gone /\ g.hits = k.hits
  BY <1>1, Names DEF Thread, Fresh, Goes
<1> HIDE DEF f, g
<1>6. k.request.forced = NoTool
  BY <1>1 DEF Sound
<1>7. CASE k.request.search = "yes"
  <2>1. Choice(f)
    BY <1>4, <1>6 DEF Choice, Tool
  <2>2. Sound(f)
    BY <1>1, <1>4, <2>1, FreshSound DEF Sound, Early
  <2>3. Keeps(f, deployment) /\ Forgets(f, items)
    BY <1>1, <1>4, <1>6 DEF Keeps, Forgets, NoTool
  <2> QED BY <1>2, <1>3, <1>7, <2>2, <2>3, Moves
<1>8. CASE k.request.search # "yes"
  <2>1. Sound(g)
    BY <1>1, <1>5, FreshSound DEF Sound, Early
  <2> QED BY <1>2, <1>3, <1>5, <1>8, <2>1, Onward
<1> QED BY <1>7, <1>8

(* A reply without a tool: the answer of the planning pass, or what the    *)
(* turn says of a send that it does not make.                              *)
LEMMA AnsweredStep ==
  ASSUME Inv, State', NEW t \in Turns, turn[t].pc = "plan",
         NEW k \in Thread, Fresh([k EXCEPT !.record = "none"]),
         k.pc = "plan", k.request = turn[t].request,
         k.gone = turn[t].gone, k.hits = turn[t].hits, k.record # "completed",
         NEW reply \in {"text", "cannot_send", "shall_i"},
         Becomes(t, Answered(k, reply)), UNCHANGED <<deployment, items>>
  PROVE  Inv'
<1> DEFINE f == Answered(k, reply)
<1>1. Sound(turn[t])
  BY DEF Inv
<1>2. reply \in Replies /\ (~k.request.streamed) \in BOOLEAN
  BY Names
<1>3. f \in Thread
  BY <1>2, Names DEF Thread, Answered
<1>4. /\ f.pc = "persist" /\ f.reply = reply /\ f.record = k.record
      /\ f.request = turn[t].request /\ f.gone = turn[t].gone /\ f.hits = turn[t].hits
      /\ f.done = 0 /\ ~f.failing /\ f.audit = "none"
  BY DEF Thread, Answered, Fresh
<1>5. Becomes(t, f)
  OBVIOUS
<1> HIDE DEF f
<1>6. Sound(f)
  BY <1>1, <1>3, <1>4, UndoneSound DEF Sound, Early
<1> QED BY <1>4, <1>5, <1>6, Onward

LEMMA PlanAnswersStep ==
  ASSUME Inv, NEW t \in Turns, PlanAnswers(t)
  PROVE  Inv'
<1>1. turn[t] \in Thread /\ turn[t].pc = "plan" /\ Fresh(turn[t])
  BY DEF Inv, PlanAnswers, At, Sound, Early
<1>2. State' /\ UNCHANGED <<deployment, items>>
  BY StateStays DEF PlanAnswers, Inv
<1>3. Fresh([turn[t] EXCEPT !.record = "none"])
  BY <1>1 DEF Fresh, Thread
<1> QED BY <1>1, <1>2, <1>3, AnsweredStep DEF PlanAnswers, Fresh

LEMMA PlanToolStep ==
  ASSUME Inv, NEW t \in Turns, PlanTool(t)
  PROVE  Inv'
<1> DEFINE k == turn[t]
<1>1. /\ k \in Thread /\ Sound(k) /\ Forgets(k, items) /\ k.pc = "plan" /\ Fresh(k)
      /\ k.request.forced = NoTool
  BY DEF Inv, PlanTool, At, Sound, Early
<1>2. State' /\ k.pc # "ok" /\ UNCHANGED <<deployment, items>>
  BY <1>1, StateStays DEF PlanTool, Inv
<1>3. PICK tool \in Planned :
        /\ tool = "telegram-send" => k.request.source # "agent_api"
        /\ Becomes(t, [k EXCEPT !.pc = "policy", !.tool = tool])
  BY DEF PlanTool
<1> DEFINE f == [k EXCEPT !.pc = "policy", !.tool = tool]
<1>4. /\ f \in Thread /\ Fresh(f) /\ f.pc = "policy" /\ f.request = k.request
      /\ f.tool = tool /\ f.gone = k.gone /\ f.hits = k.hits
  BY <1>1, Names, TurnAssumption DEF Thread, Fresh
<1>5. Becomes(t, f)
  BY <1>3
<1> HIDE DEF f
<1>6. Choice(f)
  BY <1>1, <1>3, <1>4, TurnAssumption DEF Choice
<1>7. Sound(f)
  BY <1>1, <1>4, <1>6, FreshSound DEF Sound, Early
<1>8. Keeps(f, deployment) /\ Forgets(f, items)
  BY <1>1, <1>4 DEF Keeps, Forgets, NoTool
<1> QED BY <1>2, <1>5, <1>7, <1>8, Moves

LEMMA PlanFailsStep ==
  ASSUME Inv, NEW t \in Turns, PlanFails(t)
  PROVE  Inv'
<1>1. State' /\ ~Over(turn[t]) /\ UNCHANGED <<deployment, items>>
  BY StateStays DEF PlanFails, Inv, At, Over
<1> QED BY <1>1, FailsStep DEF PlanFails

LEMMA AskFirstStep ==
  ASSUME Inv, NEW t \in Turns, AskFirst(t)
  PROVE  Inv'
<1> DEFINE j == turn[t]
           k == [j EXCEPT !.tool = "telegram-send"]
           c == [k EXCEPT !.record = "failed"]
           p == [k EXCEPT !.record = "pending_confirmation"]
<1>1. /\ j \in Thread /\ Sound(j) /\ j.pc = "plan" /\ Fresh(j)
      /\ j.request.forced = NoTool
  BY DEF Inv, AskFirst, At, Sound, Early
<1>2. k \in Thread
  BY <1>1 DEF Thread, Tool, HouseholdTools
<1>3. /\ k.pc = "plan" /\ k.request = j.request /\ k.gone = j.gone /\ k.hits = j.hits
      /\ Fresh(k)
  BY <1>1 DEF Thread, Fresh
<1>4. Sound(k)
  BY <1>1, <1>2, <1>3, FreshSound DEF Sound, Early
<1>5. State' /\ j.pc # "ok" /\ UNCHANGED <<deployment, items>>
  BY <1>1, StateStays DEF AskFirst, Inv
<1>6. \/ Becomes(t, Errs(k))
      \/ Becomes(t, Answered(c, "cannot_send"))
      \/ Becomes(t, Answered(p, "shall_i"))
      \/ Becomes(t, Fails(k))
  BY DEF AskFirst
<1> HIDE DEF k
<1>7. CASE Becomes(t, Errs(k))
  <2>1. Sound(Errs(k)) /\ Keeps(Errs(k), deployment) /\ Forgets(Errs(k), items)
    BY <1>3, <1>4, ErrsSound, GoneKeeps DEF Fresh
  <2> QED BY <1>5, <1>7, <2>1, Moves
<1>8. CASE Becomes(t, Answered(c, "cannot_send"))
  <2>1. /\ c \in Thread /\ c.pc = "plan" /\ c.request = j.request /\ c.gone = j.gone
        /\ c.hits = j.hits /\ c.record = "failed" /\ Fresh([c EXCEPT !.record = "none"])
    BY <1>2, <1>3, Names DEF Thread, Fresh
  <2> HIDE DEF c
  <2> QED BY <1>1, <1>5, <1>8, <2>1, AnsweredStep
<1>9. CASE Becomes(t, Answered(p, "shall_i"))
  <2>1. /\ p \in Thread /\ p.pc = "plan" /\ p.request = j.request /\ p.gone = j.gone
        /\ p.hits = j.hits /\ p.record = "pending_confirmation"
        /\ Fresh([p EXCEPT !.record = "none"])
    BY <1>2, <1>3, Names DEF Thread, Fresh
  <2> HIDE DEF p
  <2> QED BY <1>1, <1>5, <1>9, <2>1, AnsweredStep
<1>10. CASE Becomes(t, Fails(k))
  <2>1. Sound(Fails(k))
    BY <1>3, <1>4, FailsSound DEF Over
  <2>2. /\ Fails(k).pc = "persist" /\ Fails(k).gone = j.gone /\ Fails(k).hits = j.hits
    BY <1>2, <1>3 DEF Fails, Thread
  <2> QED BY <1>5, <1>10, <2>1, <2>2, Onward
<1> QED BY <1>6, <1>7, <1>8, <1>9, <1>10

(* The executor is done with a call: whatever came of it, the record says  *)
(* so, and a command's answer as well.                                     *)
LEMMA ExecutedSound ==
  ASSUME NEW k, Sound(k), k.pc \in {"policy", "call"},
         NEW outcome \in Outcome, outcome.done \in 0..MaxRetries + 1,
         outcome.done > 0 => Consents(k),
         outcome.status \notin {"completed", "failed"} => outcome.done = 0,
         Meant([k EXCEPT !.demo = outcome.demo, !.done = outcome.done], outcome.status),
         ReplyFor(k, outcome.status) = "sent" /\ k.request.forced # NoTool
           => outcome.done = 1 \/ (k.edited /\ outcome.demo),
         ReplyFor(k, outcome.status) = "demo" /\ k.request.forced # NoTool
           => outcome.done = 0 \/ k.edited
  PROVE  LET f == Executed(k, outcome)
         IN  /\ Sound(f) /\ f.pc \notin {"policy", "call"}
             /\ f.gone \subseteq k.gone /\ f.hits \subseteq k.hits
<1> DEFINE told == [k EXCEPT !.record = outcome.status, !.demo = outcome.demo,
                             !.done = outcome.done]
<1>1. k \in Thread /\ Fresh(k) /\ ~Over(k)
  BY DEF Sound, Early, Over
<1>2. CASE outcome.status = "RuntimeError"
  <2>1. Executed(k, outcome) = Errs(k)
    BY <1>2 DEF Executed
  <2>2. Sound(Errs(k)) /\ Errs(k).pc = "error" /\ Errs(k).gone = {} /\ Errs(k).hits = {}
    BY <1>1, ErrsSound DEF Fresh
  <2> QED BY <2>1, <2>2
<1>3. CASE outcome.status = "APIError"
  <2>1. Executed(k, outcome) = Fails(k)
    BY <1>3 DEF Executed
  <2>2. Sound(Fails(k))
    BY <1>1, FailsSound
  <2>3. Fails(k).pc = "persist" /\ Fails(k).gone = k.gone /\ Fails(k).hits = k.hits
    BY <1>1 DEF Fails, Thread
  <2> QED BY <2>1, <2>2, <2>3
<1>4. CASE outcome.status \in {"completed", "failed"}
  <2>1. /\ told \in Thread
        /\ told.request = k.request /\ told.tool = k.tool /\ told.gone = k.gone
        /\ told.hits = k.hits /\ told.record = outcome.status /\ told.demo = outcome.demo
        /\ told.done = outcome.done /\ told.caught = k.caught /\ told.failing = k.failing
        /\ told.edited = k.edited /\ told.audit = "none" /\ told.reply = "none"
    BY <1>1, <1>4, Names DEF Thread, Outcome, Fresh
  <2>2. Meant(told, outcome.status)
    BY <1>1, <2>1 DEF Meant, Thread
  <2>3. ASSUME NEW f \in Thread, ~Early(f), ~Over(f), f.pc # "store",
               f.request = k.request, f.tool = k.tool, f.record = outcome.status,
               f.demo = outcome.demo, f.done = outcome.done, f.caught = k.caught,
               f.failing = k.failing, f.audit = "none",
               f.reply = "sent" => f.done = 1 \/ (f.edited /\ f.demo),
               f.reply = "demo" => f.done = 0 \/ f.edited,
               f.reply = "unknown_alias" => f.done = 0
        PROVE  Sound(f)
    <3>1. Meant(f, f.record) /\ Meant(f, f.audit)
      BY <2>3 DEF Meant
    <3>2. f.done > 0 => Consents(f) /\ f.request.source # "telegram"
      BY <2>3 DEF Consents
    <3>3. f.request.dictated => f.done = 0
      BY <2>3 DEF Sound, Early
    <3> QED BY <1>1, <1>4, <2>3, <3>1, <3>2, <3>3 DEF Sound, Fresh, Early
  <2>4. CASE k.request.forced # NoTool
    <3> DEFINE f == [told EXCEPT !.pc = "persist", !.reply = ReplyFor(k, outcome.status)]
    <3>1. Executed(k, outcome) = f
      BY <1>4, <2>4 DEF Executed
    <3>2. ReplyFor(k, outcome.status) \in {"unavailable", "aliases", "demo", "sent"}
      BY <1>4 DEF ReplyFor
    <3>3. ReplyFor(k, outcome.status) \in Replies /\ ReplyFor(k, outcome.status) # "unknown_alias"
      BY <3>2, Names
    <3>4. f \in Thread
      BY <2>1, <3>3, Names DEF Thread
    <3>5. /\ f.pc = "persist" /\ f.reply = ReplyFor(k, outcome.status)
          /\ f.request = k.request /\ f.tool = k.tool /\ f.gone = k.gone
          /\ f.hits = k.hits /\ f.record = outcome.status /\ f.demo = outcome.demo
          /\ f.done = outcome.done /\ f.caught = k.caught /\ f.failing = k.failing
          /\ f.edited = k.edited /\ f.audit = "none"
      BY <2>1 DEF Thread
    <3> HIDE DEF f, told
    <3>6. ~Early(f) /\ ~Over(f)
      BY <3>5 DEF Early, Over
    <3>7. Sound(f)
      BY <2>3, <2>4, <3>3, <3>4, <3>5, <3>6
    <3> QED BY <3>1, <3>5, <3>7
  <2>5. CASE k.request.forced = NoTool
    <3> DEFINE f == Goes(told, "answer")
    <3>1. Executed(k, outcome) = f
      BY <1>4, <2>5 DEF Executed
    <3>2. f \in Thread
      BY <2>1, Names DEF Thread, Goes
    <3>3. /\ f.pc = "answer" /\ f.reply = "none"
          /\ f.request = k.request /\ f.tool = k.tool /\ f.gone = k.gone
          /\ f.hits = k.hits /\ f.record = outcome.status /\ f.demo = outcome.demo
          /\ f.done = outcome.done /\ f.caught = k.caught /\ f.failing = k.failing
          /\ f.edited = k.edited /\ f.audit = "none"
      BY <2>1 DEF Thread, Goes
    <3> HIDE DEF f, told
    <3>4. ~Early(f) /\ ~Over(f)
      BY <3>3 DEF Early, Over
    <3>5. Sound(f)
      BY <2>3, <3>2, <3>3, <3>4
    <3> QED BY <3>1, <3>3, <3>5
  <2> QED BY <2>4, <2>5
<1> QED BY <1>2, <1>3, <1>4 DEF Outcome

LEMMA PolicyStep ==
  ASSUME Inv, NEW t \in Turns, Policy(t)
  PROVE  Inv'
<1> DEFINE k == turn[t]
           source == k.request.source
           raises == k.tool \in HouseholdTools /\ HouseholdRaises(deployment)
           allowed == Allowed(deployment, source, k.tool)
<1>1. /\ k \in Thread /\ Sound(k) /\ Keeps(k, deployment) /\ Forgets(k, items)
      /\ k.pc = "policy" /\ Fresh(k) /\ Choice(k)
  BY DEF Inv, Policy, At, Sound, Early
<1>2. State' /\ k.pc # "ok" /\ UNCHANGED <<deployment, items>>
  BY <1>1, StateStays DEF Policy, Inv
<1>3. \/ Becomes(t, Errs(k))
      \/ allowed /\ Becomes(t, Goes(k, "call"))
      \/ Becomes(t, Executed(k, Failed))
  BY DEF Policy
<1>4. CASE Becomes(t, Errs(k))
  <2>1. Sound(Errs(k)) /\ Keeps(Errs(k), deployment) /\ Forgets(Errs(k), items)
    BY <1>1, ErrsSound, GoneKeeps DEF Fresh
  <2> QED BY <1>2, <1>4, <2>1, Moves
<1>5. CASE allowed /\ Becomes(t, Goes(k, "call"))
  <2> DEFINE f == Goes(k, "call")
  <2>1. /\ f \in Thread /\ Fresh(f) /\ f.pc = "call" /\ f.request = k.request
        /\ f.tool = k.tool /\ f.gone = k.gone /\ f.hits = k.hits
        /\ f.edited = k.edited /\ f.promised = k.promised
    BY <1>1, Names DEF Thread, Fresh, Goes
  <2> HIDE DEF f
  <2>2. Choice(f) /\ AllowedFrom(f.request.source, f.tool)
    BY <1>1, <1>5, <2>1 DEF Choice, Allowed
  <2>3. Sound(f)
    BY <1>1, <2>1, <2>2, FreshSound DEF Sound, Early
  <2>4. Keeps(f, deployment) /\ Forgets(f, items)
    BY <1>1, <2>1 DEF Keeps, Forgets
  <2> QED BY <1>2, <1>5, <2>3, <2>4, Moves DEF f
<1>6. CASE Becomes(t, Executed(k, Failed))
  <2>1. /\ Failed \in Outcome /\ Failed.done = 0 /\ Failed.status = "failed"
        /\ Failed.done \in 0..MaxRetries + 1 /\ ~(Failed.done > 0)
    BY CatalogAssumption DEF Failed, Outcome
  <2>2. ReplyFor(k, Failed.status) = "unavailable"
    BY <2>1 DEF ReplyFor
  <2>3. Meant([k EXCEPT !.demo = Failed.demo, !.done = Failed.done], Failed.status)
    BY <2>1 DEF Meant
  <2> DEFINE f == Executed(k, Failed)
  <2>4. /\ Sound(f) /\ f.pc \notin {"policy", "call"}
        /\ f.gone \subseteq k.gone /\ f.hits \subseteq k.hits
    BY <1>1, <2>1, <2>2, <2>3, ExecutedSound
  <2> HIDE DEF f
  <2>5. Becomes(t, f)
    BY <1>6 DEF f
  <2> QED BY <1>2, <2>4, <2>5, Onward
<1> QED BY <1>3, <1>4, <1>5, <1>6

(* What a completed send has done, by the household that it was sent in.   *)
LEMMA SendCompleted ==
  ASSUME NEW d \in Deployment, NEW known \in BOOLEAN,
         NEW outcome \in TelegramSend(d, known), outcome.status = "completed"
  PROVE  /\ outcome.done = IF d.household = "demo" THEN 0 ELSE 1
         /\ outcome.demo <=> d.household = "demo"
<1>1. d.household \in {"none", "demo", "real", "invalid"}
  BY DEF Deployment
<1>2. outcome \notin {Raises("RuntimeError"), Failed}
  BY DEF Raises, Failed
<1>3. CASE d.household = "demo"
  <2>1. outcome = InDemo
    BY <1>2, <1>3 DEF TelegramSend, HouseholdRaises
  <2>2. outcome.done = 0 /\ outcome.demo = TRUE
    BY <2>1 DEF InDemo
  <2> QED BY <1>3, <2>2
<1>4. CASE d.household # "demo"
  <2>1. outcome \in Commanded(1)
    BY <1>1, <1>2, <1>4 DEF TelegramSend, HouseholdRaises
  <2>2. outcome.done = 1 /\ ~outcome.demo
    BY <2>1, CommandedFacts
  <2> QED BY <1>4, <2>2
<1> QED BY <1>3, <1>4

LEMMA CallStep ==
  ASSUME Inv, NEW t \in Turns, Call(t)
  PROVE  Inv'
<1> DEFINE k == turn[t]
<1>1. /\ k \in Thread /\ Sound(k) /\ Keeps(k, deployment) /\ k.pc = "call"
      /\ Choice(k) /\ AllowedFrom(k.request.source, k.tool)
      /\ k.request.forced # NoTool => k.request.source = "telegram_command"
      /\ deployment \in Deployment
  BY DEF Inv, State, Call, At, Sound
<1>2. State' /\ k.pc # "ok" /\ UNCHANGED <<deployment, items>>
  BY <1>1, StateStays DEF Call, Inv
<1>3. /\ k.request.known \in BOOLEAN /\ k.request.source \in Source /\ k.tool \in Tool
      /\ k.request.forced \in HouseholdTools \union {NoTool}
  BY <1>1 DEF Thread, Request, Choice
<1>4. PICK outcome \in Outcomes(deployment, k.tool, k.request.known) :
        Becomes(t, Executed(k, outcome))
  BY DEF Call
<1>5. /\ outcome \in Outcome /\ outcome.done \in 0..MaxRetries + 1
      /\ k.tool \in ReadOnly => outcome.done = 0
      /\ outcome.demo \/ outcome.status \notin {"completed", "failed"} => outcome.done = 0
      /\ outcome.status = "completed" /\ k.tool \notin ReadOnly =>
           outcome.demo \/ outcome.done > 0
  BY <1>1, <1>3, <1>4, OutcomesAreHonest
<1>6. Consents(k)
  BY <1>1, <1>3 DEF Consents, AllowedFrom, Choice, Source
<1>7. Meant([k EXCEPT !.demo = outcome.demo, !.done = outcome.done], outcome.status)
  <2>1. outcome.demo \in BOOLEAN /\ outcome.done \in Nat
    BY <1>5 DEF Outcome
  <2>2. outcome.status = "completed" /\ k.tool \notin ReadOnly =>
          outcome.demo = (outcome.done = 0)
    BY <1>5, <2>1
  <2> QED BY <1>1, <2>2 DEF Meant, Thread
<1>8. ASSUME ReplyFor(k, outcome.status) \in {"sent", "demo"},
             k.request.forced # NoTool
      PROVE  /\ ReplyFor(k, outcome.status) = "sent" =>
                  outcome.done = 1 \/ (k.edited /\ outcome.demo)
             /\ ReplyFor(k, outcome.status) = "demo" => outcome.done = 0 \/ k.edited
  <2>1. /\ outcome.status = "completed" /\ k.tool # "telegram-list-aliases"
        /\ ReplyFor(k, outcome.status) = IF k.promised = "demo" THEN "demo" ELSE "sent"
    BY <1>8 DEF ReplyFor
  <2>2. k.tool = "telegram-send" /\ k.request.forced = "telegram-send"
    BY <1>1, <1>3, <1>8, <2>1 DEF Choice, HouseholdTools
  <2>3. k.edited \/ k.promised = deployment.household
    BY <1>1, <1>8, <2>2 DEF Keeps
  <2>4. outcome \in TelegramSend(deployment, k.request.known)
    BY <1>4, <2>2 DEF Outcomes, BaselineTools
  <2>5. /\ outcome.done = IF deployment.household = "demo" THEN 0 ELSE 1
        /\ outcome.demo <=> deployment.household = "demo"
    BY <1>1, <1>3, <2>1, <2>4, SendCompleted
  <2> QED BY <2>1, <2>3, <2>5
<1> DEFINE f == Executed(k, outcome)
<1>9. /\ Sound(f) /\ f.pc \notin {"policy", "call"}
      /\ f.gone \subseteq k.gone /\ f.hits \subseteq k.hits
  BY <1>1, <1>5, <1>6, <1>7, <1>8, ExecutedSound
<1> HIDE DEF f
<1>10. Becomes(t, f)
  BY <1>4 DEF f
<1> QED BY <1>2, <1>9, <1>10, Onward

LEMMA AnswerStep ==
  ASSUME Inv, NEW t \in Turns, Answer(t)
  PROVE  Inv'
<1> DEFINE k == turn[t]
           f == [k EXCEPT !.pc = "persist", !.reply = "text", !.caught = Streamed(t)]
<1>1. k \in Thread /\ Sound(k) /\ k.pc = "answer" /\ ~k.failing /\ ~Over(k)
  BY DEF Inv, Answer, At, Sound, Over
<1>2. State' /\ k.pc # "ok" /\ UNCHANGED <<deployment, items>>
  BY <1>1, StateStays DEF Answer, Inv
<1>3. Becomes(t, f)
  BY DEF Answer
<1>4. Streamed(t) \in BOOLEAN /\ Streamed(t) = k.request.streamed
  BY <1>1 DEF Streamed, Thread, Request
<1>5. f \in Thread
  BY <1>1, <1>4, Names DEF Thread
<1>6. /\ f.pc = "persist" /\ f.reply = "text" /\ f.caught = k.request.streamed
      /\ f.failing = k.failing /\ f.request = k.request /\ f.tool = k.tool
      /\ f.record = k.record /\ f.demo = k.demo /\ f.done = k.done /\ f.audit = k.audit
      /\ f.hits = k.hits /\ f.gone = k.gone
  BY <1>1, <1>4 DEF Thread
<1> HIDE DEF f
<1>7. Sound(f)
  BY <1>1, <1>5, <1>6 DEF Sound, Early, Over, Meant, Consents
<1> QED BY <1>2, <1>3, <1>6, <1>7, Onward

LEMMA AnswerFailsStep ==
  ASSUME Inv, NEW t \in Turns, AnswerFails(t) \/ StreamBreaks(t)
  PROVE  Inv'
<1>1. State' /\ ~Over(turn[t]) /\ UNCHANGED <<deployment, items>>
  BY StateStays DEF AnswerFails, StreamBreaks, Inv, At, Over
<1> QED BY <1>1, FailsStep DEF AnswerFails, StreamBreaks

LEMMA StreamIsLeftStep ==
  ASSUME Inv, NEW t \in Turns, EmptyStream(t) \/ Disconnect(t)
  PROVE  Inv'
<1>1. State' /\ ~Over(turn[t]) /\ UNCHANGED <<deployment, items>>
  BY StateStays DEF EmptyStream, Disconnect, Inv, At, Over
<1> QED BY <1>1, VanishesStep DEF EmptyStream, Disconnect

LEMMA PersistStep ==
  ASSUME Inv, NEW t \in Turns, Persist(t)
  PROVE  Inv'
<1> DEFINE k == turn[t]
           next == IF k.request.dictated THEN "store" ELSE "audit_recall"
           f == [k EXCEPT !.caught = FALSE, !.pc = next]
<1>1. k \in Thread /\ Sound(k) /\ k.pc = "persist" /\ ~Over(k)
  BY DEF Inv, Persist, At, Sound, Over
<1>2. RowsOf(t) \subseteq {"unanswered", "matched", "answered"}
  BY DEF RowsOf
<1>3. State'
  <2>1. rows' \in [Turns -> {"none", "unanswered", "matched", "answered"}]
    BY <1>2 DEF Persist, Inv, State
  <2> QED BY <2>1 DEF Persist, Inv, State
<1>4. Becomes(t, f) /\ UNCHANGED <<deployment, items>>
  BY DEF Persist
<1>5. f \in Thread
  BY <1>1, Names DEF Thread
<1>6. /\ f.pc = next /\ f.caught = FALSE /\ f.reply = k.reply
      /\ f.failing = k.failing /\ f.request = k.request /\ f.tool = k.tool
      /\ f.record = k.record /\ f.demo = k.demo /\ f.done = k.done /\ f.audit = k.audit
      /\ f.edited = k.edited /\ f.lost = k.lost /\ f.hits = k.hits /\ f.gone = k.gone
  BY <1>1 DEF Thread
<1> HIDE DEF f
<1>7. Sound(f)
  BY <1>1, <1>5, <1>6 DEF Sound, Early, Over, Meant, Consents
<1> QED BY <1>1, <1>3, <1>4, <1>6, <1>7, Onward

(* What was stored inside the try did nothing, or keeps its record.        *)
LEMMA PersistFailsStep ==
  ASSUME Inv, NEW t \in Turns, PersistFails(t)
  PROVE  Inv'
<1> DEFINE k == turn[t]
           f == [Fails(k) EXCEPT !.record = IF k.request.streamed THEN @ ELSE "none"]
<1>1. k \in Thread /\ Sound(k) /\ k.pc = "persist" /\ ~Over(k)
  BY DEF Inv, PersistFails, At, Sound, Over
<1>2. State' /\ k.pc # "ok" /\ UNCHANGED <<deployment, items>>
  BY <1>1, StateStays DEF PersistFails, Inv
<1>3. CASE k.caught
  <2>1. Becomes(t, f)
    BY <1>3 DEF PersistFails, Unstored
  <2>2. Fails(k) \in Thread
    BY <1>1, FailsSound DEF Sound
  <2>3. f \in Thread
    BY <2>2, Names DEF Thread
  <2>4. /\ f.pc = "persist" /\ f.caught = FALSE /\ f.failing = TRUE /\ f.reply = k.reply
        /\ f.request = k.request /\ f.tool = k.tool
        /\ f.record = (IF k.request.streamed THEN k.record ELSE "none")
        /\ f.demo = k.demo /\ f.done = k.done /\ f.audit = k.audit
        /\ f.edited = k.edited /\ f.hits = k.hits /\ f.gone = k.gone
    BY <1>1 DEF Thread, Fails
  <2> HIDE DEF f
  <2>5. Sound(f)
    BY <1>1, <1>3, <2>3, <2>4 DEF Sound, Early, Over, Meant, Consents
  <2> QED BY <1>2, <2>1, <2>4, <2>5, Onward
<1>4. CASE ~k.caught
  <2>1. Becomes(t, Vanishes(k))
    BY <1>4 DEF PersistFails, Unstored
  <2> QED BY <1>1, <1>2, <2>1, VanishesStep
<1> QED BY <1>3, <1>4

LEMMA AuditRecallStep ==
  ASSUME Inv, NEW t \in Turns, AuditRecall(t)
  PROVE  Inv'
<1> DEFINE k == turn[t]
           f == [k EXCEPT !.pc = "audit_tool", !.hits = {}]
<1>1. k \in Thread /\ Sound(k) /\ k.pc = "audit_recall"
  BY DEF Inv, AuditRecall, At, Sound
<1>2. State' /\ k.pc # "ok" /\ UNCHANGED <<deployment, items>>
  BY <1>1, StateStays DEF AuditRecall, Inv
<1>3. Becomes(t, f)
  BY DEF AuditRecall
<1>4. f \in Thread
  BY <1>1, Names DEF Thread
<1>5. /\ f.pc = "audit_tool" /\ f.caught = k.caught /\ f.reply = k.reply
      /\ f.failing = k.failing /\ f.request = k.request /\ f.tool = k.tool
      /\ f.record = k.record /\ f.demo = k.demo /\ f.done = k.done /\ f.audit = k.audit
      /\ f.edited = k.edited /\ f.hits = {} /\ f.gone = k.gone
  BY <1>1 DEF Thread
<1> HIDE DEF f
<1>6. Sound(f)
  BY <1>1, <1>4, <1>5 DEF Sound, Early, Over, Meant, Consents
<1> QED BY <1>2, <1>3, <1>5, <1>6, Onward

(* The end of the audits, of a thread whose effect is on record or lost.   *)
LEMMA AuditedStep ==
  ASSUME Inv, State', NEW t \in Turns, turn[t].pc = "audit_tool",
         NEW k, Sound(k), k.pc = "audit_tool", k.done > 0 => k.audit # "none" \/ k.lost,
         k.gone = turn[t].gone, k.hits = turn[t].hits,
         Becomes(t, Audited(k)), UNCHANGED <<deployment, items>>
  PROVE  Inv'
<1> DEFINE f == Goes(k, "store")
<1>1. CASE k.failing
  <2>1. Sound(Errs(k)) /\ Keeps(Errs(k), deployment) /\ Forgets(Errs(k), items)
    BY ErrsSound, GoneKeeps
  <2> QED BY <1>1, <2>1, Moves DEF Audited
<1>2. CASE ~k.failing
  <2>1. k \in Thread
    BY DEF Sound
  <2>2. f \in Thread
    BY <2>1, Names DEF Thread, Goes
  <2>3. /\ f.pc = "store" /\ f.caught = k.caught /\ f.reply = k.reply
        /\ f.failing = k.failing /\ f.request = k.request /\ f.tool = k.tool
        /\ f.record = k.record /\ f.demo = k.demo /\ f.done = k.done /\ f.audit = k.audit
        /\ f.edited = k.edited /\ f.lost = k.lost /\ f.hits = k.hits /\ f.gone = k.gone
    BY <2>1 DEF Thread, Goes
  <2>4. Becomes(t, f)
    BY <1>2 DEF Audited
  <2> HIDE DEF f
  <2>5. Sound(f)
    BY <2>2, <2>3 DEF Sound, Early, Over, Meant, Consents
  <2> QED BY <2>3, <2>4, <2>5, Onward
<1> QED BY <1>1, <1>2

LEMMA AuditToolStep ==
  ASSUME Inv, NEW t \in Turns, AuditTool(t)
  PROVE  Inv'
<1> DEFINE k == turn[t]
           f == [k EXCEPT !.audit = k.record]
<1>1. k \in Thread /\ Sound(k) /\ k.pc = "audit_tool" /\ ~Over(k)
  BY DEF Inv, AuditTool, At, Sound, Over
<1>2. State' /\ UNCHANGED <<deployment, items>>
  BY StateStays DEF AuditTool, Inv
<1>3. f \in Thread
  BY <1>1 DEF Thread
<1>4. /\ f.pc = "audit_tool" /\ f.caught = k.caught /\ f.reply = k.reply
      /\ f.failing = k.failing /\ f.request = k.request /\ f.tool = k.tool
      /\ f.record = k.record /\ f.demo = k.demo /\ f.done = k.done /\ f.audit = k.record
      /\ f.edited = k.edited /\ f.hits = k.hits /\ f.gone = k.gone
  BY <1>1 DEF Thread
<1>5. Becomes(t, Audited(f))
  BY DEF AuditTool
<1> HIDE DEF f
<1>6. Sound(f) /\ (f.done > 0 => f.audit # "none")
  BY <1>1, <1>3, <1>4 DEF Sound, Early, Over, Meant, Consents
<1> QED BY <1>1, <1>2, <1>4, <1>5, <1>6, AuditedStep

LEMMA AuditFailsStep ==
  ASSUME Inv, NEW t \in Turns, AuditFails(t)
  PROVE  Inv'
<1> DEFINE k == turn[t]
           f == [k EXCEPT !.lost = TRUE]
<1>1. k \in Thread /\ Sound(k) /\ k.pc = "audit_tool"
  BY DEF Inv, AuditFails, At, Sound
<1>2. State' /\ UNCHANGED <<deployment, items>>
  BY StateStays DEF AuditFails, Inv
<1>3. f \in Thread
  BY <1>1 DEF Thread
<1>4. /\ f.pc = "audit_tool" /\ f.caught = k.caught /\ f.reply = k.reply
      /\ f.failing = k.failing /\ f.request = k.request /\ f.tool = k.tool
      /\ f.record = k.record /\ f.demo = k.demo /\ f.done = k.done /\ f.audit = k.audit
      /\ f.edited = k.edited /\ f.lost = TRUE /\ f.hits = k.hits /\ f.gone = k.gone
  BY <1>1 DEF Thread
<1>5. Becomes(t, Audited(f))
  BY DEF AuditFails
<1> HIDE DEF f
<1>6. Sound(f)
  BY <1>1, <1>3, <1>4 DEF Sound, Early, Over, Meant, Consents
<1> QED BY <1>1, <1>2, <1>4, <1>5, <1>6, AuditedStep

(* The turn's own item appears; no thread has it among the forgotten.      *)
LEMMA StoreStep ==
  ASSUME Inv, NEW t \in Turns, Store(t)
  PROVE  Inv'
<1> DEFINE k == turn[t]
           f == End(k, "ok")
<1>1. /\ Sound(k) /\ k.pc = "store" /\ items[t] = "none"
      /\ items \in [Items -> Status \union {"none"}] /\ t \in Items
  BY DEF Inv, State, Store, At, Learned, Items
<1>2. Sound(f) /\ f.pc = "ok" /\ f.request = k.request /\ f.hits = {} /\ f.gone = {}
  BY <1>1, EndSound DEF Sound
<1>3. turn' = [u \in Turns |-> IF u = t THEN f ELSE turn[u]]
  BY DEF Inv, Store, Becomes
<1>4. /\ items' \in [Items -> Status \union {"none"}]
      /\ \A i \in Items : i # t => items'[i] = items[i]
      /\ items'[t] # "none" => k.request.fact # NoFact
  BY <1>1 DEF Store, Remembered, Memorable, Candidate, Message, Status
<1> HIDE DEF f
<1>5. State'
  BY <1>4 DEF Store, Inv, State
<1>6. ASSUME NEW u \in Turns
      PROVE  /\ Sound(turn'[u]) /\ Keeps(turn'[u], deployment')
             /\ Forgets(turn'[u], items') /\ Learned(u)'
  <2>1. CASE u = t
    <3>1. turn'[u] = f
      BY <1>3, <2>1
    <3> QED BY <1>2, <1>4, <2>1, <3>1, GoneKeeps DEF Learned
  <2>2. CASE u # t
    <3>1. turn'[u] = turn[u] /\ items'[u] = items[u] /\ deployment' = deployment
      BY <1>3, <1>4, <2>2 DEF Items, Store
    <3>2. /\ Sound(turn[u]) /\ Keeps(turn[u], deployment) /\ Forgets(turn[u], items)
          /\ Learned(u) /\ turn[u].gone \subseteq Items
      BY DEF Inv, Sound, Thread
    <3>3. Forgets(turn[u], items')
      BY <1>1, <1>4, <3>2 DEF Forgets
    <3> QED BY <3>1, <3>2, <3>3 DEF Learned
  <2> QED BY <2>1, <2>2
<1>7. turn' = [u \in Turns |-> turn'[u]]
  BY <1>3
<1> QED BY <1>5, <1>6, <1>7 DEF Inv

LEMMA StoreFailsStep ==
  ASSUME Inv, NEW t \in Turns, StoreFails(t)
  PROVE  Inv'
<1> DEFINE k == turn[t]
           j == [k EXCEPT !.unlearned = TRUE]
           f == End(j, "ok")
<1>1. k \in Thread /\ Sound(k) /\ k.pc = "store"
  BY DEF Inv, StoreFails, At, Sound
<1>2. State' /\ k.pc # "ok" /\ UNCHANGED <<deployment, items>>
  BY <1>1, StateStays DEF StoreFails, Inv
<1>3. j \in Thread
  BY <1>1 DEF Thread
<1>4. /\ j.pc = "store" /\ j.caught = k.caught /\ j.reply = k.reply
      /\ j.failing = k.failing /\ j.request = k.request /\ j.tool = k.tool
      /\ j.record = k.record /\ j.demo = k.demo /\ j.done = k.done /\ j.audit = k.audit
      /\ j.edited = k.edited /\ j.lost = k.lost
  BY <1>1 DEF Thread
<1> HIDE DEF j
<1>5. Sound(j) /\ (j.done > 0 => j.audit # "none" \/ j.lost)
  BY <1>1, <1>3, <1>4 DEF Sound, Early, Over, Meant, Consents
<1>6. Sound(f) /\ f.pc = "ok" /\ f.hits = {} /\ f.gone = {}
  BY <1>5, EndSound
<1>7. Becomes(t, f)
  BY DEF StoreFails, j
<1> HIDE DEF f
<1>8. Keeps(f, deployment) /\ Forgets(f, items)
  BY <1>6, GoneKeeps
<1> QED BY <1>2, <1>6, <1>7, <1>8, Moves

(* No change of status brings a forgotten item back.                       *)
LEMMA ForgetStep ==
  ASSUME Inv, Forget
  PROVE  Inv'
<1>1. PICK i \in DOMAIN items, to \in {"invalidated", "deleted"} :
        items' = Transitioned(items, i, to)
  BY DEF Forget
<1>2. items \in [Items -> Status \union {"none"}] /\ i \in Items
  BY <1>1 DEF Inv, State
<1>3. /\ items' \in [Items -> Status \union {"none"}]
      /\ \A j \in Items : /\ items'[j] # "none" => items[j] # "none"
                          /\ items[j] \in {"invalidated", "deleted"} =>
                               items'[j] \in {"invalidated", "deleted"}
  BY <1>1, <1>2 DEF Transitioned, MayBecome, Status
<1>4. State'
  BY <1>3, TurnAssumption DEF Forget, Inv, State
<1>5. ASSUME NEW t \in Turns
      PROVE  /\ Sound(turn'[t]) /\ Keeps(turn'[t], deployment')
             /\ Forgets(turn'[t], items') /\ Learned(t)'
  <2>1. /\ Sound(turn[t]) /\ Keeps(turn[t], deployment) /\ Forgets(turn[t], items)
        /\ Learned(t) /\ turn[t].gone \subseteq Items /\ t \in Items
    BY DEF Inv, Sound, Thread, Items
  <2>2. turn' = turn /\ deployment' = deployment
    BY DEF Forget
  <2>3. Forgets(turn[t], items')
    BY <1>3, <2>1 DEF Forgets
  <2>4. Learned(t)'
    BY <1>3, <2>1, <2>2 DEF Learned
  <2> QED BY <2>1, <2>2, <2>3, <2>4
<1>6. turn' = [t \in Turns |-> turn'[t]]
  BY DEF Inv, Forget
<1> QED BY <1>4, <1>5, <1>6 DEF Inv

(* A thread that notes an edit promises nothing more.                      *)
LEMMA EditHouseholdStep ==
  ASSUME Inv, EditHousehold
  PROVE  Inv'
<1>1. State'
  <2>1. deployment' \in Deployment
    <3>1. PICK h \in Households : deployment' = [deployment EXCEPT !.household = h]
      BY DEF EditHousehold
    <3>2. deployment \in Deployment /\ h \in {"none", "demo", "real", "invalid"}
      BY TurnAssumption DEF Inv, State
    <3> QED BY <3>1, <3>2 DEF Deployment
  <2>2. edits' \in 0..MaxEdits
    BY TurnAssumption DEF EditHousehold, Inv, State
  <2> QED BY <2>1, <2>2 DEF EditHousehold, Inv, State
<1>2. ASSUME NEW t \in Turns
      PROVE  /\ Sound(turn'[t]) /\ Keeps(turn'[t], deployment')
             /\ Forgets(turn'[t], items') /\ Learned(t)'
  <2> DEFINE k == turn[t]
             f == [k EXCEPT !.edited = TRUE]
  <2>1. /\ k \in Thread /\ Sound(k) /\ Keeps(k, deployment) /\ Forgets(k, items)
        /\ Learned(t) /\ items' = items
    BY DEF Inv, Sound, EditHousehold
  <2>2. turn'[t] = IF Running(k) THEN f ELSE k
    BY DEF EditHousehold
  <2>3. CASE Running(k)
    <3>1. f \in Thread
      BY <2>1 DEF Thread
    <3>2. /\ f.pc = k.pc /\ f.caught = k.caught /\ f.reply = k.reply
          /\ f.failing = k.failing /\ f.request = k.request /\ f.tool = k.tool
          /\ f.record = k.record /\ f.demo = k.demo /\ f.done = k.done
          /\ f.audit = k.audit /\ f.edited = TRUE /\ f.lost = k.lost
          /\ f.hits = k.hits /\ f.gone = k.gone
      BY <2>1 DEF Thread
    <3>3. turn'[t] = f
      BY <2>2, <2>3
    <3> HIDE DEF f
    <3>4. Sound(f)
      BY <2>1, <3>1, <3>2 DEF Sound, Early, Fresh, Choice, Over, Meant, Consents
    <3>5. Keeps(f, deployment') /\ Forgets(f, items')
      BY <2>1, <3>2 DEF Keeps, Forgets
    <3> QED BY <2>1, <3>2, <3>3, <3>4, <3>5 DEF Learned
  <2>4. CASE ~Running(k)
    <3>1. turn'[t] = k
      BY <2>2, <2>4
    <3>2. Keeps(k, deployment')
      BY <2>4 DEF Keeps, Running, Over
    <3> QED BY <2>1, <3>1, <3>2 DEF Learned
  <2> QED BY <2>3, <2>4
<1>3. turn' = [t \in Turns |-> turn'[t]]
  BY DEF EditHousehold
<1> QED BY <1>1, <1>2, <1>3 DEF Inv

LEMMA CrashStep ==
  ASSUME Inv, Crash
  PROVE  Inv'
<1>1. State'
  BY StateStays DEF Crash, Inv
<1>2. ASSUME NEW t \in Turns
      PROVE  /\ Sound(turn'[t]) /\ Keeps(turn'[t], deployment')
             /\ Forgets(turn'[t], items') /\ Learned(t)'
  <2> DEFINE k == turn[t]
             f == Vanishes(k)
  <2>1. /\ Sound(k) /\ Keeps(k, deployment) /\ Forgets(k, items) /\ Learned(t)
        /\ items' = items /\ deployment' = deployment
    BY DEF Inv, Crash
  <2>2. turn'[t] = IF Running(k) THEN f ELSE k
    BY DEF Crash
  <2>3. Sound(f) /\ f.pc = "error" /\ f.request = k.request /\ f.hits = {} /\ f.gone = {}
    BY <2>1, VanishesSound
  <2> HIDE DEF f
  <2>4. CASE Running(k)
    <3>1. turn'[t] = f
      BY <2>2, <2>4
    <3>2. Keeps(f, deployment') /\ Forgets(f, items')
      BY <2>3, GoneKeeps
    <3>3. items[t] = "none"
      BY <2>1, <2>4 DEF Learned, Running, Over
    <3> QED BY <2>1, <2>3, <3>1, <3>2, <3>3 DEF Learned
  <2>5. CASE ~Running(k)
    BY <2>1, <2>2, <2>5 DEF Learned
  <2> QED BY <2>4, <2>5
<1>3. turn' = [t \in Turns |-> turn'[t]]
  BY DEF Crash
<1> QED BY <1>1, <1>2, <1>3 DEF Inv

-----------------------------------------------------------------------------
LEMMA InitInv == Init => Inv
<1> SUFFICES ASSUME Init PROVE Inv
  OBVIOUS
<1>1. State
  BY TurnAssumption DEF Init, State, Items, Status
<1>2. ASSUME NEW t \in Turns
      PROVE  /\ Sound(turn[t]) /\ Keeps(turn[t], deployment)
             /\ Forgets(turn[t], items) /\ Learned(t)
  <2>1. turn[t] = Idle /\ items[t] = "none"
    BY TurnAssumption DEF Init
  <2>2. Sound(Idle)
    <3>1. NoRequest \in Request /\ NoRequest.forced = NoTool
          /\ NoRequest.source # "telegram_command"
      BY DEF NoRequest, Request, NoTool, NoFact, Source, HouseholdTools
    <3>2. Sound([Idle EXCEPT !.request = NoRequest])
      BY <3>1, IdleSound
    <3>3. Idle.request = NoRequest
      BY DEF Idle
    <3>4. [Idle EXCEPT !.request = NoRequest] = Idle
      BY <3>3, IdleThread DEF Thread
    <3> QED BY <3>2, <3>4
  <2>3. Idle.pc = "idle" /\ Idle.hits = {} /\ Idle.gone = {}
    BY DEF Idle
  <2> QED BY <2>1, <2>2, <2>3 DEF Keeps, Forgets, Learned
<1>3. turn = [t \in Turns |-> turn[t]]
  BY DEF Init
<1> QED BY <1>1, <1>2, <1>3 DEF Inv

LEMMA NextInv == Inv /\ [Next]_vars => Inv'
<1> SUFFICES ASSUME Inv, [Next]_vars PROVE Inv'
  OBVIOUS
<1>1. ASSUME NEW t \in Turns, Step(t)
      PROVE  Inv'
  BY <1>1, BeginStep, BeginFailsStep, CommandStep, RecallStep, SkipPlanStep,
     PlanAnswersStep, PlanToolStep, PlanFailsStep, AskFirstStep, PolicyStep, CallStep,
     AnswerStep, AnswerFailsStep, StreamIsLeftStep, PersistStep, PersistFailsStep,
     AuditRecallStep, AuditToolStep, AuditFailsStep, StoreStep, StoreFailsStep
     DEF Step
<1>2. CASE UNCHANGED vars
  BY <1>2 DEF vars, Inv, State, Learned
<1> QED
  BY <1>1, <1>2, ForgetStep, EditHouseholdStep, CrashStep DEF Next, AllOver

LEMMA Invariance == Spec => []Inv
  BY InitInv, NextInv, PTL DEF Spec

(* The state of the turns, of the memory and of the transcript keeps its   *)
(* types (services/chat.py, memory_repo.py), and an APIError is caught only*)
(* once (chat.py's handler of the runtime failures).                       *)
THEOREM TurnTypes == Spec => []TypeOK
<1>1. Inv => TypeOK
  BY DEF Inv, State, Sound, Thread, TypeOK, Items
<1> QED BY <1>1, Invariance, PTL

(* Whatever a tool did is on record when its turn ends, unless the record  *)
(* was lost with the database, the process or the stream, and the record   *)
(* is no better than the truth (chat.py's audits and error paths).         *)
THEOREM AuditsAreComplete == Spec => []EffectsAudited
<1>1. Inv => EffectsAudited
  BY DEF Inv, Sound, Meant, EffectsAudited
<1> QED BY <1>1, Invariance, PTL

(* No message is sent but under the source telegram_command, and nothing   *)
(* is done at all under the source telegram: the planning paths of chat.py *)
(* and policy.py keep the sources apart, streamed or not.                  *)
THEOREM SendsAreCommanded == Spec => []SendNeedsCommand
<1>1. Inv => SendNeedsCommand
  BY DEF Inv, Sound, Consents, SendNeedsCommand
<1> QED BY <1>1, Invariance, PTL

(* The answer of /send (_maybe_handle_forced_tool_command) says what the   *)
(* executor did by its own, later reading of the household, but for what   *)
(* an edit of the file in between can do: a failed send is never sent.     *)
THEOREM SendsAreReported == Spec => []ReplyTruthful
<1>1. Inv => ReplyTruthful
  BY DEF Inv, Sound, ReplyTruthful
<1> QED BY <1>1, Invariance, PTL

(* A turn recalls nothing that was forgotten before it began, and only     *)
(* what was said in an answered or dictated message is remembered          *)
(* (memory.py, memory_repo.py), whatever the turns and the edits between.  *)
THEOREM ForgottenStaysForgotten == Spec => []ForgottenNotRecalled
<1>1. Inv => ForgottenNotRecalled
  BY DEF Inv, Forgets, Learned, ForgottenNotRecalled
<1> QED BY <1>1, Invariance, PTL

-----------------------------------------------------------------------------
(* What a turn leaves in the transcript and in the memory.  It writes its  *)
(* row once, late; an answered fact is an item then, or could not be       *)
(* embedded; and whoever found its question in the transcript found the    *)
(* unanswered row of another turn, which stays.                            *)
Stored == {"audit_recall", "audit_tool", "store", "ok", "error"}

Kept(t) ==
  turn[t].pc = "ok" /\ turn[t].request.fact # NoFact /\ deployment.memory
    /\ rows[t] # "matched" => items[t] # "none" \/ turn[t].unlearned

Found(t) ==
  rows[t] = "matched" =>
    \E u \in Turns \ {t} : /\ rows[u] = "unanswered"
                           /\ turn[u].request.fact = turn[t].request.fact

Noted == \A t \in Turns : /\ rows[t] # "none" => turn[t].pc \in Stored
                          /\ Kept(t) /\ Found(t)

(* Nobody's row changes and nobody's item is lost.                         *)
LEMMA NothingWritten ==
  ASSUME Noted, UNCHANGED rows, deployment'.memory = deployment.memory,
         \A t \in Turns :
           /\ items[t] # "none" => items'[t] # "none"
           /\ rows[t] # "none" =>
                turn'[t].pc \in Stored /\ turn'[t].request = turn[t].request
           /\ \/ turn'[t].pc # "ok"
              \/ /\ turn[t].pc = "ok" /\ turn'[t].request = turn[t].request
                 /\ turn'[t].unlearned = turn[t].unlearned
              \/ Kept(t)'
  PROVE  Noted'
<1>1. ASSUME NEW t \in Turns
      PROVE  Kept(t)'
  BY DEF Noted, Kept
<1>2. ASSUME NEW t \in Turns, rows[t] = "matched"
      PROVE  \E u \in Turns \ {t} : /\ rows[u] = "unanswered"
                                    /\ turn'[u].request.fact = turn'[t].request.fact
  <2>1. PICK u \in Turns \ {t} : /\ rows[u] = "unanswered"
                                 /\ turn[u].request.fact = turn[t].request.fact
    BY <1>2 DEF Noted, Found
  <2>2. turn'[u].request = turn[u].request /\ turn'[t].request = turn[t].request
    BY <1>2, <2>1
  <2> QED BY <2>1, <2>2
<1> QED BY <1>1, <1>2 DEF Noted, Found

(* The turn's own thread moves on; the others stand.                       *)
LEMMA AloneMoves ==
  ASSUME Inv, NEW t \in Turns, NEW k, Becomes(t, k)
  PROVE  turn'[t] = k /\ \A u \in Turns : u # t => turn'[u] = turn[u]
<1>1. turn = [u \in Turns |-> turn[u]]
  BY DEF Inv
<1> QED BY <1>1 DEF Becomes

(* Before it stores anything.                                              *)
LEMMA StillUnwritten ==
  ASSUME Inv, Noted, NEW t \in Turns, turn[t].pc \notin Stored,
         NEW k, Becomes(t, k), k.pc # "ok", UNCHANGED <<deployment, items, rows>>
  PROVE  Noted'
<1>1. turn'[t] = k /\ \A u \in Turns : u # t => turn'[u] = turn[u]
  BY AloneMoves
<1>2. rows[t] = "none" /\ \A u \in Turns : rows[u] # "none" => turn[u].pc \in Stored
  BY DEF Noted
<1> QED BY <1>1, <1>2, NothingWritten

(* After it has stored its row.                                            *)
LEMMA StillWritten ==
  ASSUME Inv, Noted, NEW t \in Turns, NEW k, Becomes(t, k),
         k.pc \in Stored \ {"ok"}, k.request = turn[t].request,
         UNCHANGED <<deployment, items, rows>>
  PROVE  Noted'
<1>1. turn'[t] = k /\ \A u \in Turns : u # t => turn'[u] = turn[u]
  BY AloneMoves
<1>2. \A u \in Turns : rows[u] # "none" => turn[u].pc \in Stored
  BY DEF Noted
<1> QED BY <1>1, <1>2, NothingWritten

(* Where the ways to end and to go on leave a thread.                      *)
LEMMA Places ==
  ASSUME NEW k \in Thread
  PROVE  /\ Errs(k).pc = "error" /\ Errs(k).request = k.request
         /\ Vanishes(k).pc = "error" /\ Fails(k).pc = "persist"
         /\ \A pc : Goes(k, pc).pc = pc /\ Goes(k, pc).request = k.request
         /\ \A reply : Answered(k, reply).pc = "persist"
         /\ \A outcome : Executed(k, outcome).pc \in {"error", "persist", "answer"}
<1>1. Errs(k).pc = "error" /\ Errs(k).request = k.request
  BY DEF Thread, Errs, End
<1>2. Vanishes(k).pc = "error" /\ Fails(k).pc = "persist"
  BY DEF Thread, Vanishes, Errs, End, Fails
<1>3. \A pc : Goes(k, pc).pc = pc /\ Goes(k, pc).request = k.request
  BY DEF Thread, Goes
<1>4. \A reply : Answered(k, reply).pc = "persist"
  BY DEF Thread, Answered
<1>5. ASSUME NEW outcome
      PROVE  Executed(k, outcome).pc \in {"error", "persist", "answer"}
  <2> DEFINE told == [k EXCEPT !.record = outcome.status, !.demo = outcome.demo,
                               !.done = outcome.done]
  <2>1. Goes(told, "answer").pc = "answer"
    BY DEF Thread, Goes
  <2>2. \A reply : [told EXCEPT !.pc = "persist", !.reply = reply].pc = "persist"
    BY DEF Thread
  <2> HIDE DEF told
  <2>3. Executed(k, outcome) =
          CASE outcome.status = "RuntimeError" -> Errs(k)
            [] outcome.status = "APIError"     -> Fails(k)
            [] outcome.status \in {"completed", "failed"} /\ k.request.forced # NoTool ->
                 [told EXCEPT !.pc = "persist", !.reply = ReplyFor(k, outcome.status)]
            [] OTHER -> Goes(told, "answer")
    BY DEF Executed, told
  <2> QED BY <1>1, <1>2, <2>1, <2>2, <2>3
<1> QED BY <1>1, <1>2, <1>3, <1>4, <1>5

(* The steps before anything is stored.                                    *)
Before(t) ==
  \/ Begin(t) \/ BeginFails(t) \/ Command(t) \/ Recall(t)
  \/ SkipPlan(t) \/ PlanAnswers(t) \/ PlanTool(t) \/ PlanFails(t) \/ AskFirst(t)
  \/ Policy(t) \/ Call(t)
  \/ Answer(t) \/ AnswerFails(t) \/ EmptyStream(t) \/ StreamBreaks(t) \/ Disconnect(t)
  \/ PersistFails(t)

LEMMA BeforeNoted ==
  ASSUME Inv, Noted, NEW t \in Turns, Before(t)
  PROVE  Noted'
<1>1. turn[t].pc \notin Stored /\ UNCHANGED <<deployment, items, rows>>
  BY DEF Before, Begin, BeginFails, Command, Recall, SkipPlan, PlanAnswers, PlanTool,
         PlanFails, AskFirst, Policy, Call, Answer, AnswerFails, EmptyStream,
         StreamBreaks, Disconnect, PersistFails, At, Stored
<1>2. turn[t] \in Thread /\ Idle \in Thread
  BY IdleThread DEF Inv, Sound
<1> SUFFICES \E k : Becomes(t, k) /\ k.pc # "ok"
  BY <1>1, StillUnwritten
<1>3. CASE Begin(t)
  <2>1. PICK r \in Requests[t] :
        LET k == [Idle EXCEPT !.request = r, !.gone = Forgotten,
                              !.plans = Offered(deployment) # {}]
        IN  Becomes(t, IF HouseholdRaises(deployment) /\ ~r.dictated
                       THEN Errs(k) ELSE Goes(k, First(r)))
    BY <1>3 DEF Begin
  <2> DEFINE k == [Idle EXCEPT !.request = r, !.gone = Forgotten,
                               !.plans = Offered(deployment) # {}]
  <2>2. Errs(k).pc = "error" /\ \A pc : Goes(k, pc).pc = pc
    BY DEF Idle, Errs, End, Goes
  <2>3. First(r) # "ok"
    <3>1. r.dictated \in BOOLEAN
      BY TurnAssumption DEF Request
    <3> QED BY <3>1 DEF First
  <2> QED BY <2>1, <2>2, <2>3
<1>4. CASE BeginFails(t)
  <2>1. PICK r : Becomes(t, Errs([Idle EXCEPT !.request = r]))
    BY <1>4 DEF BeginFails
  <2>2. Errs([Idle EXCEPT !.request = r]).pc = "error"
    BY DEF Idle, Errs, End
  <2> QED BY <2>1, <2>2
<1>5. CASE Command(t)
  <2> DEFINE k == [turn[t] EXCEPT !.tool = turn[t].request.forced]
             send == k.tool = "telegram-send"
             f == [k EXCEPT !.pc = "persist", !.record = "failed", !.reply = "unknown_alias"]
             p(h) == [k EXCEPT !.pc = "policy", !.promised = h]
  <2>1. Errs(k).pc = "error" /\ f.pc = "persist" /\ \A h : p(h).pc = "policy"
    BY <1>2 DEF Thread, Errs, End
  <2>2. Becomes(t, Errs(k)) \/ Becomes(t, f) \/ Becomes(t, p(deployment.household))
          \/ Becomes(t, p(k.promised))
    BY <1>5 DEF Command
  <2> QED BY <2>1, <2>2
<1>6. CASE Recall(t)
  <2> DEFINE done(hits) == [turn[t] EXCEPT !.pc = "plan", !.recall = "completed",
                                           !.hits = hits]
             error == [turn[t] EXCEPT !.pc = "plan", !.recall = "error"]
  <2>1. error.pc = "plan" /\ \A hits : done(hits).pc = "plan"
    BY <1>2 DEF Thread
  <2>2. Becomes(t, Goes(turn[t], "plan")) \/ Becomes(t, error)
          \/ \E hits : Becomes(t, done(hits))
    BY <1>6 DEF Recall
  <2> QED BY <1>2, <2>1, <2>2, Places
<1>7. CASE SkipPlan(t)
  <2> DEFINE f == [turn[t] EXCEPT !.pc = "policy", !.tool = "web-search"]
  <2>1. f.pc = "policy"
    BY <1>2 DEF Thread
  <2>2. Becomes(t, f) \/ Becomes(t, Goes(turn[t], "answer"))
    BY <1>7 DEF SkipPlan
  <2> QED BY <1>2, <2>1, <2>2, Places
<1>8. CASE PlanAnswers(t)
  BY <1>2, <1>8, Places DEF PlanAnswers
<1>9. CASE PlanTool(t)
  <2> DEFINE f(tool) == [turn[t] EXCEPT !.pc = "policy", !.tool = tool]
  <2>1. \A tool : f(tool).pc = "policy"
    BY <1>2 DEF Thread
  <2>2. \E tool : Becomes(t, f(tool))
    BY <1>9 DEF PlanTool
  <2> QED BY <2>1, <2>2
<1>10. CASE PlanFails(t) \/ AnswerFails(t) \/ StreamBreaks(t)
  BY <1>2, <1>10, Places DEF PlanFails, AnswerFails, StreamBreaks
<1>11. CASE AskFirst(t)
  <2> DEFINE k == [turn[t] EXCEPT !.tool = "telegram-send"]
             l(status) == [k EXCEPT !.record = status]
  <2>1. Errs(k).pc = "error" /\ Fails(k).pc = "persist"
          /\ \A status, reply : Answered(l(status), reply).pc = "persist"
    BY <1>2 DEF Thread, Errs, End, Fails, Answered
  <2>2. Becomes(t, Errs(k)) \/ Becomes(t, Fails(k))
          \/ Becomes(t, Answered(l("failed"), "cannot_send"))
          \/ Becomes(t, Answered(l("pending_confirmation"), "shall_i"))
    BY <1>11 DEF AskFirst
  <2> QED BY <2>1, <2>2
<1>12. CASE Policy(t)
  <2>1. Becomes(t, Errs(turn[t])) \/ Becomes(t, Goes(turn[t], "call"))
          \/ Becomes(t, Executed(turn[t], Failed))
    BY <1>12 DEF Policy
  <2> QED BY <1>2, <2>1, Places
<1>13. CASE Call(t)
  <2>1. PICK outcome : Becomes(t, Executed(turn[t], outcome))
    BY <1>13 DEF Call
  <2> QED BY <1>2, <2>1, Places
<1>14. CASE Answer(t)
  <2> DEFINE f == [turn[t] EXCEPT !.pc = "persist", !.reply = "text",
                                  !.caught = Streamed(t)]
  <2>1. f.pc = "persist"
    BY <1>2 DEF Thread
  <2> QED BY <1>14, <2>1 DEF Answer
<1>15. CASE EmptyStream(t) \/ Disconnect(t)
  BY <1>2, <1>15, Places DEF EmptyStream, Disconnect
<1>16. CASE PersistFails(t)
  <2> DEFINE f == [Fails(turn[t]) EXCEPT !.record =
                     IF turn[t].request.streamed THEN @ ELSE "none"]
  <2>1. f.pc = "persist"
    BY <1>2 DEF Thread, Fails
  <2>2. Becomes(t, f) \/ Becomes(t, Vanishes(turn[t]))
    BY <1>16 DEF PersistFails, Unstored
  <2> QED BY <1>2, <2>1, <2>2, Places
<1> QED
  BY <1>3, <1>4, <1>5, <1>6, <1>7, <1>8, <1>9, <1>10, <1>11, <1>12, <1>13, <1>14,
     <1>15, <1>16 DEF Before

(* record_successful_completion and its like write the row: the others'    *)
(* stand, and a match is the row of another turn.                          *)
LEMMA PersistNoted ==
  ASSUME Inv, Noted, NEW t \in Turns, Persist(t)
  PROVE  Noted'
<1> DEFINE f == [turn[t] EXCEPT !.caught = FALSE,
                   !.pc = IF turn[t].request.dictated THEN "store" ELSE "audit_recall"]
<1>1. turn[t] \in Thread /\ turn[t].pc = "persist" /\ rows[t] = "none"
  BY DEF Inv, Sound, Noted, Persist, At, Stored
<1>2. f.pc \in {"store", "audit_recall"} /\ f.request = turn[t].request
  BY <1>1 DEF Thread
<1>3. Becomes(t, f) /\ UNCHANGED <<deployment, items>>
  BY DEF Persist
<1> HIDE DEF f
<1>4. turn'[t] = f /\ \A u \in Turns : u # t => turn'[u] = turn[u]
  BY <1>3, AloneMoves
<1>5. rows'[t] \in RowsOf(t) /\ \A u \in Turns : u # t => rows'[u] = rows[u]
  BY DEF Persist, Inv, State
<1>6. \A u \in Turns : turn'[u].request = turn[u].request
  BY <1>2, <1>4
<1>7. ASSUME NEW u \in Turns
      PROVE  (rows'[u] # "none" => turn'[u].pc \in Stored) /\ Kept(u)'
  <2>1. CASE u = t
    BY <1>2, <1>4, <2>1 DEF Stored, Kept
  <2>2. CASE u # t
    BY <1>3, <1>4, <1>5, <2>2 DEF Noted, Kept
  <2> QED BY <2>1, <2>2
<1>8. ASSUME NEW u \in Turns, rows'[u] = "matched"
      PROVE  \E v \in Turns \ {u} : /\ rows'[v] = "unanswered"
                                    /\ turn'[v].request.fact = turn'[u].request.fact
  <2>1. PICK v \in Turns \ {u} : /\ rows[v] = "unanswered"
                                 /\ turn[v].request.fact = turn[u].request.fact
    <3>1. CASE u = t
      <4>1. MayMatch(t)
        BY <1>5, <1>8, <3>1 DEF RowsOf
      <4> QED BY <3>1, <4>1 DEF MayMatch, Unanswered
    <3>2. CASE u # t
      BY <1>5, <1>8, <3>2 DEF Noted, Found
    <3> QED BY <3>1, <3>2
  <2>2. v # t
    BY <1>1, <2>1
  <2> QED BY <1>5, <1>6, <2>1, <2>2
<1> QED BY <1>7, <1>8 DEF Noted, Found

(* The audits.                                                             *)
LEMMA AuditsNoted ==
  ASSUME Inv, Noted, NEW t \in Turns, AuditRecall(t) \/ AuditTool(t) \/ AuditFails(t)
  PROVE  Noted'
<1>1. turn[t] \in Thread /\ UNCHANGED <<deployment, items, rows>>
  BY DEF Inv, Sound, AuditRecall, AuditTool, AuditFails
<1> SUFFICES \E k : Becomes(t, k) /\ k.pc \in Stored \ {"ok"} /\ k.request = turn[t].request
  BY <1>1, StillWritten
<1> DEFINE k == turn[t]
           heard == [k EXCEPT !.pc = "audit_tool", !.hits = {}]
           written == [k EXCEPT !.audit = k.record]
           missed == [k EXCEPT !.lost = TRUE]
<1>2. /\ written \in Thread /\ written.request = k.request
      /\ missed \in Thread /\ missed.request = k.request
      /\ heard.pc = "audit_tool" /\ heard.request = k.request
  BY <1>1 DEF Thread
<1>3. CASE AuditRecall(t)
  BY <1>2, <1>3 DEF AuditRecall, Stored
<1>4. CASE ~AuditRecall(t)
  <2>1. PICK j \in {written, missed} : Becomes(t, Audited(j))
    BY <1>4 DEF AuditTool, AuditFails
  <2>2. j \in Thread /\ j.request = k.request
    BY <1>2
  <2> QED BY <2>1, <2>2, Places DEF Audited, Stored
<1> QED BY <1>3, <1>4

(* store_persisted_messages: a candidate becomes an item, or it is said    *)
(* that it did not.                                                        *)
LEMMA StoreNoted ==
  ASSUME Inv, Noted, NEW t \in Turns, Store(t)
  PROVE  Noted'
<1> DEFINE f == End(turn[t], "ok")
<1>1. /\ turn[t] \in Thread /\ turn[t].pc = "store" /\ t \in Items
      /\ items \in [Items -> Status \union {"none"}]
  BY DEF Inv, Sound, State, Store, At, Items
<1>2. f.pc = "ok" /\ f.request = turn[t].request
  BY <1>1 DEF Thread, End
<1>3. Becomes(t, f) /\ UNCHANGED <<deployment, rows>>
  BY DEF Store
<1> HIDE DEF f
<1>4. turn'[t] = f /\ \A u \in Turns : u # t => turn'[u] = turn[u]
  BY <1>3, AloneMoves
<1>5. /\ \A u \in Turns : items[u] # "none" => items'[u] # "none"
      /\ Memorable(t) => items'[t] # "none"
  BY <1>1 DEF Store, Remembered, Items
<1>6. Kept(t)'
  BY <1>2, <1>3, <1>4, <1>5 DEF Kept, Memorable, Candidate, Message
<1>7. \A u \in Turns : rows[u] # "none" => turn[u].pc \in Stored
  BY DEF Noted
<1> QED BY <1>2, <1>3, <1>4, <1>5, <1>6, <1>7, NothingWritten DEF Stored

LEMMA StoreFailsNoted ==
  ASSUME Inv, Noted, NEW t \in Turns, StoreFails(t)
  PROVE  Noted'
<1> DEFINE f == End([turn[t] EXCEPT !.unlearned = TRUE], "ok")
<1>1. turn[t] \in Thread
  BY DEF Inv, Sound
<1>2. f.pc = "ok" /\ f.request = turn[t].request /\ f.unlearned = TRUE
  BY <1>1 DEF Thread, End
<1>3. Becomes(t, f) /\ UNCHANGED <<deployment, items, rows>>
  BY DEF StoreFails
<1> HIDE DEF f
<1>4. turn'[t] = f /\ \A u \in Turns : u # t => turn'[u] = turn[u]
  BY <1>3, AloneMoves
<1>5. Kept(t)'
  BY <1>2, <1>4 DEF Kept
<1>6. \A u \in Turns : rows[u] # "none" => turn[u].pc \in Stored
  BY DEF Noted
<1> QED BY <1>2, <1>3, <1>4, <1>5, <1>6, NothingWritten DEF Stored

(* What happens to all turns, or to none.                                  *)
LEMMA OthersNoted ==
  ASSUME Inv, Noted, Forget \/ EditHousehold \/ Crash
  PROVE  Noted'
<1>1. \A u \in Turns : rows[u] # "none" => turn[u].pc \in Stored
  BY DEF Noted
<1>2. CASE Forget
  <2>1. PICK i \in DOMAIN items, to \in {"invalidated", "deleted"} :
          items' = Transitioned(items, i, to)
    BY <1>2 DEF Forget
  <2>2. \A u \in Turns : items[u] # "none" => items'[u] # "none"
    BY <2>1 DEF Transitioned, Inv, State, Items
  <2> QED BY <1>1, <1>2, <2>2, NothingWritten DEF Forget
<1>3. CASE EditHousehold
  <2>1. deployment'.memory = deployment.memory
    BY <1>3 DEF EditHousehold, Inv, State, Deployment
  <2>2. ASSUME NEW u \in Turns
        PROVE  /\ turn'[u].pc = turn[u].pc /\ turn'[u].request = turn[u].request
               /\ turn'[u].unlearned = turn[u].unlearned
    BY <1>3 DEF EditHousehold, Inv, Sound, Thread
  <2>3. UNCHANGED <<items, rows>>
    BY <1>3 DEF EditHousehold
  <2> QED BY <1>1, <2>1, <2>2, <2>3, NothingWritten
<1>4. CASE Crash
  <2>1. ASSUME NEW u \in Turns
        PROVE  \/ turn'[u] = turn[u]
               \/ turn'[u].pc = "error" /\ turn'[u].request = turn[u].request
    BY <1>4, VanishesSound DEF Crash, Inv
  <2>2. UNCHANGED <<deployment, items, rows>>
    BY <1>4 DEF Crash
  <2> QED BY <1>1, <2>1, <2>2, NothingWritten DEF Stored
<1> QED BY <1>2, <1>3, <1>4

LEMMA NotedAlways == Spec => []Noted
<1>1. Init => Noted
  BY DEF Init, Noted, Kept, Found, Idle
<1>2. Inv /\ Noted /\ [Next]_vars => Noted'
  <2> SUFFICES ASSUME Inv, Noted, [Next]_vars PROVE Noted'
    OBVIOUS
  <2>1. ASSUME NEW t \in Turns, Step(t)
        PROVE  Noted'
    BY <2>1, BeforeNoted, PersistNoted, AuditsNoted, StoreNoted, StoreFailsNoted
       DEF Step, Before
  <2>2. CASE UNCHANGED vars
    BY <2>2 DEF vars, Noted, Kept, Found
  <2> QED BY <2>1, <2>2, OthersNoted DEF Next, AllOver
<1> QED BY <1>1, <1>2, Invariance, PTL DEF Spec

(* A fact that was answered or dictated is remembered; if it is not, the   *)
(* embedding or the database failed, or its message was in the transcript  *)
(* already, with a dictation or a failed turn to answer for it (memory.py, *)
(* chat.py's order of transcript and memory).                              *)
THEOREM FactsAreRemembered == Spec => []RememberedUnlessExcused
<1>1. Inv /\ Noted => RememberedUnlessExcused
  <2> SUFFICES ASSUME Inv, Noted, NEW t \in Turns, turn[t].pc = "ok",
                      turn[t].request.fact # NoFact, deployment.memory
               PROVE  \E u \in Turns :
                        /\ u = t \/ (rows[t] = "matched" /\ rows[u] = "unanswered")
                        /\ \/ items[u] # "none" \/ turn[u].unlearned
                           \/ u # t /\ (Running(turn[u]) \/ turn[u].pc = "error")
    BY DEF RememberedUnlessExcused
  <2>1. CASE rows[t] # "matched"
    BY <2>1 DEF Noted, Kept
  <2>2. CASE rows[t] = "matched"
    <3>1. PICK u \in Turns \ {t} : /\ rows[u] = "unanswered"
                                   /\ turn[u].request.fact = turn[t].request.fact
      BY <2>2 DEF Noted, Found
    <3>2. turn[u].pc \in Stored /\ Kept(u)
      BY <3>1 DEF Noted
    <3>3. turn[u].pc = "ok" => items[u] # "none" \/ turn[u].unlearned
      BY <3>1, <3>2 DEF Kept
    <3> QED BY <2>2, <3>1, <3>2, <3>3 DEF Running, Over, Stored
  <2> QED BY <2>1, <2>2
<1> QED BY <1>1, Invariance, NotedAlways, PTL
=============================================================================
