--------------------------- MODULE AssistantTurn ---------------------------
(***************************************************************************)
(* What a call of agent-api does around the model (services/chat.py): a    *)
(* forced tool command or a planning pass, the policy, the tool call, the  *)
(* answer, the transcript, the audits of the recall and of the tool, and   *)
(* the memory that the turn leaves.  Turns run on threads of their own and *)
(* share the memory and the household file.                                *)
(*                                                                         *)
(* Modelled elsewhere: which conversation a turn belongs to (ChatTurns),   *)
(* the answer to a pending confirmation (Confirmation), the ingress cache  *)
(* (TelegramUpdates) and the inside of a Spotify call (SpotifyClient, of   *)
(* which this module knows what ToolAdapter promises).                     *)
(***************************************************************************)
EXTENDS ToolCatalog, MemoryItems

CONSTANTS
  Turns,           \* calls of chat completions and transcriptions
  Requests,        \* Requests[t]: the requests that turn t may be
  Deployments,     \* the settings at the start, and the household file
  Households,      \* what the household file may be changed to
  Planned,         \* tools that the model asks for
  Old,             \* a memory item from earlier
  MaxFaults,       \* bound: failures of services, and crashes
  MaxEdits,        \* bound: changes of the household file
  MaxForgets       \* bound: changes of an item's status

VARIABLES
  deployment,      \* Settings and the household file of the moment
  items,           \* memory_items by the turn whose message they hold
  rows,            \* rows[t]: how t's question stands in the transcript
  turn,            \* turn[t]: what t is doing
  faults, edits, forgets  \* so far

vars == <<deployment, items, rows, turn, faults, edits, forgets>>

NoTool == "none"

(* A request: its metadata.source, metadata.web_search, the tool that a    *)
(* Telegram command forces, whether the alias or playlist it is about      *)
(* exists, whether its answer is streamed, whether it is a dictation, and  *)
(* what it says: a fact worth remembering or NoFact.  A client that is not *)
(* bound repeats what is unanswered as a part of its history.              *)
NoFact == "nothing"

Request == [source : Source, search : {"absent", "yes", "no"},
            forced : HouseholdTools \union {NoTool}, known : BOOLEAN,
            streamed : BOOLEAN, dictated : BOOLEAN, bound : BOOLEAN,
            fact : {NoFact, "fact"}]

NoRequest == [source |-> "agent_api", search |-> "absent", forced |-> NoTool,
              known |-> TRUE, streamed |-> FALSE, dictated |-> FALSE,
              bound |-> FALSE, fact |-> NoFact]

(* _extract_forced_tool_decision honours a forced tool under one source    *)
(* only.  That source need not force one: with no known tool's name in its *)
(* metadata a request goes the way of the others, planning included.       *)
ASSUME TurnAssumption ==
  /\ Old \notin Turns
  /\ {MaxFaults, MaxEdits, MaxForgets} \subseteq Nat
  /\ Deployments \subseteq Deployment
  /\ Households \subseteq {"none", "demo", "real", "invalid"}
  /\ Planned \subseteq Tool
  /\ \A t \in Turns : \A r \in Requests[t] :
       r \in Request /\ (r.forced # NoTool => r.source = "telegram_command")

(* A thread.  plans: the planner had something to offer; promised: the     *)
(* household mode that a forced send was resolved in; record: the status   *)
(* of tool_context.execution; caught: an APIError still finds the handler  *)
(* of the runtime failures; failing: it has found it.  The rest is history:*)
(* the household changed, the items forgotten before, and what kept the    *)
(* turn from recording (lost) or from remembering (unlearned).             *)
Idle == [pc |-> "idle", request |-> NoRequest, plans |-> FALSE, tool |-> NoTool,
         promised |-> "none", recall |-> "none", hits |-> {},
         record |-> "none", demo |-> FALSE, done |-> 0, caught |-> FALSE,
         failing |-> FALSE, reply |-> "none", audit |-> "none",
         edited |-> FALSE, gone |-> {}, lost |-> FALSE, unlearned |-> FALSE]

Over(k) == k.pc \in {"ok", "error"}
Running(k) == k.pc # "idle" /\ ~Over(k)

(* The thread is gone, and what it had in its hands.                       *)
End(k, pc) == [k EXCEPT !.pc = pc, !.plans = FALSE, !.promised = "none",
                        !.recall = "none", !.hits = {}, !.record = "none",
                        !.caught = FALSE, !.failing = FALSE, !.gone = {}]

(* The client gets an error, whatever was prepared for it.                 *)
Errs(k) == End([k EXCEPT !.reply = "error"], "error")

(* ... and neither a turn nor an audit is written.                         *)
Vanishes(k) == Errs([k EXCEPT !.lost = TRUE])

Goes(k, pc) == [k EXCEPT !.pc = pc]

(* Mutant: the failure is stored under the handler that it came from.      *)
FailsCaught(k) == [k EXCEPT !.pc = "persist", !.failing = TRUE]

(* An APIError inside create_chat_completion's try.                        *)
Fails(k) == [k EXCEPT !.pc = "persist", !.failing = TRUE, !.caught = FALSE]

Becomes(t, k) == turn' = [turn EXCEPT ![t] = k]

Fault == faults < MaxFaults /\ faults' = faults + 1

At(t, pc) == turn[t].pc = pc

Streamed(t) == turn[t].request.streamed

Forced(t) == turn[t].request.forced # NoTool

-----------------------------------------------------------------------------
Init ==
  /\ deployment \in Deployments
  /\ items = [i \in Turns \union {Old} |-> IF i = Old THEN "active" ELSE "none"]
  /\ rows = [t \in Turns |-> "none"]
  /\ turn = [t \in Turns |-> Idle]
  /\ faults = 0 /\ edits = 0 /\ forgets = 0

Forgotten == {i \in DOMAIN items : items[i] \in {"invalidated", "deleted"}}

(* Where a request goes first: the route of a dictation stores what it     *)
(* heard; a command is run at once; the others recall.                     *)
First(r) == CASE r.dictated                        -> "persist"
              [] ~r.dictated /\ r.forced # NoTool -> "command"
              [] OTHER                             -> "recall"

(* A request arrives.  ChatService.__init__ reads the household.           *)
Begin(t) ==
  /\ At(t, "idle")
  /\ \E r \in Requests[t] :
       LET k == [Idle EXCEPT !.request = r, !.gone = Forgotten,
                             !.plans = Offered(deployment) # {}]
       IN  Becomes(t, IF HouseholdRaises(deployment) /\ ~r.dictated
                      THEN Errs(k) ELSE Goes(k, First(r)))
  /\ UNCHANGED <<deployment, items, rows, faults, edits, forgets>>

(* Speech recognition, the ingress cache, or prepare_conversation (of a    *)
(* command, of a stream, or to look for a pending confirmation) fails      *)
(* before anything is done.                                                *)
BeginFails(t) ==
  /\ At(t, "idle") /\ Fault
  /\ \E r \in Requests[t] :
       /\ r.dictated \/ r.streamed \/ r.bound \/ r.forced # NoTool
       /\ Becomes(t, Errs([Idle EXCEPT !.request = r]))
  /\ UNCHANGED <<deployment, items, rows, edits, forgets>>

(* _maybe_handle_forced_tool_command: the alias of a /send is resolved     *)
(* before the policy is asked, in the household of that moment.            *)
Command(t) ==
  /\ At(t, "command")
  /\ LET k == [turn[t] EXCEPT !.tool = turn[t].request.forced]
         send == k.tool = "telegram-send"
     IN  Becomes(t,
           CASE send /\ HouseholdRaises(deployment) -> Errs(k)
             [] send /\ ~HouseholdRaises(deployment)
                     /\ (deployment.household = "none" \/ ~k.request.known) ->
                  [k EXCEPT !.pc = "persist", !.record = "failed",
                            !.reply = "unknown_alias"]
             [] OTHER -> [k EXCEPT !.pc = "policy",
                            !.promised = IF send THEN deployment.household ELSE @])
  /\ UNCHANGED <<deployment, items, rows, faults, edits, forgets>>

(* MemoryService.prepare_context: no failure of it is raised.              *)
Recall(t) ==
  /\ At(t, "recall")
  /\ \/ /\ ~deployment.memory
        /\ Becomes(t, Goes(turn[t], "plan"))
        /\ UNCHANGED faults
     \/ /\ deployment.memory
        /\ \E hits \in Retrievals(items) :
             Becomes(t, [turn[t] EXCEPT !.pc = "plan", !.recall = "completed",
                                        !.hits = hits])
        /\ UNCHANGED faults
     \/ /\ deployment.memory /\ Fault
        /\ Becomes(t, [turn[t] EXCEPT !.pc = "plan", !.recall = "error"])
  /\ UNCHANGED <<deployment, items, rows, edits, forgets>>

(* should_attempt_model_driven_tool_use.                                   *)
Plans(k) == k.request.search = "absent" /\ k.plans

(* The answer of the planning pass, or of the call itself: a result that a *)
(* stream only replays is stored outside the try, the other inside.        *)
Answered(k, reply) == [k EXCEPT !.pc = "persist", !.reply = reply,
                                !.caught = ~k.request.streamed]

(* metadata.web_search decides without the model; without anything to      *)
(* offer there is no planning pass.                                        *)
SkipPlan(t) ==
  /\ At(t, "plan") /\ ~Plans(turn[t])
  /\ Becomes(t, IF turn[t].request.search = "yes"
                THEN [turn[t] EXCEPT !.pc = "policy", !.tool = "web-search"]
                ELSE Goes(turn[t], "answer"))
  /\ UNCHANGED <<deployment, items, rows, faults, edits, forgets>>

PlanAnswers(t) ==
  /\ At(t, "plan") /\ Plans(turn[t])
  /\ Becomes(t, Answered(turn[t], "text"))
  /\ UNCHANGED <<deployment, items, rows, faults, edits, forgets>>

PlanTool(t) ==
  /\ At(t, "plan") /\ Plans(turn[t])
  /\ \E tool \in Planned :
       /\ tool = "telegram-send" => turn[t].request.source # "agent_api"
       /\ Becomes(t, [turn[t] EXCEPT !.pc = "policy", !.tool = tool])
  /\ UNCHANGED <<deployment, items, rows, faults, edits, forgets>>

PlanFails(t) ==
  /\ At(t, "plan") /\ Plans(turn[t]) /\ Fault
  /\ Becomes(t, Fails(turn[t]))
  /\ UNCHANGED <<deployment, items, rows, edits, forgets>>

(* _create_pending_telegram_send_confirmation: the send is put to the user.*)
(* Its prepare_conversation or its row may fail.                           *)
AskFirst(t) ==
  /\ At(t, "plan") /\ Plans(turn[t])
  /\ "telegram-send" \in Planned /\ turn[t].request.source = "agent_api"
  /\ LET k == [turn[t] EXCEPT !.tool = "telegram-send"]
     IN \/ /\ HouseholdRaises(deployment)
           /\ Becomes(t, Errs(k)) /\ UNCHANGED faults
        \/ /\ ~HouseholdRaises(deployment)
           /\ IF SendState(deployment) = "unconfigured" \/ ~k.request.known
              THEN Becomes(t, Answered([k EXCEPT !.record = "failed"], "cannot_send"))
              ELSE Becomes(t, Answered([k EXCEPT !.record = "pending_confirmation"],
                                       "shall_i"))
           /\ UNCHANGED faults
        \/ Fault /\ Becomes(t, Fails(k))
  /\ UNCHANGED <<deployment, items, rows, edits, forgets>>

-----------------------------------------------------------------------------
(* Mutant: the answer to /send does not look at the household's mode.      *)
ReplyForAnyMode(k, status) ==
  CASE ~(status = "completed")             -> "unavailable"
    [] status = "completed" /\ k.tool = "telegram-list-aliases" -> "aliases"
    [] OTHER                               -> "sent"

(* What a command answers, from the status of its record and the household *)
(* mode that it was resolved in.                                           *)
ReplyFor(k, status) ==
  CASE ~(status = "completed")             -> "unavailable"
    [] status = "completed" /\ k.tool = "telegram-list-aliases" -> "aliases"
    [] OTHER -> IF k.promised = "demo" THEN "demo" ELSE "sent"

(* The executor is done: a command answers at once, the others ask the     *)
(* model once more, with the results or with a note of the failure.        *)
Executed(k, outcome) ==
  LET told == [k EXCEPT !.record = outcome.status, !.demo = outcome.demo,
                        !.done = outcome.done]
  IN  CASE outcome.status = "RuntimeError" -> Errs(k)
        [] outcome.status = "APIError"     -> Fails(k)
        [] outcome.status \in {"completed", "failed"} /\ k.request.forced # NoTool ->
             [told EXCEPT !.pc = "persist", !.reply = ReplyFor(k, outcome.status)]
        [] OTHER -> Goes(told, "answer")

(* ToolPolicyEngine.evaluate reads the household once more.                *)
Policy(t) ==
  /\ At(t, "policy")
  /\ LET k == turn[t]
         source == k.request.source
     IN  Becomes(t,
           CASE /\ AllowedFrom(source, k.tool) /\ k.tool \in HouseholdTools
                /\ HouseholdRaises(deployment)       -> Errs(k)
             [] Allowed(deployment, source, k.tool)
                  /\ ~(k.tool \in HouseholdTools /\ HouseholdRaises(deployment)) ->
                  Goes(k, "call")
             [] OTHER                                -> Executed(k, Failed))
  /\ UNCHANGED <<deployment, items, rows, faults, edits, forgets>>

Call(t) ==
  /\ At(t, "call")
  /\ \E outcome \in Outcomes(deployment, turn[t].tool, turn[t].request.known) :
       Becomes(t, Executed(turn[t], outcome))
  /\ UNCHANGED <<deployment, items, rows, faults, edits, forgets>>

(* The model's final answer: complete, or the first chunk of a stream,     *)
(* whose turn is stored inside the handler of its failures.                *)
Answer(t) ==
  /\ At(t, "answer")
  /\ Becomes(t, [turn[t] EXCEPT !.pc = "persist", !.reply = "text",
                                !.caught = Streamed(t)])
  /\ UNCHANGED <<deployment, items, rows, faults, edits, forgets>>

AnswerFails(t) ==
  /\ At(t, "answer") /\ Fault
  /\ Becomes(t, Fails(turn[t]))
  /\ UNCHANGED <<deployment, items, rows, edits, forgets>>

(* next(stream) finds no chunk: the APIError made of StopIteration is not  *)
(* seen by the handler beside it.                                          *)
EmptyStream(t) ==
  /\ At(t, "answer") /\ Streamed(t) /\ Fault
  /\ Becomes(t, Vanishes(turn[t]))
  /\ UNCHANGED <<deployment, items, rows, edits, forgets>>

(* A stream that breaks off or ends without a last chunk, after its first. *)
StreamBreaks(t) ==
  /\ At(t, "persist") /\ Streamed(t) /\ turn[t].caught /\ Fault
  /\ Becomes(t, Fails(turn[t]))
  /\ UNCHANGED <<deployment, items, rows, edits, forgets>>

(* The client goes away between two chunks: the generator is closed.       *)
Disconnect(t) ==
  /\ At(t, "persist") /\ Streamed(t) /\ ~turn[t].failing /\ Fault
  /\ Becomes(t, Vanishes(turn[t]))
  /\ UNCHANGED <<deployment, items, rows, edits, forgets>>

-----------------------------------------------------------------------------
(* The question is in the transcript already, unanswered, left there by a  *)
(* turn that failed or by the dictation of it: no new message then, if the *)
(* client sends its history.  A bound conversation is found as well if     *)
(* nothing else is in it; a stream looked before it began to answer.       *)
Unanswered(t, u) ==
  u # t /\ rows[u] = "unanswered" /\ turn[u].request.fact = turn[t].request.fact

Repeats(t) == ~turn[t].request.bound /\ ~turn[t].request.dictated

MayMatch(t) == Repeats(t) /\ \E u \in Turns : Unanswered(t, u)

MustMatch(t) ==
  /\ Repeats(t) /\ ~Streamed(t)
  /\ \E u \in Turns : Unanswered(t, u) /\ ~turn[u].request.bound

RowsOf(t) ==
  {row \in {"matched"} : MayMatch(t)}
    \union {row \in {IF turn[t].failing \/ turn[t].request.dictated
                      THEN "unanswered" ELSE "answered"} : ~MustMatch(t)}

(* record_successful_completion, record_failed_completion or               *)
(* record_transcription.  The last has no audits.                          *)
Persist(t) ==
  /\ At(t, "persist")
  /\ \E row \in RowsOf(t) : rows' = [rows EXCEPT ![t] = row]
  /\ Becomes(t, [turn[t] EXCEPT !.caught = FALSE,
                   !.pc = IF turn[t].request.dictated THEN "store" ELSE "audit_recall"])
  /\ UNCHANGED <<deployment, items, faults, edits, forgets>>

(* Mutant: the tool context is lost with the result that was not stored.   *)
UnstoredForgotten(k) ==
  IF k.caught THEN [Fails(k) EXCEPT !.record = "none"] ELSE Vanishes(k)

(* The database fails.  A result stored inside the try is stored again as  *)
(* a failure (with the tool context of the try: a planning answer and a    *)
(* request for confirmation are not in it); otherwise nothing is left, and *)
(* without the failed turn's row the audits are skipped.                   *)
Unstored(k) ==
  IF k.caught
  THEN [Fails(k) EXCEPT !.record = IF k.request.streamed THEN @ ELSE "none"]
  ELSE Vanishes(k)

PersistFails(t) ==
  /\ At(t, "persist") /\ Fault
  /\ Becomes(t, Unstored(turn[t]))
  /\ UNCHANGED <<deployment, items, rows, edits, forgets>>

(* MemoryService.record_retrieval: a failure is swallowed, and changes     *)
(* nothing for the tool's audit.                                           *)
AuditRecall(t) ==
  /\ At(t, "audit_recall")
  /\ UNCHANGED faults \/ (turn[t].recall # "none" /\ Fault)
  /\ Becomes(t, [turn[t] EXCEPT !.pc = "audit_tool", !.hits = {}])
  /\ UNCHANGED <<deployment, items, rows, edits, forgets>>

(* After the audits a failed turn answers its error; the other remembers.  *)
Audited(k) == IF k.failing THEN Errs(k) ELSE Goes(k, "store")

(* _record_tool_execution: the row has the status of the record.           *)
AuditTool(t) ==
  /\ At(t, "audit_tool")
  /\ Becomes(t, Audited([turn[t] EXCEPT !.audit = turn[t].record]))
  /\ UNCHANGED <<deployment, items, rows, faults, edits, forgets>>

(* ... or it is not written, and that is swallowed as well.                *)
AuditFails(t) ==
  /\ At(t, "audit_tool") /\ turn[t].record # "none" /\ Fault
  /\ Becomes(t, Audited([turn[t] EXCEPT !.lost = TRUE]))
  /\ UNCHANGED <<deployment, items, rows, edits, forgets>>

(* The user message that the turn added to the transcript.                 *)
Message(t) == [source  |-> IF turn[t].request.dictated THEN "audio_transcription"
                           ELSE "request_transcript",
               durable |-> turn[t].request.fact # NoFact]

Memorable(t) == deployment.memory /\ rows[t] # "matched" /\ Candidate(Message(t))

(* store_persisted_messages: embed the candidates, insert their items.     *)
Store(t) ==
  /\ At(t, "store")
  /\ items' = IF Memorable(t) THEN Remembered(items, t) ELSE items
  /\ Becomes(t, End(turn[t], "ok"))
  /\ UNCHANGED <<deployment, rows, faults, edits, forgets>>

StoreFails(t) ==
  /\ At(t, "store") /\ Memorable(t) /\ Fault
  /\ Becomes(t, End([turn[t] EXCEPT !.unlearned = TRUE], "ok"))
  /\ UNCHANGED <<deployment, items, rows, edits, forgets>>

-----------------------------------------------------------------------------
(* MemoryLifecycleService.invalidate_item, delete_item.                    *)
Forget ==
  /\ \E i \in DOMAIN items, to \in {"invalidated", "deleted"} :
       items' = Transitioned(items, i, to) /\ items' # items
  /\ forgets < MaxForgets /\ forgets' = forgets + 1
  /\ UNCHANGED <<deployment, rows, turn, faults, edits>>

(* Somebody edits, creates or removes the household file.                  *)
EditHousehold ==
  /\ edits < MaxEdits /\ edits' = edits + 1
  /\ \E h \in Households \ {deployment.household} :
       deployment' = [deployment EXCEPT !.household = h]
  /\ turn' = [t \in Turns |-> IF Running(turn[t])
                              THEN [turn[t] EXCEPT !.edited = TRUE] ELSE turn[t]]
  /\ UNCHANGED <<items, rows, faults, forgets>>

(* agent-api stops; what ran is gone.                                      *)
Crash ==
  /\ Fault
  /\ \E t \in Turns : Running(turn[t])
  /\ turn' = [t \in Turns |-> IF Running(turn[t]) THEN Vanishes(turn[t]) ELSE turn[t]]
  /\ UNCHANGED <<deployment, items, rows, edits, forgets>>

Step(t) ==
  \/ Begin(t) \/ BeginFails(t) \/ Command(t) \/ Recall(t)
  \/ SkipPlan(t) \/ PlanAnswers(t) \/ PlanTool(t) \/ PlanFails(t) \/ AskFirst(t)
  \/ Policy(t) \/ Call(t)
  \/ Answer(t) \/ AnswerFails(t) \/ EmptyStream(t) \/ StreamBreaks(t) \/ Disconnect(t)
  \/ Persist(t) \/ PersistFails(t)
  \/ AuditRecall(t) \/ AuditTool(t) \/ AuditFails(t)
  \/ Store(t) \/ StoreFails(t)

AllOver == (\A t \in Turns : Over(turn[t])) /\ UNCHANGED vars

Next == (\E t \in Turns : Step(t)) \/ Forget \/ EditHousehold \/ Crash \/ AllOver

Spec == Init /\ [][Next]_vars

-----------------------------------------------------------------------------
Threads ==
  {"idle", "command", "recall", "plan", "policy", "call", "answer", "persist",
   "audit_recall", "audit_tool", "store", "ok", "error"}

Records == {"none", "completed", "failed", "pending_confirmation"}

(* Type invariant; a turn that is in the try of a stored result has no     *)
(* failure behind it.                                                      *)
TypeOK ==
  /\ deployment \in Deployment
  /\ items \in [Turns \union {Old} -> Status \union {"none"}]
  /\ rows \in [Turns -> {"none", "unanswered", "matched", "answered"}]
  /\ \A t \in Turns :
       /\ turn[t].pc \in Threads /\ turn[t].request \in Request
       /\ turn[t].tool \in Tool \union {NoTool}
       /\ turn[t].record \in Records /\ turn[t].audit \in Records
       /\ turn[t].done \in 0..MaxRetries + 1
       /\ turn[t].hits \subseteq DOMAIN items /\ turn[t].gone \subseteq DOMAIN items
       /\ ~(turn[t].caught /\ turn[t].failing)
  /\ faults \in 0..MaxFaults /\ edits \in 0..MaxEdits /\ forgets \in 0..MaxForgets

(* Whatever a tool did to the world is on record when its turn ends, with  *)
(* an answer or with an error, and the record is no better than the truth: *)
(* "completed" means done (or demo).  Only the database, the end of the    *)
(* process, a client that left its stream or an empty stream lose a record.*)
EffectsAudited ==
  \A t \in Turns : Over(turn[t]) =>
    /\ turn[t].done > 0 => turn[t].audit # "none" \/ turn[t].lost
    /\ turn[t].audit = "completed" /\ turn[t].tool \notin ReadOnly =>
         turn[t].demo = (turn[t].done = 0)

(* A message leaves for a chat by no turn but one whose source says that   *)
(* it is a command: a web client's is put to the user first, and a         *)
(* Telegram chat's question triggers no tool at all.  (The confirmed sends *)
(* are Confirmation's.)  The source is all that chat.py and policy.py go   *)
(* by: under telegram_command a send that the model asks for goes out at   *)
(* once too, when the request forces no known tool.                        *)
SendNeedsCommand ==
  \A t \in Turns : turn[t].done > 0 =>
    /\ turn[t].tool = "telegram-send" => turn[t].request.source = "telegram_command"
    /\ turn[t].request.source # "telegram"

(* /send answers what happened: an alias called unknown is sent nothing,   *)
(* "sent" is sent and a demo sends nothing, but for what an edit of the    *)
(* household file under the command can do: "sent" was a demo by then, or  *)
(* a demo was sent.  A send that failed is never called sent.              *)
ReplyTruthful ==
  \A t \in Turns : Over(turn[t]) =>
    /\ turn[t].reply = "sent" => turn[t].done = 1 \/ (turn[t].edited /\ turn[t].demo)
    /\ turn[t].reply = "demo" => turn[t].done = 0 \/ turn[t].edited
    /\ turn[t].reply = "unknown_alias" => turn[t].done = 0

(* A fact that an answered message or a dictation tells is remembered,     *)
(* unless the embedding or the database failed, or the message was in the  *)
(* transcript already: then the dictation that put it there remembers it,  *)
(* or it was a failed turn, which remembers nothing.                       *)
RememberedUnlessExcused ==
  \A t \in Turns :
    turn[t].pc = "ok" /\ turn[t].request.fact # NoFact /\ deployment.memory =>
      \E u \in Turns :
        /\ u = t \/ (rows[t] = "matched" /\ rows[u] = "unanswered")
        /\ \/ items[u] # "none" \/ turn[u].unlearned
           \/ u # t /\ (Running(turn[u]) \/ turn[u].pc = "error")

(* What was forgotten before a turn began is not recalled in it, and what  *)
(* was not said in an answered or dictated message is not remembered.      *)
ForgottenNotRecalled ==
  /\ \A t \in Turns : turn[t].hits \intersect turn[t].gone = {}
  /\ \A t \in Turns : items[t] # "none" =>
       turn[t].pc = "ok" /\ turn[t].request.fact # NoFact
=============================================================================
