# JasperClaw: a TLA+ model of its state machines

JasperClaw is a self-hosted household assistant: an OpenAI-compatible chat service
(`services/agent-api`), a Telegram bridge with a durable alert outbox
(`services/telegram-ingress`), two speech services, and one PostgreSQL database
that the first two share. This directory holds TLA+ modules of the parts where
the order of things matters, the TLC configurations that check them on small
instances, and proofs that TLAPS checks for instances of every size.

Paths below are relative to the repository; `agent-api/` and `telegram-ingress/`
stand for `services/agent-api/app/` and `services/telegram-ingress/app/`.

## 1. The system

### Components and how they interact

| Component | State | Operations | Talks to |
|---|---|---|---|
| Alert outbox (`telegram-ingress/services/alert_delivery.py`, `modules/alerts/`) | `telegram_alert_deliveries`, `..._targets` | submit, list due, claim, send, record, finalize, escalate | Telegram; `POST /telegram/alerts` callers; a retry loop |
| Alert planner (`modules/alerts/planner.py`) | none | route a payload to chats and text | outbox |
| Webhook bridge (`services/bridge.py`, `modules/webhook/`) | process-local `DedupCache` and limiters; `telegram_ingress_updates` | claim, ask, stage, reply, complete, abandon, release | Telegram, agent-api |
| Ingress completion cache (`agent-api/persistence/ingress_completion_repo.py`) | `ingress_completion_cache` | get, store if absent | chat orchestration |
| Pending confirmations (`agent-api/persistence/pending_confirmation_repo.py`) | `pending_tool_confirmations` | get active, replace, resolve if expected, count a clarification | chat orchestration |
| Chat orchestration (`agent-api/services/chat.py`) | none of its own; one thread per request | complete, stream, forced tools, confirmations | everything below |
| Conversations and transcripts (`agent-api/persistence/conversations_repo.py`, `transcript_repo.py`, `repositories/postgres.py`) | `conversations`, `messages`, `client_conversation_bindings`, `model_runs` | resolve, prepare, record a success, a failure, a dictation | chat orchestration, audio routes |
| Memory (`agent-api/modules/chat/memory.py`, `persistence/memory_repo.py`) | `memory_items`, retrieval audit | store, retrieve, invalidate, delete | Ollama embeddings |
| Tool planning, policy, execution (`agent-api/modules/chat/`) | the audit `tool_executions` | offer, decide, authorise, execute | search, Spotify, Telegram |
| Spotify client (`agent-api/clients/spotify.py`) | a cached token, its expiry and the refresh token, shared by all threads | search, list, play, pause, next, start a station | Spotify |
| Other external clients (`agent-api/clients/`, `telegram-ingress/clients/`) | none | HTTP calls | the outside |
| Speech services | none | transcribe, synthesise | agent-api |
| Migrations (`shared_infra/migrations.py`) | ledger table | apply in order at start | both services |
| Household configuration (`shared_infra/household_config.py`) | a file, read again at each use | load, resolve an alias, report capabilities | tools, bridge |
| Metrics, readiness, scripts, fakes | counters | count, probe | all |

The two services interact in one direction: the bridge calls
`POST /v1/chat/completions` with `metadata.source = "telegram"`, the chat's id and
an idempotency key per update. agent-api sends to Telegram itself when a planned or
forced `telegram-send` is executed. There is no message bus; coordination happens
through rows that one process writes and another reads later.

### What is hard

* **Interleaving.** agent-api serves each request in a thread, the bridge runs
  handlers as coroutines that interleave at every HTTP call, and each repository
  call is a transaction of its own at READ COMMITTED. A handler acts on rows it read
  one or more awaits earlier.
* **Crashes and storage failures** between a send and its record, between the two
  transactions that close an alert, between a confirmation's `executing` and its
  settlement.
* **Ambiguous outcomes.** A `sendMessage` or agent-api call that times out may have
  happened; the run behind a timed-out call goes on.
* **Leases.** The outbox and the update table lock rows by timestamp only. Nothing
  stops a worker whose lease has run out.
* **Redelivery.** Telegram repeats an update until it gets a 200, callers repeat
  submissions, users repeat "yes".
* **Identity by content.** A conversation may be found by comparing its whole
  transcript with what a client sends.
* **Swallowed failures.** The audits of a recall and of a tool, and the memory of a
  turn, may each fail without the turn failing; whether a failed turn is stored at all
  depends on which `try` the failure is raised in.
* **Unlocked shared fields.** One Spotify client serves every thread. Its token, its
  expiry and its refresh token are assigned one after the other, and a refresh may
  revoke the token that another thread is about to send.
* **Configuration that changes under a turn.** The household file is read by the
  planner, the resolver, the policy and the executor, each time anew.

`PROJECT.json` lists the hazards one by one, each at its line, with the properties
that watch it or the reason why none does.

### What makes each part correct

* *Outbox*: at-least-once per recipient, nothing accepted is forgotten, `completed`
  means everybody was reached, what is recorded is not sent again, attempts stay in
  budget, a `retry_after` that was not lost is honoured, an escalation names a cause
  that there was.
* *Planner*: every chat is told exactly what is routed to it, a graver alert reaches
  whom a lesser one does, and a relay that is ready drops only what its groups exclude.
* *Bridge and cache*: one handler per update, one answer per message, no
  acknowledgement without an answer, no repeated work once an answer is cached.
* *Confirmations*: single-use tokens, at most one armed; only the right source
  confirms; whatever was put aside never sends.
* *Conversations*: a turn extends the history that its client has seen; messages are
  numbered without gaps; a session binding never moves.
* *Memory*: what is forgotten is not retrieved; a fact that was said and answered is
  stored, unless something failed.
* *Tools*: no side effect that the source is not allowed; what is offered
  is what is allowed, and what is allowed can be called; whatever was done is on
  record, and what a user is told of it is true.
* *Spotify client*: a command is repeated only when its answer was lost; a rotated
  refresh token is not lost; a stale token costs a renewal, not a failure; every call
  ends.
* *Migrations*: each version is applied once, in order.

## 2. Modules

| Module | What it is |
|---|---|
| `AlertDelivery` | the outbox: handlers, retry loops, rows, Telegram, faults, time |
| `AlertOutbox` | its contract, without leases, workers or retries |
| `AlertDeliveryProofs` | proofs about `AlertDelivery`, whether or not leases are kept |
| `AlertLeaseProofs` | proofs about `AlertDelivery` inside the leases, the refinement included |
| `AlertPlanner` | whom an alert goes to, and whether the relay takes it, as operators, with theorems about them |
| `Confirmation` | pending confirmations of one conversation |
| `SendToken` | their contract: single-use tokens |
| `ConfirmationProofs` | proofs about `Confirmation`, the refinement included |
| `TelegramUpdates` | the bridge composed with agent-api's ingress cache and `/send` |
| `TelegramUpdatesProofs` | proofs about it |
| `ChatTurns` | conversations, bindings and transcripts under concurrent turns |
| `ChatTurnsProofs` | proofs about it |
| `AssistantTurn` | what a turn does around the model: tools, recall, audits, memory |
| `ToolCatalog` | the tools as functions of the deployment: offered, parsed, allowed, executed |
| `MemoryItems` | the rules of the memory, as operators |
| `AssistantTurnProofs` | proofs about the three |
| `SpotifyClient` | the Spotify adapter under concurrent calls |
| `SpotifyClientProofs` | proofs about it, the refinement included |
| `ToolAdapter` | what an adapter promises the turn that calls it |
| `*MC` | model values, sets and symmetries for TLC |

`AlertOutbox`, `SendToken` and `ToolAdapter` are instantiated inside the modules that
implement them (`Contract`, `Tokens`, `Adapter`), with the refinement mapping in the `INSTANCE ... WITH`.

Definitions called "mutant" stand next to the definition they distort. No run uses
them; they record, for every property, a plausible error in the code that the
property would notice.

### AlertDelivery

A worker is an HTTP handler (`Request`) or a retry loop (`Retrier`), with its program
counter, the batch it has still to visit, the snapshot of targets it has still to
send to (`todo`) and the attempt it has not yet recorded. A delivery is named by the
request that created it.

| Action | Code |
|---|---|
| `Submit`, `SubmitFails` | `enqueue_delivery`, with the idempotency key and its conflict |
| `ListDue` | `process_due_deliveries` reads the due ids, at most `Limit` of them (`Batch`) |
| `Claim` | `claim_delivery`, or the reload when the claim is refused |
| `Send` | one `sendMessage`, in the order of the claimed targets |
| `Record` | `record_target_attempt`: counts, exhausts the budget, postpones the delivery |
| `Finalize` | `finalize_delivery`: spent budgets, aggregation, timestamps |
| `Escalate` | `_maybe_escalate_delivery`, `mark_delivery_escalated` |
| `StorageFails`, `Crash` | a transaction raises, the process ends; a wait that was not recorded is gone (`Forgets`) |
| `Tick` | wall-clock time |

`sends`, `reached`, `refused`, `cool` and `lost` are history: the calls, who got the
message, who finally refused it, how long Telegram asked to be left alone (from the
moment of its answer), and which of these waits were lost with a worker.

Timestamps are countdowns; `None` is SQL's `NULL`. `Timely` says whether a worker may
outlive its lease. The code bounds a fanout's length nowhere (30 s of lease against
5 s per message), so both values are checked, each with the properties that hold.

### AlertPlanner

`Deliveries` is `plan_delivery`: a direct text for the manual group, or for each chat
the lines of the alerts that match (`Matches`) and are routed to it by severity
(`Routed`). `Response` adds the guards of `telegram_alerts` and `submit_alert` before
the outbox: refused (503), not let in (401), ignored, submitted. `AlertDeliveryMC` checks that the
chats of its deliveries are those of a plan.

### Confirmation

`Lookup` is a request's arrival and its read of the active row, unless it does not look
for one (no hint and no binding, or no user's message); `Verdict` are the
branches of `_maybe_handle_pending_confirmation` on what it read. `Expire`,
`Cancel`, `Interrupt`, `Clarify`, `Confirm`, `Execute`, `Settle` are the transactions
and the tool call that follow, `Plan` and `Create` the planning pass, `Fail` a storage
error or the end of the process. `Resolve` is the compare-and-set that all of them
rely on. A row is named by the request that created it.

### TelegramUpdates

A handler is one execution of `process_update`. The bridge's repository is
synchronous, so what runs between two awaits is one step: `Receive` (dedup, claim,
limiters, routing), `Ask`, `Hear`, `Stage`, `Reply`, `Finish`, `Abandon`, `Answer`.
A `run` is one execution of `create_chat_completion`: `Load`, `Work`, `Store`. It
outlives the handler that gave up on it. With `Webhook`, a restart drops pending
updates, as `set_webhook` asks Telegram to; without, one handler polls.

### ChatTurns

`Begin` is a call and, if the call is prepared, the reads of `prepare_conversation`;
`Prepare` its writes. `Look` reads for `record_successful_completion`,
`record_failed_completion` or `record_transcription`; `Commit` writes, or fails.
`NotStored` is what happens to a turn that could not be stored, `Streamed` an answer
that reached the client and not the transcript. A bound client (a Telegram chat)
sends its newest message only; an unbound one sends its `screen`, with or without the
`X-Conversation-ID` it got last. `recent` keeps the order of `updated_at`, `messages`
the rows in the order of their insertion; `Transcript` reads them as `load_transcript`
does, by index.
`mixed` is a history variable: the conversations written to by a bound client, or by
a turn whose view of the transcript was out of date. They are outside
`TurnExtendsTranscript` and the theorem `NoGaps`: the code takes no lock, and a bound
client's request is not the history.

### AssistantTurn, with ToolCatalog and MemoryItems

A turn is a call of `create_chat_completion`, `create_streaming_chat_completion` or of the
dictation route, on a thread of its own. Its program counter follows `chat.py`:

| Action | Code |
|---|---|
| `Begin`, `BeginFails` | the request arrives; `ChatService.__init__` reads the household; the preparation of a command, a stream or a bound request, the ingress cache, or speech recognition fails |
| `Command` | `_maybe_handle_forced_tool_command` up to the policy: the alias of a `/send` |
| `Recall` | `MemoryService.prepare_context`, whose failures are swallowed |
| `SkipPlan`, `PlanAnswers`, `PlanTool`, `PlanFails` | `should_attempt_model_driven_tool_use` and the planning pass |
| `AskFirst` | `_create_pending_telegram_send_confirmation`, for a planned send of the web |
| `Policy`, `Call` | `ToolExecutor.execute`: `ToolPolicyEngine.evaluate`, the handler |
| `Answer`, `AnswerFails`, `EmptyStream`, `StreamBreaks`, `Disconnect` | the model's answer, complete or streamed |
| `Persist`, `PersistFails` | the success, failure or dictation is stored, or is not |
| `AuditRecall`, `AuditTool`, `AuditFails` | `record_retrieval`, `_record_tool_execution` |
| `Store`, `StoreFails` | `store_persisted_messages`, whose failures are swallowed |
| `Forget`, `EditHousehold`, `Crash` | `MemoryLifecycleService`; somebody edits the file; the process ends |

`caught` says whether an `APIError` of the moment still finds the handler that stores
a failed turn: it does for a complete answer inside the `try`, not for a result that a
stream only replays, and never twice. `deployment` is `Settings` and the household
file. A forced tool is honoured only under the source `telegram_command`; a request of
that source without one is planned for like any other. `RowsOf` says how the question
may end up in the transcript: a client that repeats its history finds it there if it was left
unanswered in an unbound conversation (`MustMatch`), and may find it (`MayMatch`) if the
conversation is bound or if a stream looked before the answer began.
`MemoryLifecycleService` has no caller in the repository besides its tests; `Forget`
stands for the one it is written for.

`ToolCatalog` has the decisions as operators: `Offered` (the prompt), `Decides` and
`Arguments` (the parser), `Needs` (what the executor insists on), `Allowed` (the
policy), `Commands` (what `/help` advertises), `Outcomes` (every branch of every
handler). The turns use `Offered`, `Allowed` and `Outcomes`; that a planned tool has
its arguments is what `DecisionIsExecutable` proves, and why `Call` does not ask.
An outcome of a Spotify command is what `ToolAdapter` permits.

### SpotifyClient

A call is one client method on one thread: its requests in order (`todo`), for each of
them a bearer and a number of attempts.

| Action | Code |
|---|---|
| `Begin` | the method is called |
| `Resolve`, `Return` | `_resolve_token`: the check of the cached token, and the second read of the field that returns it |
| `Grant`, `GrantRefused`, `GrantLost` | `_fetch_refresh_token`, `_fetch_client_credentials_token` and the service's answer |
| `KeepRefresh`, `StoreToken`, `ExtendExpiry` | the three assignments at the end of a grant |
| `Carried`, `Unusable`, `Refused`, `Forbidden`, `Broken`, `Lost`, `SendEmpty` | `_perform_request`, by outcome |
| `Clear`, `ClearExpiry` | the two assignments that drop a refused token |
| `Expire`, `Revoke` | the clock; Spotify drops an access token |

`performed` and `lost` count how often Spotify carried out the request that the caller
asked for, and how many of those answers were lost; `hurt` and `alone` say whether
anything outside failed during the call and whether another call overlapped it.
Threads interleave between any two of these steps, so a token may be cleared between
the check and its second read (an empty bearer), or a newer token be cleared for the
refusal of an older one; the properties say what survives of that.

## 3. Runs

| Run | Module, cfg | Instance | Checks | States |
|---|---|---|---|---|
| `alert_lease` | `AlertDeliveryMC`, `AlertLease.cfg` | 2 submissions of one key, 1 loop, 2 chats, 2 attempts, `retry_after` 0 or 3, 2 faults, `Timely` | `SendBudget`, `LeaseExclusion`, `SentReplyMeansDelivered`, `TerminalIsFinal`, `RecordedNotResent`, `EscalationJustified`, `RetryAfterHonoured`, `ImplementsContract` | 462 k |
| `alert_overrun` | `AlertOverrun.cfg` | 1 submission, 1 loop, 2 chats, 1 fault, leases may be outlived | `TypeOK`, `NothingStranded`, `CompletedMeansDelivered`, `EscalationExplained`, `EveryAlertSettles` | 163 k |
| `alert_slow_worker` | `AlertSlowWorker.cfg` | 1 submission, 1 loop, 2 chats, no fault, leases may be outlived | `RecordedNotResent` fails | |
| `confirmation` | `ConfirmationMC`, `Confirmation.cfg` | 4 requests, 2 source classes, timeout 1 | `TypeOK`, `SentAtMostOnce`, `SentOnlyIfConfirmed`, `PutAsideNeverSent`, `ImplementsTokens` | 131 k |
| `confirmation_cancel` | `ConfirmationCancel.cfg` | 3 requests | `CancelledAnswerHolds` fails | |
| `telegram_webhook` | `TelegramUpdatesMC`, `TelegramWebhook.cfg` | 2 updates, 2 handlers, 3 runs, text and `/send`, 2 faults | `TypeOK`, `OneHandlerPerUpdate`, `OneReplyText`, `AckedMeansAnswered`, `CachedIsNotSentAgain`, `CompletedIsOver` | 901 k |
| `telegram_polling` | `TelegramPolling.cfg` | 1 update of any kind, 1 handler, 3 runs, 2 faults | `EveryUpdateAcked` | 35 k |
| `telegram_send_twice` | `TelegramSendTwice.cfg` | 1 `/send`, 1 fault | `SendOnce` fails | |
| `turns` | `ChatTurnsMC`, `ChatTurns.cfg` | a chat and a web client, 2 turns, 2 conversations, requests of up to 3 messages | `TypeOK`, `TurnExtendsTranscript`, `BindingIsKept` | 727 k |
| `turn_indices` | `TurnIndices.cfg` | 1 chat, 1 turn at a time | `IndicesUnique` fails | |
| `spotify` | `SpotifyClientMC`, `Spotify.cfg` | 2 calls, 1 retry, 1 fault, 1 expiry, with and without credentials, refresh token and rotation | `TypeOK`, `RepeatedOnlyAfterLostAnswer`, `KeepsRotatedToken`, `SucceedsAlone`, `EveryCallEnds`, `ImplementsAdapter` | 544 k |
| `assistant` | `AssistantTurnMC`, `Assistant.cfg` | 2 turns, 10 requests, 3 deployments, 2 faults, 1 edit, 1 item forgotten | `TypeOK`, `EffectsAudited`, `SendNeedsCommand`, `ReplyTruthful`, `RememberedUnlessExcused`, `ForgottenNotRecalled` | 3.5 M |

The four runs whose property fails are disagreements between the code and what the
repository says of it:

1. **A slow worker sends again what is recorded as sent.** `_process_delivery` sends
   to the targets of its claim without looking at the lease or at the rows again;
   `docs/runbooks/telegram.md:134` limits duplicates to the target in flight.
2. **"Cancelled" may be untrue.** The cancel branch ignores whether its
   compare-and-set changed anything.
3. **`/send` may send twice.** A timed-out run is not cancelled, the redelivered
   update starts a second one, and the cache is only written at the end.
4. **Message indices repeat in a Telegram chat.** From its second turn on, the answer
   is stored at index 1, whatever the transcript's length.

Known divergences that no run is kept for, met while modelling:

* *A `retry_after` may be lost.* It becomes durable with the record of the attempt; a
  worker that stops, or whose transaction fails, between the 429 and the record leaves
  a row that is called again as soon as its lease has run out
  (`alert_delivery.py:816`; `docs/runbooks/telegram.md:138`). The ghost `cool` starts
  at the 429 itself, and TLC finds a send during it when the excuse `lost` is dropped
  from `RetryAfterHonoured`; with it, the waits lost in this way are all that is excused.
* *A planned send may go out without a question.* Whether one is put to the user
  depends on `metadata.source` alone. agent-api takes `telegram_command` for the
  user's own command, but plans for such a request if it names no known tool, and the
  policy allows `telegram-send` to that source (`chat.py:243-247`, `:474-478`,
  `:1246-1268`, `policy.py:75`; `docs/features/capability-planning.md:157-162`). That
  it does not happen is a habit of telegram-ingress, which always names the tool. The
  request `Plain` takes this path in the run `assistant`; `SendNeedsCommand` is what
  agent-api itself ensures.
* *The answer to `/send` is that of the first reading of the household file.* An
  edit before the third reading makes "sent" a demo, or the reverse
  (`chat.py:1169`; `docs/features/telegram-send-confirmation.md:408`).
  `ReplyTruthful` says how far the answer can be trusted even so; without its
  `edited` TLC refutes it.
* *A failed delivery may never be escalated.* Status and marker are two transactions
  (`alert_delivery.py:850-907`), and nothing looks at a failed row again.
* *A chat may join another client's conversation.* `conversations_repo.py:72` matches
  the transcript before a binding is created, and a failed turn leaves a one-message
  transcript; `docs/service-contracts/agent-api.md:224` binds a chat to its own.
* *State-changing Spotify tools are retried.* `_perform_request` repeats a timed-out
  request of any method; `docs/service-contracts/tools.md` says that such tools are
  not retried automatically. `RepeatedOnlyAfterLostAnswer` bounds what comes of it.
* *A demo playlist that does not exist fails the turn.* No handler catches the error
  of the name (`executor.py:810`); `docs/features/chat.md:168` degrades instead.
* *A tool's effect may have no audit row*: when the turn's own record fails outside the
  `try`, when a client leaves its stream, and when a stream is empty
  (`EffectsAudited` lists exactly these, with the database and the end of the process);
  `docs/service-contracts/tools.md:148` and `:260` ask for one.
* *A fact said in a failed turn is not remembered when the turn is repeated.* The
  message is in the transcript already, hence not new (`RememberedUnlessExcused`).
* *A stored turn's fact may never be remembered*: a failed embedding is swallowed and a
  crash between turn and memory leaves nothing to retry. `RememberedUnlessExcused`
  excuses both, and covers the rest.
* *Two turns of one conversation may store the same indices.* Both read the transcript
  at READ COMMITTED and append to what they read. `TurnExtendsTranscript` leaves
  such conversations out (`mixed`), as it does those of bound clients.
* *A lost answer may cost the Spotify refresh token.* The retry of a rotating refresh
  repeats the revoked token (`spotify.py:308`); `KeepsRotatedToken` excuses that loss.
* *What is forgotten between a turn's recall and its answer is still used.*
  `ForgottenNotRecalled` speaks of what was forgotten before the turn began.

### Bounds, and why they are enough

* *Two chats, two attempts* are the least with a partial fanout and an exhausted
  budget after a retry; two submissions of one key give the race of a duplicate, and
  a handler against a retry loop is the overlap of two processes. `ClaimTtl` 2 and
  `retry_after` 3 let a lease run out before the backoff does. Liveness is checked
  with one submission, two chats and overrunning leases; the rows of different
  deliveries do not interact, save for the batch that a failure aborts and the limit of
  the due query. For these `NothingStranded` is proved of any number of deliveries and
  any `Limit`. Instances with two deliveries of one chat, one attempt and one fault
  satisfy `EveryAlertSettles` too, with both in one batch (`Limit` 2, 53 thousand
  states) and with one left out of it (`Limit` 1, 39 thousand); they are not kept as
  runs.
* *Four requests* are a plan, two racing confirmations and a second plan, or a
  cancellation in place of any. Two sources are one that matches and one that does
  not.
* *Two updates* show that handlers of different updates are independent; three runs
  are an abandoned one, its retry and one more. Two faults are a crash in the middle
  of the recovery from the first.
* *Three messages* in a request are a question, its answer and a second question, the
  least that can match a stored turn; two conversations allow a wrong match; two
  turns a race. `MaxMessages` stops transactions once more than two messages are
  stored: the turns in flight may still write. In the run the web client waits for an
  answer before it sends more (`Patient`); the instance without that, 5.1 million
  states, satisfies the same properties but takes too long to keep as a run.
* *Two Spotify calls* are the least with a race, and the second has a request before
  its command or reads only. One fault is a lost answer, a revoked token or a refusal
  in the middle of any race; one expiry starts a refresh, a refusal starts another. One retry is a first and a last attempt.
* *Two turns of the assistant*: the first is anything a turn can be; the second repeats
  its fact in another form while it runs, meets what it left in the transcript and in
  the memory, and recalls it. Two faults are a failure and one more while it is being
  recorded. The three deployments are everything configured, demos only, and nothing;
  what differs between all of them is proved of the operators instead. `TopK` 1 and
  one forgotten item show both results of a recall.
* Counters are bounded by guards: `MaxFaults` in `Fault`, `MaxExpiries` in `Expire`,
  `MaxEdits` and `MaxForgets` in `EditHousehold` and `Forget`, `MaxRequest` in `Begin`,
  `MaxMessages` in `Crowded`; `Run`, `Request` and `Conversation` are pools that run
  out. Timers are countdowns and need no bound. Symmetry is used only where no
  liveness is checked and the permuted values are never compared: chats are integers,
  since the order of targets matters, and are not permuted.

`CHECK_DEADLOCK` is on everywhere: clocks tick for ever, a chat's call can
always be made or end, and when all calls are over (`AllOver`) the last two modules
stay there.

### Fairness

`AlertDelivery!Fairness`: each worker's own steps (the event loop runs what is
ready), each retry loop's poll (`run_forever` catches every exception and polls
again), and time. Requests, faults and crashes are not fair. Weak fairness per
worker is enough, since no other worker disables a worker's step for good.

`TelegramUpdates!Fairness`: Telegram offers an open update again and again
(`getUpdates` returns everything after the last confirmed offset), handlers and runs
go on, time passes. It is weak fairness throughout. Liveness is claimed for polling
only: with a webhook, a restart makes Telegram drop what is open.

`SpotifyClient!Spec`: weak fairness of each running call. A thread is scheduled, and
every request has a timeout, so one of the outcomes comes. No call has to begin, no
token has to expire, nothing has to fail; a retry is bounded by the code, not by the
fault budget (the mutant `AfterRefusalUncounted` retries a revoked token for ever, with no
further fault).

## 4. Proofs

All proofs are for arbitrary constants that satisfy the modules' assumptions
(`AlertConstants`, `ConfirmationConstants`, `UpdateConstants`, `TurnConstants`,
`CatalogAssumption`, `MemoryAssumption`, `TurnAssumption`, `SpotifyAssumption`): any
number of requests, updates, turns, workers, recipients and faults, any budgets and
timeouts. The assumptions say what type a constant has, and besides:
`TurnAssumption`, that a forced tool is honoured under one source only;
`SpotifyAssumption`, that finitely many calls are made, each of some method. Two
theorems or groups of theorems have a hypothesis of their own, `Timely` and
`MaxRetries # 0`; both are explained below.

Every invariant, action property and refinement that a run checks is a theorem. Each
inductive invariant was checked by TLC, with the constants of its component's run,
before it was proved.

**`AlertDeliveryProofs`.** `TypeOK`, `NothingStranded`, `CompletedMeansDelivered`,
`SentReplyMeansDelivered`, `EscalationExplained`, whether or not workers keep inside
their leases. None but the first is inductive. `CompletedMeansDelivered`
needs to know that a target marked `sent` was reached (`TargetAt`), which needs to
know that the attempt a worker is about to record was accepted (`Engaged`), also when
a second worker has since written to the same target. `EscalationExplained` (a marker
names a final refusal that Telegram did give, or spent attempts) needs a cause for every
failed target, and that a reason in a worker's hand is never the fallback
`delivery_failed`, which therefore no row ever shows. `Inv` is the conjunction: `TypeOK`, `Engaged` (what each worker may rely
on), `TargetAt` per target, `RowAt` per row. `Grows` states what every step leaves
true of the others' rows, so that `EngagedStays` settles all uninvolved workers at
once; then there is one lemma per action, and `Invariance` combines them.

**`AlertLeaseProofs`**: what the leases are good for. Every theorem assumes `Timely`,
that no worker outlives the lease it sends under; nothing in the code ensures that,
and without it the properties are false (the run `alert_slow_worker` is a
counterexample to one). Proved: `LeaseExclusion`, `SendBudget`, `RetryAfterHonoured`,
`RecordedNotResent`, `TerminalIsFinal`, `EscalationJustified` and `Spec => Contract!Spec`, the refinement of
`AlertOutbox`. `LeaseExclusion` is not inductive: nothing in it says that a delivery
somebody works on cannot be claimed. `LeaseInv` adds `Held`: the row of a worker in
mid-work is `delivering`, its lock has time left, and what the worker has yet to send is
unsent and not in a `retry_after`, so that the guard of `Claim` excludes everybody
else. `Cooling` says that `next_attempt_at` is late enough for each chat that is
waited for, which is what a claim relies on; a worker that has an answer to record
still holds the row, and one that fails instead puts the wait among the `lost`.
`MarkInv` carries `EscalationJustified`: the reason in a worker's hand, like the marker,
is that of a failed row, and nobody else writes to the row before it is marked. `Counted` says
that every call was counted as an attempt, was lost with a fault, or is the one that a
worker is about to record. From `Held` follow the action properties, and that a `Send`
is a step of the contract.

**`ConfirmationProofs`.** `TypeOK`, `SentAtMostOnce`, `SentOnlyIfConfirmed`,
`PutAsideNeverSent`, and `Spec => Tokens!Spec`, the refinement. `Inv` adds `Rows` (a
request's own row exists only when it is done), `Readers` (what a request read is a
row of somebody else, and a confirming request has its source), `Holders` (one
request per row in `executing`, and it has not sent before it executes) and
`Sent` (only a taken row has sent). The refinement maps each action to `Arm`, `Use`,
`Void`, `Send` or a stutter; `StepMoves` and `StepRows` reduce the compare-and-sets to
what they do to a status.

**`TelegramUpdatesProofs`.** `TypeOK`, `OneHandlerPerUpdate`, `OneReplyText`,
`AckedMeansAnswered`, `CompletedIsOver`, `CachedIsNotSentAgain`, with a webhook and
polling. No other handler takes an update over because the row of a busy
handler is locked (`HandlerAt`), and the row says where the handler is: it is still
`processing` until the reply is staged, and has the staged text from then on. `RowAt`
ties the replies to the row: none before one is staged, only the staged one
afterwards, and at least one (`Settled`) by the time the row is completed, the update
is in the dedup cache or Telegram has its 200, unless the update asks for no reply.
`RunAt` types the runs. The steps in which time passes or a process ends touch every
row at once; `Grows` says what the rest may rely on.

**`ChatTurnsProofs`.** `TypeOK`, `TurnExtendsTranscript`, `BindingIsKept`, and
`SequentialIndices` (rows of conversations that are not `mixed` are numbered from 0
without gaps), a part of the invariant that is stated there and that no run checks: an index that
puts rows out of order shows in `TurnExtendsTranscript`, which reads by index. What is proved is proved across the gap between the reads and the
writes of a transaction: `ViewAt` says what stays true of a view that may be out of
date when it is acted on. Its conversation exists still and has lost nothing since;
and if it has gained nothing, its transcript is the beginning of the client's
request, which is what `TurnExtendsTranscript` asks of the turns that are not
`mixed`. `SequentialIndices` is inductive by way of the lemmas about the operators:
new rows are numbered from where the matched history ends (`Appended`), rows that are
numbered like their places are read in the order of insertion (`Ordered`), and the
lists of conversations and messages stay sequences under `Touched`, `Matching`, `Best`.
`BindingIsKept` rests on `Rebound`, `BindingsMade` on the fact that no conversation is
deleted under a binding.

**`SpotifyClientProofs`.** `TypeOK`, `RepeatedOnlyAfterLostAnswer`,
`KeepsRotatedToken`, `SucceedsAlone`, and `Spec => Adapter!Spec`, the refinement of
`ToolAdapter`. `Counted`, of each call by itself, bounds how often a command was carried
out by the attempts and by the lost answers. `Rotation` is about all of them: once the
client has a refresh token, no thread is in the middle of a grant without one, no live
token is an application's, and at most one thread was told of a rotated token and has
not stored it yet. `SucceedsAlone` needs more (`Solo`): what
the fields hold at each step of a call that nothing disturbs, on its first attempt and on
its second, which finds a live bearer. It assumes `MaxRetries # 0`: the renewal after a refusal is
paid for with an attempt (`spotify.py:60` allows a budget of none, the default at
`:51` is one), and with a budget of none a stale token fails the call, as TLC confirms.
The refinement cites `RepeatedOnlyAfterLostAnswer`'s count for what the adapter
promises to the turn.

**`AssistantTurnProofs`, the tools**: theorems about operators, for every deployment, source, tool
and directive. `OfferedIsAllowed`: planner and policy, written apart, agree.
`DecisionIsExecutable`: what the parser lets through has what the executor insists on.
`AdvertisedIsAllowed`: `/help` advertises what the policy allows a command.
`AllowedHasAdapter`: what is allowed finds the adapter object that `api/deps.py` built.
`OutcomesAreHonest`: no branch of the executor reports as completed what was not done;
by cases over the tools, with `CommandedFacts` for those that go through an adapter.
`ForgottenForGood`: no change of an item's status makes it retrievable again.

**`AssistantTurnProofs`, the turns.** `TypeOK`, `EffectsAudited`, `SendNeedsCommand`,
`ReplyTruthful`, `ForgottenNotRecalled`, `RememberedUnlessExcused`, for any turns,
requests, deployments, faults and edits. `Inv` says three things of each thread. `Sound`, of the thread alone:
nothing is done before the call, a message that was sent has the source of a command, what is done has a record that
means it, and a result stored inside the `try` of an unstreamed answer is no tool's
(or its record would be lost there). `Keeps`: until a `/send` is
executed, the household it was resolved in is the current one, unless the file was
edited. `Forgets` and `Learned`: what the thread has seen forgotten stays so, and an
item is there only for an answered message. What a tool call leaves is taken from
`OutcomesAreHonest` (`ExecutedSound`); `Moves` and `Onward` leave of each action of a
turn only what its own thread becomes. `SendNeedsCommand` rests on the policy and on
`AskFirst`'s guard; nothing is assumed of the requests for it. That a message sent under
`telegram_command` was written by the user is not a theorem, since it is not true of
agent-api (section 3, known divergences).
`RememberedUnlessExcused` relates two turns, and has an invariant of its own, `Noted`:
a turn writes its row once, late; an answered fact is an item afterwards or could not
be stored (`Kept`); and whoever found its question in the transcript found the
unanswered row of another turn (`Found`), which no step takes back. The other turn is
then running, has failed, or has kept the fact.

**`AlertPlanner`**: `SeverityOnlyAdds`, `TextsAreExact` and, from the second,
`OnlyMinorAlertsAreDropped`: when a payload is ignored although an alert in it matches,
there is no default group and the alert is below the groups that there are.

**Model-checked only.** Liveness (`EveryAlertSettles`, `EveryUpdateAcked`,
`EveryCallEnds`): fairness and `ENABLED` are beyond the prover. The four properties
that the code violates are refuted by TLC's counterexamples. Between
components, `SpotifyClient` is proved to implement `ToolAdapter`, and `Commanded` in
`ToolCatalog` is read off the latter; that a run of `TelegramUpdates` abstracts a turn of
`AssistantTurn` and of `ChatTurns` is a matter of reading the three.

## 5. Abstractions

* A repository call is one atomic step, except in `ChatTurns`, where its reads and
  writes are two. In particular the three statements of `finalize_delivery` (UPDATE,
  SELECT, UPDATE) are one. Between workers that keep inside their leases nobody else
  writes the row or its targets meanwhile, so nothing is lost by that; for a worker
  that has outlived its lease it leaves out a record of another one in between.
* `load_transcript` orders by index alone; among equal indices the model (`Ordered`)
  returns them in the order of insertion, as PostgreSQL does for rows that are never
  updated.
* Texts are model values; an answer is one value, and of a partial stream as well.
  System messages, models, profiles and the limit of 100 candidate conversations are
  left out, and so are `model_runs`.
* `AssistantTurn` knows of the transcript only whether a question is in it already, by
  what it says; conversations and their matching are `ChatTurns`', the answer to a
  pending confirmation is `Confirmation`'s. Chunks after the first are one.
* An embedding search returns any `TopK` active items: similarity is not modelled.
  Whether a message matches a durable pattern is a property of the message.
* Tokens are numbers; Spotify gives out the least that nobody holds. A malformed
  payload, an error status and a refused grant differ only in what they leave behind.
* A limiter is a nondeterministic refusal. The polling offset is Telegram's forgetting
  of what was answered 200.
* After a refusal a client sends its message again or starts a new chat.
* `telegram-send` is accepted, refused, or accepted with its answer lost.
* `Timely` and the guard of `Tick` in `TelegramUpdates` say that an HTTP call
  ends before the lease it runs under: in the bridge the claim lasts four request
  timeouts and is renewed by `stage_reply`.

Not modelled: migrations; the search, Telegram, Ollama
and speech clients beyond what a call can come to, speech services, the parsing of the
household file, metrics and readiness, scripts and fakes (pure I/O, parsing or test
doubles).

## 6. Plan

Everything that the runs check and that the prover can express is proved. What is
left, in this order:

1. A confirmed send composed with the turn that records it (`chat.py:1377`): the
   message is sent and the row settled when persisting the turn fails.
2. `finalize_delivery` as a read and a write (`alert_delivery.py:498`), to see what of
   `EscalationExplained` needs the two statements to be one.
3. `Migrations`: two services that start together against one ledger.

## 7. Running it

    tlc -workers 2 -config AlertLease.cfg AlertDeliveryMC.tla
    tlapm AlertDeliveryProofs.tla

Each cfg goes with the MC module of its component. The longest runs take about
two minutes on two cores; each proof module takes a few minutes from nothing.
