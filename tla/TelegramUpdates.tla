--------------------------- MODULE TelegramUpdates ---------------------------
(***************************************************************************)
(* How telegram-ingress turns a Telegram update into one reply:            *)
(* services/bridge.py and modules/webhook/reply_pipeline.py over           *)
(* services/update_idempotency.py, together with agent-api's cache of      *)
(* ingress completions (services/chat.py, persistence/                     *)
(* ingress_completion_repo.py), which bridges a retry to the answer of the *)
(* attempt before it.                                                      *)
(*                                                                         *)
(* A handler is one execution of process_update.  The database calls of    *)
(* the bridge block its event loop, so a step of a handler is what runs    *)
(* between two awaits.  agent-api serves each call in a run of its own,    *)
(* which goes on when the handler has given up waiting.  lockIn counts the *)
(* ticks until locked_until has passed (0: it has).                        *)
(***************************************************************************)
EXTENDS Naturals, FiniteSets

CONSTANTS
    Update,    \* Telegram updates, told apart by update_id
    Handler,   \* concurrent executions of process_update: one when polling
    Run,       \* chat completions of agent-api; a run names the text it answers
    None,      \* NULL
    Kinds,     \* the kinds of messages that users send
    Ttl,       \* _claim_ttl_seconds
    Webhook,   \* TRUE: setWebhook; FALSE: getUpdates
    MaxFaults  \* bound on crashes, timeouts and failures in one behaviour

\* text: plain text of a trusted chat.   command: /ask, /aliases.   send: /send.
\* local: /help, /status, usage, strangers.   refused: a command not allowed.
\* unrouted: an allowed command without a route.
Kind == {"text", "command", "send", "local", "refused", "unrouted"}

ASSUME UpdateConstants ==
    /\ Kinds \subseteq Kind
    /\ None \notin Run \cup Kind \cup {"local"}
    /\ "local" \notin Run
    /\ Ttl \in Nat \ {0}
    /\ Webhook \in BOOLEAN
    /\ MaxFaults \in Nat

VARIABLES
    telegram,  \* what Telegram does with each update
    kind,      \* what each update says
    row,       \* telegram_ingress_updates
    seen,      \* DedupCache of the running process
    handler,   \* what each handler is doing
    run,       \* what each run of agent-api is doing
    cache,     \* ingress_completion_cache, by update key
    replies,   \* history: the texts that the chat of each update has received
    quiet,     \* history: updates ignored on purpose
    sent,      \* history: messages that /send has sent to its recipient
    faults     \* history: crashes, timeouts and failures so far

vars == <<telegram, kind, row, seen, handler, run, cache, replies, quiet, sent, faults>>

Text == Run \cup {"local"}

Row == [status : {"absent", "processing", "pending_send", "completed"},
        lockIn : Nat,
        text   : Text \cup {None}]

HandlerState == [pc      : {"idle", "ask", "wait", "abandon", "stage", "reply",
                            "finish", "respond"},
                 update  : Update \cup {None},
                 run     : Run \cup {None},
                 text    : Text \cup {None},
                 release : BOOLEAN,   \* a retryable error unlocks the row
                 ok      : BOOLEAN]   \* 200, or 503

RunState == [pc     : {"idle", "load", "work", "store", "answered", "failed"},
             update : Update \cup {None},
             text   : Text \cup {None}]

Absent  == [status |-> "absent", lockIn |-> 0, text |-> None]
Idle    == [pc |-> "idle", update |-> None, run |-> None, text |-> None,
            release |-> FALSE, ok |-> FALSE]
IdleRun == [pc |-> "idle", update |-> None, text |-> None]

Init ==
    /\ telegram = [u \in Update |-> "unsent"]
    /\ kind     = [u \in Update |-> None]
    /\ row      = [u \in Update |-> Absent]
    /\ seen     = {}
    /\ handler  = [h \in Handler |-> Idle]
    /\ run      = [r \in Run |-> IdleRun]
    /\ cache    = [u \in Update |-> None]
    /\ replies  = [u \in Update |-> {}]
    /\ quiet    = {}
    /\ sent     = [u \in Update |-> 0]
    /\ faults   = 0

Agent    == <<run, cache, sent>>
Messages == <<telegram, kind>>

At(h, pc) == handler[h].pc = pc
Fault     == faults < MaxFaults /\ faults' = faults + 1
NoFault   == faults' = faults

Respond(h, ok) == handler' = [handler EXCEPT ![h].pc = "respond", ![h].ok = ok]
Goto(h, pc)    == handler' = [handler EXCEPT ![h].pc = pc]

-----------------------------------------------------------------------------
(* The repository's statements on one row. *)

\* Mutants of Locked: the lock is not looked at; it never runs out.
NeverLocked(r) == FALSE

LockedForGood(r) == r.status \in {"processing", "pending_send"}

Locked(r) == r.status \in {"processing", "pending_send"} /\ r.lockIn > 0

\* Mutant of Duplicate: the status is not looked at.
NeverDuplicate(r) == FALSE

Duplicate(r) == r.status = "completed"

\* Mutant of Staged: a reclaimed row always starts over.
NothingStaged(r) == FALSE

Staged(r) == r.status = "pending_send"

\* claim_update on a row that is neither completed nor locked.
Claimed(r) ==
    [r EXCEPT !.status = IF @ = "absent" THEN "processing" ELSE @, !.lockIn = Ttl]

\* Mutant of Completed: a status that the table does not know.
CompletedAsSent(r) == [r EXCEPT !.status = "sent", !.lockIn = 0]

Completed(r) == [r EXCEPT !.status = "completed", !.lockIn = 0]

\* abandon_processing deletes the row unless a reply is staged; release_retry
\* unlocks what is left.
Abandoned(r) == IF r.status = "processing" THEN Absent ELSE r

Released(r) ==
    IF r.status \in {"processing", "pending_send"} THEN [r EXCEPT !.lockIn = 0] ELSE r

-----------------------------------------------------------------------------
(* Users and Telegram (external). *)

Post(u, k) ==
    /\ telegram[u] = "unsent"
    /\ telegram' = [telegram EXCEPT ![u] = "open"]
    /\ kind' = [kind EXCEPT ![u] = k]
    /\ UNCHANGED <<row, seen, handler, Agent, replies, quiet, faults>>

\* The response reaches Telegram, which forgets the update if it was a 200, or
\* it is lost and the update stays open.
Answer(h) ==
    LET u == handler[h].update
    IN  /\ At(h, "respond")
        /\ \/ /\ telegram' = IF handler[h].ok /\ telegram[u] = "open"
                             THEN [telegram EXCEPT ![u] = "acked"] ELSE telegram
              /\ NoFault
           \/ handler[h].ok /\ Fault /\ UNCHANGED telegram
        /\ handler' = [handler EXCEPT ![h] = Idle]
        /\ UNCHANGED <<kind, row, seen, Agent, replies, quiet>>

-----------------------------------------------------------------------------
(* process_update. *)

\* The update is answered 200 without a reply, its row completed unless the
\* database refuses.
Ignore(h, u, r) ==
    /\ handler' = [handler EXCEPT ![h] = [Idle EXCEPT !.pc = "respond",
                                                      !.update = u, !.ok = TRUE]]
    /\ quiet' = quiet \cup {u}
    /\ \/ row' = [row EXCEPT ![u] = Completed(r)] /\ seen' = seen \cup {u} /\ NoFault
       \/ row' = [row EXCEPT ![u] = r] /\ seen' = seen /\ Fault

\* What is done with a freshly claimed row: the rate limiters may ignore it,
\* and then it depends on the message.
Route(h, u, r) ==
    LET go(pc, text) ==
          /\ handler' = [handler EXCEPT ![h] =
               [Idle EXCEPT !.pc = pc, !.update = u, !.text = text,
                            !.release = (kind[u] = "text")]]
          /\ row' = [row EXCEPT ![u] = r]
          /\ UNCHANGED <<seen, quiet>>
          /\ NoFault
    IN  \/ Ignore(h, u, r)
        \/ kind[u] \in {"text", "command", "send"} /\ go("ask", None)
        \/ kind[u] = "local" /\ go("stage", "local")
        \/ /\ kind[u] = "unrouted"
           /\ handler' = [handler EXCEPT ![h] = [Idle EXCEPT !.pc = "respond",
                                                             !.update = u, !.ok = TRUE]]
           /\ row' = [row EXCEPT ![u] = r]
           /\ quiet' = quiet \cup {u}
           /\ seen' = seen
           /\ NoFault

\* An open update is delivered, maybe while another handler has it already; the
\* database may refuse the claim.
Receive(h, u) ==
    /\ At(h, "idle")
    /\ telegram[u] = "open"
    /\ LET reply(ok) ==
             /\ handler' = [handler EXCEPT ![h] =
                  [Idle EXCEPT !.pc = "respond", !.update = u, !.ok = ok]]
             /\ UNCHANGED <<row, quiet>>
           unclaimed == ~Duplicate(row[u]) /\ ~Locked(row[u])
       IN  \/ /\ u \in seen \/ Duplicate(row[u])
              /\ reply(TRUE)
              /\ seen' = seen \cup {u}
              /\ NoFault
           \/ u \notin seen /\ Locked(row[u]) /\ reply(FALSE) /\ seen' = seen /\ NoFault
           \/ u \notin seen /\ reply(FALSE) /\ seen' = seen /\ Fault
           \/ /\ u \notin seen /\ unclaimed /\ Staged(row[u])
              /\ handler' = [handler EXCEPT ![h] =
                    [Idle EXCEPT !.pc = "reply", !.update = u, !.text = row[u].text,
                                 !.release = TRUE]]
              /\ row' = [row EXCEPT ![u] = Claimed(@)]
              /\ UNCHANGED <<seen, quiet>>
              /\ NoFault
           \/ /\ u \notin seen /\ unclaimed /\ ~Staged(row[u])
              /\ Route(h, u, Claimed(row[u]))
    /\ UNCHANGED <<Messages, Agent, replies>>

\* The call to agent-api.
Ask(h, r) ==
    /\ At(h, "ask")
    /\ run[r].pc = "idle"
    /\ run' = [run EXCEPT ![r] = [IdleRun EXCEPT !.pc = "load",
                                                 !.update = handler[h].update]]
    /\ handler' = [handler EXCEPT ![h].pc = "wait", ![h].run = r]
    /\ UNCHANGED <<Messages, row, seen, cache, sent, replies, quiet, faults>>

\* agent-api answers, refuses, or does not answer in time.
Hear(h) ==
    LET r == run[handler[h].run]
    IN  /\ At(h, "wait")
        /\ \/ /\ r.pc = "answered"
              /\ handler' = [handler EXCEPT ![h].pc = "stage", ![h].text = r.text]
              /\ NoFault
           \/ r.pc = "failed" /\ Goto(h, "abandon") /\ NoFault
           \/ r.pc \notin {"answered", "failed"} /\ Goto(h, "abandon") /\ Fault
        /\ UNCHANGED <<Messages, row, seen, Agent, replies, quiet>>

\* The handler gives up: the row is deleted (or the database refuses that) and,
\* for a plain text, unlocked; Telegram is asked to try again.
Abandon(h) ==
    LET u == handler[h].update
        after(r) == IF handler[h].release THEN Released(r) ELSE r
    IN  /\ At(h, "abandon")
        /\ \/ /\ row' = [row EXCEPT ![u] = after(Abandoned(@))]
              /\ seen' = seen \ {u}
              /\ NoFault
           \/ row' = [row EXCEPT ![u] = after(@)] /\ seen' = seen /\ Fault
        /\ Respond(h, FALSE)
        /\ UNCHANGED <<Messages, Agent, replies, quiet>>

\* stage_reply: the reply is durable before it is sent.
Stage(h) ==
    LET u == handler[h].update
    IN  /\ At(h, "stage")
        /\ \/ /\ IF row[u].status \in {"processing", "pending_send"}
                 THEN /\ row' = [row EXCEPT ![u] = [status |-> "pending_send",
                                                    lockIn |-> Ttl,
                                                    text   |-> handler[h].text]]
                      /\ Goto(h, "reply")
                 ELSE row' = row /\ Goto(h, "abandon")
              /\ NoFault
           \/ Goto(h, "abandon") /\ row' = row /\ Fault
        /\ UNCHANGED <<Messages, seen, Agent, replies, quiet>>

\* Mutant of AckOnly: no reply is worth a retry.
AlwaysAckOnly(h) == TRUE

\* The reply of /send is a mere acknowledgement: failing to send it is logged.
AckOnly(h) == kind[handler[h].update] = "send" /\ ~handler[h].release

\* sendMessage: accepted, or failed, and then it may have been accepted anyway.
Reply(h) ==
    LET u    == handler[h].update
        told == [replies EXCEPT ![u] = @ \cup {handler[h].text}]
    IN  /\ At(h, "reply")
        /\ \/ replies' = told /\ Goto(h, "finish") /\ row' = row /\ NoFault
           \/ /\ replies' \in {replies, told}
              /\ Fault
              /\ IF AckOnly(h) THEN Goto(h, "finish") /\ row' = row
                 ELSE /\ Respond(h, FALSE)
                      /\ \/ row' = row
                         \/ /\ handler[h].release
                            /\ row' = [row EXCEPT ![u] = Released(@)]
        /\ UNCHANGED <<Messages, seen, Agent, quiet>>

\* mark_completed, whose failure is logged only.
Finish(h) ==
    LET u == handler[h].update
    IN  /\ At(h, "finish")
        /\ \/ /\ IF row[u].status # "absent"
                 THEN /\ row' = [row EXCEPT ![u] = Completed(@)]
                      /\ seen' = seen \cup {u}
                 ELSE UNCHANGED <<row, seen>>
              /\ NoFault
           \/ UNCHANGED <<row, seen>> /\ Fault
        /\ Respond(h, TRUE)
        /\ UNCHANGED <<Messages, Agent, replies, quiet>>

-----------------------------------------------------------------------------
(* agent-api: create_chat_completion with an ingress idempotency key. *)

\* Mutant of Cached: the cache is never read.
NeverCached(u) == None

Cached(u) == cache[u]

Load(r) ==
    LET u == run[r].update
    IN  /\ run[r].pc = "load"
        /\ run' = [run EXCEPT ![r].pc = IF Cached(u) # None THEN "answered" ELSE "work",
                              ![r].text = Cached(u)]
        /\ UNCHANGED <<Messages, row, seen, handler, cache, sent, replies, quiet, faults>>

\* The run makes up its own answer; that of /send sends the message first, or
\* fails to and says so.
Work(r) ==
    LET u == run[r].update
    IN  /\ run[r].pc = "work"
        /\ run' = [run EXCEPT ![r].pc = "store", ![r].text = r]
        /\ \/ kind[u] = "send" /\ sent' = [sent EXCEPT ![u] = @ + 1] /\ NoFault
           \/ kind[u] # "send" /\ sent' = sent /\ NoFault
           \/ kind[u] = "send" /\ sent' = sent /\ Fault
        /\ UNCHANGED <<Messages, row, seen, handler, cache, replies, quiet>>

\* INSERT ... ON CONFLICT (idempotency_key) DO NOTHING.
Kept(old, new) == IF old = None THEN new ELSE old

\* The answer is cached and returned; a cache that fails is logged only.
Store(r) ==
    LET u == run[r].update
    IN  /\ run[r].pc = "store"
        /\ run' = [run EXCEPT ![r].pc = "answered"]
        /\ \/ cache' = [cache EXCEPT ![u] = Kept(@, run[r].text)] /\ NoFault
           \/ cache' = cache /\ Fault
        /\ UNCHANGED <<Messages, row, seen, handler, sent, replies, quiet>>

\* An error response, or the end of the process, before the answer is out.
RunFails(r) ==
    /\ run[r].pc \in {"load", "work", "store"}
    /\ Fault
    /\ run' = [run EXCEPT ![r].pc = "failed"]
    /\ UNCHANGED <<Messages, row, seen, handler, cache, sent, replies, quiet>>

-----------------------------------------------------------------------------
(* Failures and time. *)

\* telegram-ingress stops and starts again.  With a webhook, setWebhook is
\* called with drop_pending_updates, and Telegram forgets what was open.
Crash ==
    /\ \E h \in Handler : ~At(h, "idle")
    /\ Fault
    /\ handler' = [h \in Handler |-> Idle]
    /\ seen' = {}
    /\ telegram' = [u \in Update |-> IF Webhook /\ telegram[u] = "open" THEN "dropped"
                                     ELSE telegram[u]]
    /\ UNCHANGED <<kind, row, Agent, replies, quiet>>

\* DedupCache forgets an update: it is too old, or there are too many.
Evict(u) ==
    /\ u \in seen
    /\ seen' = seen \ {u}
    /\ UNCHANGED <<Messages, row, handler, Agent, replies, quiet, faults>>

Busy(h) == handler[h].pc \notin {"idle", "respond"}

Sooner(n) == IF n = 0 THEN 0 ELSE n - 1

\* One tick.  A claim lasts four request timeouts and is renewed by stage_reply,
\* so each of the two HTTP calls under it ends before it does.
Tick ==
    /\ \A h \in Handler : Busy(h) => row[handler[h].update].lockIn # 1
    /\ row' = [u \in Update |-> [row[u] EXCEPT !.lockIn = Sooner(@)]]
    /\ UNCHANGED <<Messages, seen, handler, Agent, replies, quiet, faults>>

Handle(h) ==
    \/ \E r \in Run : Ask(h, r)
    \/ Hear(h) \/ Abandon(h) \/ Stage(h) \/ Reply(h) \/ Finish(h) \/ Answer(h)

Complete(r) == Load(r) \/ Work(r) \/ Store(r)

Next ==
    \/ \E u \in Update, k \in Kinds : Post(u, k)
    \/ \E h \in Handler, u \in Update : Receive(h, u)
    \/ \E h \in Handler : Handle(h)
    \/ \E r \in Run : Complete(r) \/ RunFails(r)
    \/ \E u \in Update : Evict(u)
    \/ Crash
    \/ Tick

Spec == Init /\ [][Next]_vars

\* Telegram offers an open update again and again, the event loop and agent-api
\* keep running what they have begun, and clocks advance.
Fairness ==
    /\ \A u \in Update : WF_vars(\E h \in Handler : Receive(h, u))
    /\ \A h \in Handler : WF_vars(Handle(h))
    /\ \A r \in Run : WF_vars(Complete(r))
    /\ WF_vars(Tick)

FairSpec == Spec /\ Fairness

-----------------------------------------------------------------------------
(* Invariants. *)

TypeOK ==
    /\ telegram \in [Update -> {"unsent", "open", "acked", "dropped"}]
    /\ kind     \in [Update -> Kind \cup {None}]
    /\ row      \in [Update -> Row]
    /\ seen     \subseteq Update
    /\ handler  \in [Handler -> HandlerState]
    /\ run      \in [Run -> RunState]
    /\ cache    \in [Update -> Text \cup {None}]
    /\ replies  \in [Update -> SUBSET Text]
    /\ quiet    \subseteq Update
    /\ sent     \in [Update -> Nat]
    /\ faults   \in 0..MaxFaults

\* Two deliveries of one update are never worked on at the same time, although
\* handlers give up on runs, delete rows and unlock them.
OneHandlerPerUpdate ==
    \A g, h \in Handler : g # h /\ Busy(g) /\ Busy(h) =>
        handler[g].update # handler[h].update

\* A user never reads two different answers to one message, however often the
\* reply is repeated after lost responses, crashes and several runs.
OneReplyText == \A u \in Update : Cardinality(replies[u]) <= 1

\* Telegram may forget an update only when its chat has its reply, or the
\* update was ignored on purpose; /send's acknowledgement may get lost.
AckedMeansAnswered ==
    \A u \in Update : telegram[u] = "acked" /\ kind[u] # "send" =>
        replies[u] # {} \/ u \in quiet

\* The recipient of a /send gets its message at most once.
SendOnce == \A u \in Update : sent[u] <= 1

-----------------------------------------------------------------------------
(* Action properties. *)

\* Once a run has left its answer in the cache, only runs that were past the
\* lookup already can still send.
CachedIsNotSentAgain ==
    [][\A u \in Update :
         /\ cache[u] # None
         /\ \A r \in Run : run[r].update = u => run[r].pc # "work"
         => \A r \in Run : run'[r].update = u => run'[r].pc # "work"]_vars

\* A completed update is over: no handler works on it and its row stays.
CompletedIsOver ==
    [][\A u \in Update : row[u].status = "completed" =>
         /\ row'[u] = row[u]
         /\ \A h \in Handler : handler[h].update = u => ~Busy(h)]_vars

-----------------------------------------------------------------------------
(* Liveness. *)

\* Without a webhook, every update is answered in the end, whatever crashes.
EveryUpdateAcked ==
    \A u \in Update : telegram[u] = "open" ~> telegram[u] = "acked"

=============================================================================
