---------------------------- MODULE AlertDelivery ----------------------------
(***************************************************************************)
(* The durable Telegram alert outbox of telegram-ingress:                  *)
(* services/alert_delivery.py (AlertDeliveryService on top of              *)
(* PostgresAlertDeliveryRepository) driven by POST /telegram/alerts and by *)
(* the retry loop of modules/alerts/worker.py.                             *)
(*                                                                         *)
(* Every database transaction, every sendMessage call and every failure of *)
(* one of them is a step of its own; HTTP handlers and retry loops are     *)
(* workers that interleave freely.  Timestamps are countdowns: nextIn and  *)
(* lockIn say how many ticks remain until next_attempt_at and locked_until *)
(* lie in the past (0: they already do), None is SQL's NULL.               *)
(***************************************************************************)
EXTENDS Integers, FiniteSets

CONSTANTS
    Request,      \* POST /telegram/alerts requests; an accepted one names its row
    Retrier,      \* retry loops, one per telegram-ingress process
    Chat,         \* recipient chat ids
    None,         \* NULL
    Key,          \* idempotency keys callers send; None among them: no key at all
    MaxAttempts,  \* TELEGRAM_ALERT_MAX_ATTEMPTS
    ClaimTtl,     \* TELEGRAM_ALERT_CLAIM_TTL_SECONDS
    Limit,        \* the batch size of process_due_deliveries
    Backoff,      \* TELEGRAM_ALERT_RETRY_BACKOFF_SECONDS
    RetryAfter,   \* the retry_after values Telegram may ask for (0: none)
    Timely,       \* TRUE: a live worker always finishes inside its lease
    MaxFaults     \* bound on crashes and storage failures in one behaviour

ASSUME AlertConstants ==
    /\ Chat \subseteq Int
    /\ IsFiniteSet(Chat)
    /\ Request \cap Retrier = {}
    /\ None \notin Int \cup Request
    /\ None \notin {"sent", "accepted", "failed", "error", "terminal", "retryable",
                    "terminal_target_failure", "retry_exhausted", "delivery_failed"}
    /\ MaxAttempts \in Nat \ {0}
    /\ ClaimTtl \in Nat \ {0}
    /\ Limit \in Nat \ {0}
    /\ Backoff \in Nat
    /\ RetryAfter \subseteq Nat
    /\ Timely \in BOOLEAN
    /\ MaxFaults \in Nat

VARIABLES
    row,      \* telegram_alert_deliveries
    target,   \* telegram_alert_delivery_targets
    worker,   \* what each handler and retry loop is doing
    sends,    \* history: sendMessage calls per delivery and chat
    reached,  \* history: the <<delivery, chat>> pairs Telegram has accepted
    refused,  \* history: the pairs Telegram has refused for good
    cool,     \* history: ticks left of the wait that Telegram asked for last
    lost,     \* history: the pairs whose wait was lost before it was recorded
    faults    \* history: crashes and storage failures so far

vars == <<row, target, worker, sends, reached, refused, cool, lost, faults>>

Worker == Request \cup Retrier
Timer  == Nat \cup {None}
Reason == {"terminal_target_failure", "retry_exhausted", "delivery_failed"}

Status == {"absent", "pending", "delivering", "completed", "failed"}

Row == [status : Status,
        key    : Key \cup {None},
        nextIn : Timer,
        lockIn : Timer,
        escalation : Reason \cup {None}]

Target == [status   : {"none", "pending", "sent", "failed"},
           attempts : Nat,
           error    : {None, "terminal", "retryable"}]

\* AlertTargetAttempt: the classified outcome of one sendMessage call.
Attempt == [chat   : Chat,
            status : {"sent", "failed", "pending"},
            error  : {None, "terminal", "retryable"},
            after  : Nat]

Reply == {None, "sent", "accepted", "failed", "error"}

Step == {"idle", "claim", "send", "record", "escalate", "done"}

WorkerState == [pc       : Step,
                delivery : Request \cup {None},
                batch    : SUBSET Request,
                todo     : SUBSET Chat,
                attempt  : Attempt \cup {None},
                reason   : Reason \cup {None},
                reply    : Reply]

Absent   == [status |-> "absent", key |-> None, nextIn |-> None,
             lockIn |-> None, escalation |-> None]
NoTarget == [status |-> "none", attempts |-> 0, error |-> None]
Idle     == [pc |-> "idle", delivery |-> None, batch |-> {}, todo |-> {},
             attempt |-> None, reason |-> None, reply |-> None]

Init ==
    /\ row     = [d \in Request |-> Absent]
    /\ target  = [d \in Request |-> [c \in Chat |-> NoTarget]]
    /\ worker  = [w \in Worker |-> Idle]
    /\ sends   = [d \in Request |-> [c \in Chat |-> 0]]
    /\ reached = {}
    /\ refused = {}
    /\ cool    = [d \in Request |-> [c \in Chat |-> 0]]
    /\ lost    = {}
    /\ faults  = 0

-----------------------------------------------------------------------------
(* What the repository computes. *)

Later(a, b) == IF a > b THEN a ELSE b
Past(t)     == t # None /\ t = 0

\* Mutants of Due: the three ways to forget one of its conditions.
DueIgnoringBackoff(d) ==
    \/ row[d].status = "pending" /\ Past(row[d].nextIn)
    \/ row[d].status = "delivering" /\ Past(row[d].lockIn)

DueIgnoringLease(d) ==
    row[d].status \in {"pending", "delivering"} /\ Past(row[d].nextIn)

DueNeverReclaiming(d) == row[d].status = "pending" /\ Past(row[d].nextIn)

\* The predicate that list_due_delivery_ids and claim_delivery share.
Due(d) ==
    \/ row[d].status = "pending" /\ Past(row[d].nextIn)
    \/ /\ row[d].status = "delivering"
       /\ Past(row[d].lockIn)
       /\ row[d].nextIn = None \/ Past(row[d].nextIn)

Recipients(ts)     == {c \in Chat : ts[c].status # "none"}
WithStatus(ts, s)  == {c \in Chat : ts[c].status = s}

\* The targets a claim hands to its worker.  Mutant: Recipients.
Unsent(ts) == WithStatus(ts, "pending")

\* Telegram accepts or refuses a message, asks to retry later, or accepts it
\* and the answer is lost (a timeout): the last two are both retryable.
Classified(c) ==
    {[chat |-> c, status |-> "sent", error |-> None, after |-> 0],
     [chat |-> c, status |-> "failed", error |-> "terminal", after |-> 0]}
    \cup {[chat |-> c, status |-> "pending", error |-> "retryable", after |-> t]
            : t \in RetryAfter}

\* Mutants of Recorded: the attempt is not counted; the budget ends one early.
RecordedUncounted(t, a) ==
    [status |-> a.status, attempts |-> t.attempts, error |-> a.error]

RecordedEarly(t, a) ==
    [status   |-> IF a.status = "pending" /\ t.attempts + 2 >= MaxAttempts
                  THEN "failed" ELSE a.status,
     attempts |-> t.attempts + 1,
     error    |-> a.error]

\* The UPDATE of record_target_attempt on one target.
Recorded(t, a) ==
    [status   |-> IF a.status = "pending" /\ t.attempts + 1 >= MaxAttempts
                  THEN "failed" ELSE a.status,
     attempts |-> t.attempts + 1,
     error    |-> a.error]

RetryDelay(a) == Later(Backoff, a.after)

\* GREATEST(COALESCE(next_attempt_at, '-infinity'), completed_at + delay).
Postponed(next, delay) == IF next = None THEN delay ELSE Later(next, delay)

\* finalize_delivery fails the pending targets whose budget is spent ...
Exhausted(ts) ==
    [c \in Chat |-> IF ts[c].status = "pending" /\ ts[c].attempts >= MaxAttempts
                    THEN [ts[c] EXCEPT !.status = "failed"] ELSE ts[c]]

\* Mutant of Aggregate: one recipient is enough.
AggregateAnySent(ts) ==
    IF WithStatus(ts, "sent") # {} THEN "completed"
    ELSE IF WithStatus(ts, "pending") # {} THEN "pending"
    ELSE "failed"

\* Mutant of Aggregate: the targets' own word for it.
AggregateAsTarget(ts) ==
    IF WithStatus(ts, "sent") = Recipients(ts) THEN "sent"
    ELSE IF WithStatus(ts, "pending") # {} THEN "pending"
    ELSE "failed"

\* ... and aggregates the targets into the status of the delivery.
Aggregate(ts) ==
    IF WithStatus(ts, "sent") = Recipients(ts) THEN "completed"
    ELSE IF WithStatus(ts, "pending") # {} THEN "pending"
    ELSE "failed"

\* Mutant of FinalNext: the timestamp is cleared whatever the status.
FinalNextCleared(status, next) == None

FinalNext(status, next) ==
    IF status # "pending" THEN None
    ELSE IF next = None THEN Backoff ELSE next

\* Mutant of EscalationReason: a marker while other targets are still tried.
EscalationReasonEarly(r, ts) ==
    LET failed == WithStatus(ts, "failed")
    IN  IF r.escalation # None \/ failed = {} THEN None
        ELSE IF \E c \in failed : ts[c].error = "terminal"
             THEN "terminal_target_failure"
        ELSE IF \E c \in failed : ts[c].attempts >= MaxAttempts
             THEN "retry_exhausted"
        ELSE "delivery_failed"

\* _escalation_reason of a finalized record, None when there is nothing to do.
EscalationReason(r, ts) ==
    LET failed == WithStatus(ts, "failed")
    IN  IF r.status # "failed" \/ r.escalation # None \/ failed = {} THEN None
        ELSE IF \E c \in failed : ts[c].error = "terminal"
             THEN "terminal_target_failure"
        ELSE IF \E c \in failed : ts[c].attempts >= MaxAttempts
             THEN "retry_exhausted"
        ELSE "delivery_failed"

\* Mutant of ReplyFor: everything that has not failed is reported as sent.
ReplyForOptimistic(status) == IF status = "failed" THEN "failed" ELSE "sent"

\* _to_submission_result: what the caller of /telegram/alerts is told.
ReplyFor(status) ==
    CASE status = "completed" -> "sent"
      [] status \in {"pending", "delivering"} -> "accepted"
      [] OTHER -> "failed"

\* A handler answers with the delivery id and its status; a retry loop goes on
\* with its batch.
Finished(w, d, status) ==
    IF w \in Request
    THEN [Idle EXCEPT !.pc = "done", !.delivery = d, !.reply = ReplyFor(status)]
    ELSE IF worker[w].batch = {} THEN Idle
    ELSE [Idle EXCEPT !.pc = "claim", !.batch = worker[w].batch]

\* An exception: a handler answers 503, a retry loop drops its whole batch.
Aborted(w) ==
    IF w \in Request THEN [Idle EXCEPT !.pc = "done", !.reply = "error"] ELSE Idle

At(w, pc) == worker[w].pc = pc
History   == <<sends, reached, refused, cool, lost>>
Fault     == faults < MaxFaults /\ faults' = faults + 1


-----------------------------------------------------------------------------
(* POST /telegram/alerts: submit_delivery. *)

\* enqueue_delivery: a fresh row with one pending target per recipient, or the
\* row that already owns the idempotency key.
Submit(r, key, to) ==
    LET prior == {d \in Request : row[d].status # "absent" /\ row[d].key = key}
    IN  /\ At(r, "idle")
        /\ IF key # None /\ prior # {}
           THEN /\ \E d \in prior :
                     worker' = [worker EXCEPT ![r] = Finished(r, d, row[d].status)]
                /\ UNCHANGED <<row, target>>
           ELSE /\ row' = [row EXCEPT ![r] =
                     [Absent EXCEPT !.status = "pending", !.key = key, !.nextIn = 0]]
                /\ target' = [target EXCEPT ![r] =
                     [c \in Chat |-> IF c \in to
                                     THEN [NoTarget EXCEPT !.status = "pending"]
                                     ELSE NoTarget]]
                /\ worker' = [worker EXCEPT ![r] =
                     [Idle EXCEPT !.pc = "claim", !.batch = {r}]]
        /\ UNCHANGED <<History, faults>>

SubmitFails(r) ==
    /\ At(r, "idle")
    /\ Fault
    /\ worker' = [worker EXCEPT ![r] = Aborted(r)]
    /\ UNCHANGED <<row, target, History>>

-----------------------------------------------------------------------------
(* The retry loop: process_due_deliveries. *)

\* What the due query may return: at most Limit of the due rows, those without
\* a timestamp first.  How it orders the others, all of them past, is left open.
Batch(batch) ==
    LET due == {d \in Request : Due(d)}
    IN  /\ batch \subseteq due
        /\ batch = due \/ Cardinality(batch) = Limit
        /\ Cardinality(batch) <= Limit
        /\ \A d \in batch, e \in due \ batch : row[e].nextIn = None => row[d].nextIn = None

ListDue(w) ==
    /\ At(w, "idle")
    /\ \E batch \in SUBSET Request :
         /\ Batch(batch)
         /\ worker' = [worker EXCEPT ![w] =
              IF batch = {} THEN Idle ELSE [Idle EXCEPT !.pc = "claim", !.batch = batch]]
    /\ UNCHANGED <<row, target, History, faults>>

-----------------------------------------------------------------------------
(* _process_delivery, run by handlers and retry loops alike. *)

\* claim_delivery, and the reload of the row when the claim is refused.
Claim(w) ==
    /\ At(w, "claim")
    /\ \E d \in worker[w].batch :
         IF Due(d)
         THEN /\ row' = [row EXCEPT ![d].status = "delivering",
                                    ![d].lockIn = ClaimTtl]
              /\ worker' = [worker EXCEPT ![w].pc = "send",
                                          ![w].delivery = d,
                                          ![w].batch = @ \ {d},
                                          ![w].todo = Unsent(target[d])]
         ELSE /\ worker' = [worker EXCEPT ![w] =
                   IF w \in Request THEN Finished(w, d, row[d].status)
                   ELSE IF worker[w].batch = {d} THEN Idle
                   ELSE [worker[w] EXCEPT !.batch = @ \ {d}]]
              /\ row' = row
    /\ UNCHANGED <<target, History, faults>>

\* One sendMessage call, in the order of the targets of the claimed snapshot.
\* From here on Telegram expects to be left alone for the chat, if it says so.
Send(w) ==
    LET d == worker[w].delivery
    IN  /\ At(w, "send")
        /\ \E c \in worker[w].todo : \E a \in Classified(c) :
             /\ \A other \in worker[w].todo : c <= other
             /\ worker' = [worker EXCEPT ![w].pc = "record",
                                         ![w].todo = @ \ {c},
                                         ![w].attempt = a]
             /\ sends' = [sends EXCEPT ![d][c] = @ + 1]
             /\ \/ a.status # "failed" /\ a.after = 0 /\ reached' = reached \cup {<<d, c>>}
                \/ a.status # "sent" /\ reached' = reached
             /\ refused' = IF a.status = "failed" THEN refused \cup {<<d, c>>} ELSE refused
             /\ cool' = [cool EXCEPT ![d][c] = a.after]
             /\ lost' = lost \ {<<d, c>>}
        /\ UNCHANGED <<row, target, faults>>

\* record_target_attempt: neither the lease nor the target's status is checked.
Record(w) ==
    LET d == worker[w].delivery
        a == worker[w].attempt
        t == Recorded(target[d][a.chat], a)
    IN  /\ At(w, "record")
        /\ target' = [target EXCEPT ![d][a.chat] = t]
        /\ row' = IF t.status = "pending"
                  THEN [row EXCEPT ![d].nextIn = Postponed(@, RetryDelay(a))]
                  ELSE row
        /\ worker' = [worker EXCEPT ![w].pc = "send", ![w].attempt = None]
        /\ UNCHANGED <<History, faults>>

\* finalize_delivery once every target of the snapshot has been tried.
Finalize(w) ==
    LET d      == worker[w].delivery
        ts     == Exhausted(target[d])
        status == Aggregate(ts)
        r      == [row[d] EXCEPT !.status = status,
                                 !.nextIn = FinalNext(status, row[d].nextIn),
                                 !.lockIn = None]
        reason == EscalationReason(r, ts)
    IN  /\ At(w, "send")
        /\ worker[w].todo = {}
        /\ target' = [target EXCEPT ![d] = ts]
        /\ row' = [row EXCEPT ![d] = r]
        /\ worker' = [worker EXCEPT ![w] =
             IF reason = None THEN Finished(w, d, status)
             ELSE [worker[w] EXCEPT !.pc = "escalate", !.reason = reason]]
        /\ UNCHANGED <<History, faults>>

\* mark_delivery_escalated: the first marker wins, and its row is read again.
Escalate(w) ==
    LET d     == worker[w].delivery
        first == row[d].escalation = None
    IN  /\ At(w, "escalate")
        /\ row' = IF first THEN [row EXCEPT ![d].escalation = worker[w].reason] ELSE row
        /\ worker' = [worker EXCEPT ![w] =
             Finished(w, d, IF first THEN row[d].status ELSE "failed")]
        /\ UNCHANGED <<target, History, faults>>

-----------------------------------------------------------------------------
(* Failures and time. *)

\* What the worker was told to wait for, and has not recorded, is forgotten.
Forgets(w) ==
    /\ lost' = lost \cup {p \in Request \X Chat :
                            /\ At(w, "record")
                            /\ p = <<worker[w].delivery, worker[w].attempt.chat>>
                            /\ worker[w].attempt.after > 0}
    /\ UNCHANGED <<sends, reached, refused, cool>>

\* A transaction of the worker fails: _process_delivery raises.
StorageFails(w) ==
    /\ \/ worker[w].pc \in {"claim", "record", "escalate"}
       \/ At(w, "send") /\ worker[w].todo = {}
    /\ Fault
    /\ worker' = [worker EXCEPT ![w] = Aborted(w)]
    /\ Forgets(w)
    /\ UNCHANGED <<row, target>>

\* The process stops; a restarted retry loop begins with an empty batch.
Crash(w) ==
    /\ worker[w].pc \notin {"idle", "done"}
    /\ Fault
    /\ worker' = [worker EXCEPT ![w] =
         IF w \in Request THEN [Idle EXCEPT !.pc = "done"] ELSE Idle]
    /\ Forgets(w)
    /\ UNCHANGED <<row, target>>

Sooner(t) == IF t = None \/ t = 0 THEN t ELSE t - 1

InLease(w) == worker[w].pc \in {"send", "record"}

\* One tick.  With Timely, time never ends the lease of a worker in mid-work.
Tick ==
    /\ Timely => \A w \in Worker : InLease(w) => row[worker[w].delivery].lockIn \notin {0, 1}
    /\ row' = [d \in Request |-> [row[d] EXCEPT !.nextIn = Sooner(@),
                                                !.lockIn = Sooner(@)]]
    /\ cool' = [d \in Request |-> [c \in Chat |-> Sooner(cool[d][c])]]
    /\ lost' = {p \in lost : cool[p[1]][p[2]] > 1}
    /\ UNCHANGED <<target, worker, sends, reached, refused, faults>>

Process(w) == Claim(w) \/ Send(w) \/ Record(w) \/ Finalize(w) \/ Escalate(w)

Next ==
    \/ \E r \in Request, key \in Key, to \in (SUBSET Chat) \ {{}} :
         Submit(r, key, to)
    \/ \E r \in Request : SubmitFails(r)
    \/ \E w \in Retrier : ListDue(w)
    \/ \E w \in Worker : Process(w) \/ StorageFails(w) \/ Crash(w)
    \/ Tick

Spec == Init /\ [][Next]_vars

\* The event loop keeps running every handler, run_forever never returns, and
\* clocks advance; nothing forces a request to arrive or a fault to happen.
Fairness ==
    /\ \A w \in Worker : WF_vars(Process(w))
    /\ \A w \in Retrier : WF_vars(ListDue(w))
    /\ WF_vars(Tick)

FairSpec == Spec /\ Fairness

-----------------------------------------------------------------------------
(* Invariants. *)

TypeOK ==
    /\ row     \in [Request -> Row]
    /\ target  \in [Request -> [Chat -> Target]]
    /\ worker  \in [Worker -> WorkerState]
    /\ sends   \in [Request -> [Chat -> Nat]]
    /\ reached \subseteq Request \X Chat
    /\ refused \subseteq Request \X Chat
    /\ cool    \in [Request -> [Chat -> Nat]]
    /\ lost    \subseteq Request \X Chat
    /\ faults  \in 0..MaxFaults

\* No unfinished delivery is out of the retry loop's reach: the due predicate
\* ignores rows with a NULL timestamp, so neither crashes, storage failures nor
\* stale writers may ever leave one on a row that still has to be delivered.
NothingStranded ==
    \A d \in Request :
        /\ row[d].status = "pending" => row[d].nextIn # None
        /\ row[d].status = "delivering" => row[d].lockIn # None

\* A delivery that is completed, and a caller who was told "sent", can rely on
\* it: Telegram has accepted the message for every recipient, also when several
\* workers wrote to the same targets after a lease ran out.
CompletedMeansDelivered ==
    \A d \in Request : row[d].status = "completed" =>
        {d} \X Recipients(target[d]) \subseteq reached

SentReplyMeansDelivered ==
    \A r \in Request : worker[r].reply = "sent" =>
        {worker[r].delivery} \X Recipients(target[worker[r].delivery]) \subseteq reached

\* The budget of a target holds up under crashes: a chat is sent the same alert
\* more than MaxAttempts times only if a fault kept an attempt from being
\* recorded, once per fault.
SendBudget ==
    \A d \in Request, c \in Chat : sends[d][c] <= MaxAttempts + faults

\* An escalation names something that happened, whoever has written to the
\* targets since: a terminal failure is a recipient that Telegram refused for
\* good, exhausted retries are a recipient whose attempts are all used up, and
\* "delivery_failed", the fallback of _escalation_reason, is never needed.
EscalationExplained ==
    \A d \in Request : row[d].escalation # None =>
        \/ /\ row[d].escalation = "terminal_target_failure"
           /\ \E c \in Chat : <<d, c>> \in refused
        \/ /\ row[d].escalation = "retry_exhausted"
           /\ \E c \in Chat : target[d][c].attempts >= MaxAttempts

\* Inside the leases it says more: the delivery has failed, and of the causes
\* that its failed targets still show, the marker names the gravest.
EscalationJustified ==
    \A d \in Request : row[d].escalation # None =>
        LET failed   == WithStatus(target[d], "failed")
            terminal == {c \in failed : target[d][c].error = "terminal"}
        IN  /\ row[d].status = "failed" /\ failed # {}
            /\ row[d].escalation = "terminal_target_failure" <=> terminal # {}
            /\ row[d].escalation = "retry_exhausted" =>
                 \E c \in failed : target[d][c].attempts >= MaxAttempts

\* The lease is a lock: no two workers are inside the same delivery.
LeaseExclusion ==
    \A v, w \in Worker : v # w /\ InLease(v) /\ InLease(w) =>
        worker[v].delivery # worker[w].delivery

-----------------------------------------------------------------------------
(* Action properties. *)

\* completed and failed are final, as long as workers keep inside their leases.
TerminalIsFinal ==
    [][\A d \in Request : row[d].status \in {"completed", "failed"} =>
         row'[d].status = row[d].status /\ target'[d] = target[d]]_vars

\* A recorded success is never sent again (docs/runbooks/telegram.md:134).
RecordedNotResent ==
    [][\A d \in Request, c \in Chat :
         target[d][c].status = "sent" => sends'[d][c] = sends[d][c]]_vars

\* Telegram's retry_after is honoured from the moment it is received, by the
\* worker that was told and by one that takes over its lease.  Excused are the
\* waits that a crash or a failed transaction kept from being recorded
\* (alert_delivery.py:816): nobody can know of them any more.
RetryAfterHonoured ==
    [][\A d \in Request, c \in Chat : cool[d][c] > 0 /\ <<d, c>> \notin lost =>
         sends'[d][c] = sends[d][c]]_vars

-----------------------------------------------------------------------------
(* The contract of the outbox, which a Timely system implements. *)

Contract == INSTANCE AlertOutbox WITH
    Alert    <- Request,
    Person   <- Chat,
    state    <- [d \in Request |->
                   IF row[d].status \in {"pending", "delivering"} THEN "open"
                   ELSE row[d].status],
    audience <- [d \in Request |-> Recipients(target[d])],
    got      <- [d \in Request |-> {c \in Chat : <<d, c>> \in reached}]

\* As long as workers keep inside their leases, crashes, storage failures and
\* retries are invisible: the outbox delivers at least once and closes once.
ImplementsContract == Contract!Spec

-----------------------------------------------------------------------------
(* Liveness. *)

\* Every accepted alert reaches a final status for good.
EveryAlertSettles ==
    \A d \in Request :
        row[d].status # "absent" ~> [](row[d].status \in {"completed", "failed"})

=============================================================================
