------------------------- MODULE AlertDeliveryProofs -------------------------
(***************************************************************************)
(* Proofs about AlertDelivery for any number of requests, retry loops,     *)
(* recipients, attempts and faults, any timeouts, and workers that may or  *)
(* may not outlive their leases.                                           *)
(***************************************************************************)
EXTENDS AlertDelivery, TLAPS

-----------------------------------------------------------------------------
(* Type correctness. *)

LEMMA TimerType ==
    /\ \A t \in Timer : Sooner(t) \in Timer /\ (t # None => Sooner(t) # None)
    /\ \A n \in Nat : Sooner(n) \in Nat
    /\ \A t \in Timer, n \in Nat : Postponed(t, n) \in Nat
    /\ \A m, n \in Nat : Later(m, n) \in Nat
    /\ None \notin Nat
BY AlertConstants DEF AlertConstants, Timer, Sooner, Postponed, Later

LEMMA IdleType ==
    /\ Idle \in WorkerState
    /\ \A p \in Step : [Idle EXCEPT !.pc = p] \in WorkerState
    /\ \A p \in Step, r \in Reply : [Idle EXCEPT !.pc = p, !.reply = r] \in WorkerState
    /\ \A p \in Step, b \in SUBSET Request : [Idle EXCEPT !.pc = p, !.batch = b] \in WorkerState
    /\ \A p \in Step, d \in Request, r \in Reply :
         [Idle EXCEPT !.pc = p, !.delivery = d, !.reply = r] \in WorkerState
BY DEF Idle, WorkerState, Step, Reply

LEMMA FinishedType ==
    ASSUME TypeOK, NEW w \in Worker, NEW d \in Request, NEW status \in Status
    PROVE  Finished(w, d, status) \in WorkerState
<1>1. ReplyFor(status) \in Reply
  BY DEF ReplyFor, Reply, Status
<1>2. worker[w].batch \in SUBSET Request
  BY DEF TypeOK, WorkerState
<1>3. [Idle EXCEPT !.pc = "done", !.delivery = d, !.reply = ReplyFor(status)] \in WorkerState
  BY <1>1, IdleType DEF Step
<1>4. [Idle EXCEPT !.pc = "claim", !.batch = worker[w].batch] \in WorkerState
  BY <1>2, IdleType DEF Step
<1> QED
  BY <1>3, <1>4, IdleType DEF Finished

LEMMA AbortedType ==
    ASSUME NEW w \in Worker
    PROVE  Aborted(w) \in WorkerState
<1>1. [Idle EXCEPT !.pc = "done", !.reply = "error"] \in WorkerState
  BY IdleType DEF Step, Reply
<1> QED
  BY <1>1, IdleType DEF Aborted

LEMMA RecordedType ==
    ASSUME NEW t \in Target, NEW a \in Attempt
    PROVE  /\ Recorded(t, a) \in Target
           /\ Recorded(t, a).status # "none"
           /\ RetryDelay(a) \in Nat
<1>1. a.after \in Nat /\ Backoff \in Nat
  BY AlertConstants DEF Attempt, AlertConstants
<1>2. RetryDelay(a) \in Nat
  BY <1>1, TimerType DEF RetryDelay
<1> QED
  BY <1>2 DEF Recorded, Target, Attempt

LEMMA ExhaustedType ==
    ASSUME NEW ts \in [Chat -> Target]
    PROVE  /\ Exhausted(ts) \in [Chat -> Target]
           /\ Recipients(Exhausted(ts)) = Recipients(ts)
           /\ WithStatus(Exhausted(ts), "sent") = WithStatus(ts, "sent")
           /\ Aggregate(Exhausted(ts)) \in {"completed", "pending", "failed"}
<1>1. \A c \in Chat : /\ Exhausted(ts)[c] \in Target
                      /\ Exhausted(ts)[c].status = "none" <=> ts[c].status = "none"
                      /\ Exhausted(ts)[c].status = "sent" <=> ts[c].status = "sent"
  BY DEF Exhausted, Target
<1>2. Exhausted(ts) = [c \in Chat |-> Exhausted(ts)[c]]
  BY DEF Exhausted
<1> QED
  BY <1>1, <1>2 DEF Recipients, WithStatus, Aggregate

LEMMA InitType == Init => TypeOK
<1>1. Absent \in Row /\ NoTarget \in Target
  BY DEF Absent, NoTarget, Row, Target, Status, Timer
<1>2. 0 \in 0..MaxFaults
  BY AlertConstants DEF AlertConstants
<1>3. ASSUME Init
      PROVE  TypeOK
  <2>1. row \in [Request -> Row] /\ target \in [Request -> [Chat -> Target]]
    BY <1>1, <1>3 DEF Init
  <2>2. worker \in [Worker -> WorkerState]
    BY <1>3, IdleType DEF Init
  <2>3. /\ sends \in [Request -> [Chat -> Nat]] /\ cool \in [Request -> [Chat -> Nat]]
        /\ {reached, refused, lost} \subseteq SUBSET (Request \X Chat)
    BY <1>3 DEF Init
  <2> QED
    BY <1>2, <1>3, <2>1, <2>2, <2>3 DEF Init, TypeOK
<1> QED
  BY <1>3

\* What an escalation of d rests on: a target that Telegram has refused for
\* good, or one of its targets ts that is out of attempts.
Cause(reason, d, ts, gone) ==
    \/ reason = "terminal_target_failure" /\ \E c \in Chat : <<d, c>> \in gone
    \/ reason = "retry_exhausted" /\ \E c \in Chat : ts[c].attempts >= MaxAttempts

\* What a worker knows about the delivery d it is handling with attempt a.
EngagedWith(w, d, a) ==
    /\ worker[w].pc \in {"send", "record", "escalate"} =>
         d \in Request /\ row[d].status # "absent"
    /\ worker[w].pc \in {"send", "record"} => worker[w].todo \subseteq Recipients(target[d])
    /\ worker[w].pc = "record" =>
         /\ a \in Attempt
         /\ a.chat \in Recipients(target[d])
         /\ a.status = "sent" => <<d, a.chat>> \in reached
         /\ a.status = "failed" => a.error = "terminal"
         /\ a.error = "terminal" => <<d, a.chat>> \in refused
    /\ worker[w].pc = "escalate" => Cause(worker[w].reason, d, target[d], refused)
    /\ worker[w].reply = "sent" => /\ worker[w].pc = "done"
                                  /\ d \in Request
                                  /\ row[d].status # "absent"
                                  /\ {d} \X Recipients(target[d]) \subseteq reached

EngagedAt(w) ==
    /\ EngagedWith(w, worker[w].delivery, worker[w].attempt)
    /\ \A d \in worker[w].batch : row[d].status # "absent"
    /\ w \in Request /\ worker[w].pc = "idle" => row[w].status = "absent"

Engaged == \A w \in Worker : EngagedAt(w)

LEMMA SubmitType ==
    ASSUME TypeOK, NEW r \in Request, NEW key \in Key, NEW to \in (SUBSET Chat) \ {{}},
           Submit(r, key, to)
    PROVE  TypeOK'
<1> DEFINE prior == {d \in Request : row[d].status # "absent" /\ row[d].key = key}
<1>1. UNCHANGED <<sends, reached, refused, cool, lost, faults>> /\ r \in Worker
  BY DEF Submit, History, Worker
<1>2. CASE key # None /\ prior # {}
  <2>1. PICK d \in Request :
          worker' = [worker EXCEPT ![r] = Finished(r, d, row[d].status)]
    BY <1>2 DEF Submit
  <2>2. row[d].status \in Status
    BY DEF TypeOK, Row
  <2>3. worker' \in [Worker -> WorkerState]
    BY <1>1, <2>1, <2>2, FinishedType DEF TypeOK
  <2> QED
    BY <1>1, <1>2, <2>3 DEF Submit, TypeOK
<1>3. CASE ~(key # None /\ prior # {})
  <2>1. [Absent EXCEPT !.status = "pending", !.key = key, !.nextIn = 0] \in Row
    BY DEF Absent, Row, Status, Timer
  <2>2. [NoTarget EXCEPT !.status = "pending"] \in Target /\ NoTarget \in Target
    BY DEF NoTarget, Target
  <2>3. [Idle EXCEPT !.pc = "claim", !.batch = {r}] \in WorkerState
    BY IdleType DEF Step
  <2>4. /\ row' = [row EXCEPT ![r] =
             [Absent EXCEPT !.status = "pending", !.key = key, !.nextIn = 0]]
        /\ target' = [target EXCEPT ![r] =
             [c \in Chat |-> IF c \in to THEN [NoTarget EXCEPT !.status = "pending"]
                             ELSE NoTarget]]
        /\ worker' = [worker EXCEPT ![r] = [Idle EXCEPT !.pc = "claim", !.batch = {r}]]
    BY <1>3 DEF Submit
  <2>5. row' \in [Request -> Row]
    BY <2>1, <2>4 DEF TypeOK
  <2>6. target' \in [Request -> [Chat -> Target]]
    BY <2>2, <2>4 DEF TypeOK
  <2>7. worker' \in [Worker -> WorkerState]
    BY <1>1, <2>3, <2>4 DEF TypeOK
  <2> QED
    BY <1>1, <2>5, <2>6, <2>7 DEF TypeOK
<1> QED
  BY <1>2, <1>3

LEMMA ClaimType ==
    ASSUME TypeOK, NEW w \in Worker, Claim(w)
    PROVE  TypeOK'
<1>1. PICK d \in worker[w].batch :
        IF Due(d)
        THEN /\ row' = [row EXCEPT ![d].status = "delivering", ![d].lockIn = ClaimTtl]
             /\ worker' = [worker EXCEPT ![w].pc = "send",
                                         ![w].delivery = d,
                                         ![w].batch = @ \ {d},
                                         ![w].todo = Unsent(target[d])]
        ELSE /\ worker' = [worker EXCEPT ![w] =
                  IF w \in Request THEN Finished(w, d, row[d].status)
                  ELSE IF worker[w].batch = {d} THEN Idle
                  ELSE [worker[w] EXCEPT !.batch = @ \ {d}]]
             /\ row' = row
  BY DEF Claim
<1>2. /\ UNCHANGED <<target, sends, reached, refused, cool, lost, faults>>
      /\ d \in Request
      /\ worker[w] \in WorkerState
      /\ row[d].status \in Status
  BY DEF Claim, History, TypeOK, WorkerState, Row
<1>3. CASE Due(d)
  <2>1. Unsent(target[d]) \in SUBSET Chat
    BY DEF Unsent, WithStatus
  <2>r. [row[d] EXCEPT !.status = "delivering", !.lockIn = ClaimTtl] \in Row
    <3>1. row[d] \in Row
      BY <1>2 DEF TypeOK
    <3>2. ClaimTtl \in Timer
      BY AlertConstants DEF Timer, AlertConstants
    <3> QED
      BY <3>1, <3>2 DEF Row, Status
  <2>2. row' \in [Request -> Row]
    BY <1>1, <1>2, <1>3, <2>r DEF TypeOK
  <2>3. [worker[w] EXCEPT !.pc = "send", !.delivery = d, !.batch = @ \ {d},
                         !.todo = Unsent(target[d])] \in WorkerState
    BY <1>2, <2>1 DEF WorkerState, Step
  <2>4. worker' \in [Worker -> WorkerState]
    BY <1>1, <1>2, <1>3, <2>3 DEF TypeOK
  <2> QED
    BY <1>2, <2>2, <2>4 DEF TypeOK
<1>4. CASE ~Due(d)
  <2>1. [worker[w] EXCEPT !.batch = @ \ {d}] \in WorkerState
    BY <1>2 DEF WorkerState
  <2>2. Finished(w, d, row[d].status) \in WorkerState
    BY <1>2, FinishedType
  <2>3. worker' \in [Worker -> WorkerState]
    BY <1>1, <1>4, <2>1, <2>2, IdleType DEF TypeOK
  <2> QED
    BY <1>1, <1>2, <1>4, <2>3 DEF TypeOK
<1> QED
  BY <1>3, <1>4

LEMMA SendType ==
    ASSUME TypeOK, Engaged, NEW w \in Worker, Send(w)
    PROVE  TypeOK'
<1> DEFINE d == worker[w].delivery
<1>0. PICK c \in worker[w].todo : \E a \in Classified(c) :
        /\ worker' = [worker EXCEPT ![w].pc = "record",
                                    ![w].todo = @ \ {c},
                                    ![w].attempt = a]
        /\ sends' = [sends EXCEPT ![d][c] = @ + 1]
        /\ reached' \in {reached, reached \cup {<<d, c>>}}
        /\ refused' \in {refused, refused \cup {<<d, c>>}}
        /\ cool' = [cool EXCEPT ![d][c] = a.after]
        /\ lost' = lost \ {<<d, c>>}
  BY DEF Send
<1>1. PICK a \in Classified(c) :
        /\ worker' = [worker EXCEPT ![w].pc = "record",
                                    ![w].todo = @ \ {c},
                                    ![w].attempt = a]
        /\ sends' = [sends EXCEPT ![d][c] = @ + 1]
        /\ reached' \in {reached, reached \cup {<<d, c>>}}
        /\ refused' \in {refused, refused \cup {<<d, c>>}}
        /\ cool' = [cool EXCEPT ![d][c] = a.after]
        /\ lost' = lost \ {<<d, c>>}
  BY <1>0
<1>2. d \in Request /\ c \in Chat /\ worker[w] \in WorkerState
  BY DEF Send, At, Engaged, EngagedAt, EngagedWith, TypeOK, WorkerState
<1>3. a \in Attempt
  BY <1>1, <1>2, AlertConstants DEF Classified, Attempt, AlertConstants
<1>4. [worker[w] EXCEPT !.pc = "record", !.todo = @ \ {c}, !.attempt = a] \in WorkerState
  BY <1>2, <1>3 DEF WorkerState, Step
<1>5. worker' \in [Worker -> WorkerState]
  BY <1>1, <1>4 DEF TypeOK
<1>6. /\ sends' \in [Request -> [Chat -> Nat]]
      /\ {reached', refused', lost'} \subseteq SUBSET (Request \X Chat)
  BY <1>1, <1>2 DEF TypeOK
<1>7. cool' \in [Request -> [Chat -> Nat]]
  BY <1>1, <1>2, <1>3 DEF TypeOK, Attempt
<1> QED
  BY <1>5, <1>6, <1>7 DEF Send, TypeOK

LEMMA RecordType ==
    ASSUME TypeOK, Engaged, NEW w \in Worker, Record(w)
    PROVE  TypeOK'
<1> DEFINE d == worker[w].delivery
           a == worker[w].attempt
           t == Recorded(target[d][a.chat], a)
<1>1. d \in Request /\ a \in Attempt /\ worker[w] \in WorkerState
  BY DEF Record, At, Engaged, EngagedAt, EngagedWith, TypeOK
<1>2. a.chat \in Chat /\ a.after \in Nat
  BY <1>1 DEF Attempt
<1>3. t \in Target /\ RetryDelay(a) \in Nat
  BY <1>1, <1>2, RecordedType DEF TypeOK
<1>4. target' \in [Request -> [Chat -> Target]]
  BY <1>1, <1>2, <1>3 DEF Record, TypeOK
<1>5. row' \in [Request -> Row]
  <2>1. Postponed(row[d].nextIn, RetryDelay(a)) \in Timer
    BY <1>1, <1>3, TimerType DEF TypeOK, Row, Timer
  <2>2. row' \in {row, [row EXCEPT ![d].nextIn = Postponed(@, RetryDelay(a))]}
    BY DEF Record
  <2>3. [row[d] EXCEPT !.nextIn = Postponed(row[d].nextIn, RetryDelay(a))] \in Row
    <3> DEFINE next == Postponed(row[d].nextIn, RetryDelay(a))
    <3>1. row[d] \in Row /\ next \in Timer
      BY <1>1, <2>1 DEF TypeOK
    <3> HIDE DEF next
    <3>2. [row[d] EXCEPT !.nextIn = next] \in Row
      BY <3>1 DEF Row
    <3> QED
      BY <3>2 DEF next
  <2> QED
    BY <1>1, <2>2, <2>3 DEF TypeOK
<1>6. [worker[w] EXCEPT !.pc = "send", !.attempt = None] \in WorkerState
  BY <1>1 DEF WorkerState, Step
<1>7. worker' \in [Worker -> WorkerState]
  BY <1>6 DEF Record, TypeOK
<1> QED
  BY <1>4, <1>5, <1>7 DEF Record, History, TypeOK

LEMMA FinalizeType ==
    ASSUME TypeOK, Engaged, NEW w \in Worker, Finalize(w)
    PROVE  TypeOK'
<1> DEFINE d      == worker[w].delivery
           ts     == Exhausted(target[d])
           status == Aggregate(ts)
           r      == [row[d] EXCEPT !.status = status,
                                    !.nextIn = FinalNext(status, row[d].nextIn),
                                    !.lockIn = None]
           reason == EscalationReason(r, ts)
<1>1. d \in Request /\ worker[w] \in WorkerState /\ row[d] \in Row
  BY DEF Finalize, At, Engaged, EngagedAt, EngagedWith, TypeOK
<1>2. ts \in [Chat -> Target] /\ status \in {"completed", "pending", "failed"}
  BY <1>1, ExhaustedType DEF TypeOK
<1>3. FinalNext(status, row[d].nextIn) \in Timer
  BY <1>1, AlertConstants DEF FinalNext, Row, Timer, AlertConstants
<1>4. r \in Row
  <2> HIDE DEF ts, status
  <2> QED
    BY <1>1, <1>2, <1>3 DEF Row, Status, Timer
<1>5. reason \in Reason \cup {None}
  BY DEF EscalationReason, Reason
<1>6. [worker[w] EXCEPT !.pc = "escalate", !.reason = reason] \in WorkerState
  <2> HIDE DEF reason
  <2> QED
    BY <1>1, <1>5 DEF WorkerState, Step
<1>7. Finished(w, d, status) \in WorkerState
  <2> HIDE DEF ts, status
  <2> QED
    BY <1>1, <1>2, FinishedType DEF Status
<1>8. /\ target' = [target EXCEPT ![d] = ts]
      /\ row' = [row EXCEPT ![d] = r]
      /\ worker' = [worker EXCEPT ![w] =
           IF reason = None THEN Finished(w, d, status)
           ELSE [worker[w] EXCEPT !.pc = "escalate", !.reason = reason]]
      /\ UNCHANGED <<sends, reached, refused, cool, lost, faults>>
  BY DEF Finalize, History
<1> HIDE DEF ts, status, r, reason
<1> QED
  BY <1>1, <1>2, <1>4, <1>6, <1>7, <1>8 DEF TypeOK

LEMMA EscalateType ==
    ASSUME TypeOK, Engaged, NEW w \in Worker, Escalate(w)
    PROVE  TypeOK'
<1> DEFINE d     == worker[w].delivery
           first == row[d].escalation = None
<1>1. d \in Request /\ worker[w].reason \in Reason /\ row[d] \in Row
  BY DEF Escalate, At, Engaged, EngagedAt, EngagedWith, Cause, Reason, TypeOK
<1>2. [row[d] EXCEPT !.escalation = worker[w].reason] \in Row
  BY <1>1 DEF Row
<1>3. row' \in [Request -> Row]
  BY <1>2 DEF Escalate, TypeOK
<1>4. (IF first THEN row[d].status ELSE "failed") \in Status
  BY <1>1 DEF Row, Status
<1>5. Finished(w, d, IF first THEN row[d].status ELSE "failed") \in WorkerState
  BY <1>1, <1>4, FinishedType
<1>6. worker' \in [Worker -> WorkerState]
  BY <1>5 DEF Escalate, TypeOK
<1> QED
  BY <1>3, <1>6 DEF Escalate, History, TypeOK

\* The steps that only stop a worker.
Stop(w) == (w \in Request /\ SubmitFails(w)) \/ StorageFails(w) \/ Crash(w)

LEMMA StopType ==
    ASSUME TypeOK, NEW w \in Worker, Stop(w)
    PROVE  /\ TypeOK'
           /\ UNCHANGED <<row, target, sends, reached, refused, cool>>
           /\ \A v \in Worker \ {w} : worker'[v] = worker[v]
           /\ worker'[w].pc \in {"idle", "done"} /\ worker'[w].reply # "sent"
           /\ worker'[w].batch = {}
           /\ w \in Request => worker'[w].pc # "idle"
<1>1. /\ UNCHANGED <<row, target, sends, reached, refused, cool>>
      /\ faults' = faults + 1 /\ faults < MaxFaults
      /\ \A v \in Worker \ {w} : worker'[v] = worker[v]
      /\ worker' = [worker EXCEPT ![w] = worker'[w]]
      /\ worker'[w] \in {Idle, [Idle EXCEPT !.pc = "done"],
                        [Idle EXCEPT !.pc = "done", !.reply = "error"]}
  BY DEF Stop, SubmitFails, StorageFails, Crash, Aborted, Fault, History, Forgets, TypeOK
<1>l. lost' \subseteq Request \X Chat
  BY DEF Stop, SubmitFails, StorageFails, Crash, History, Forgets, TypeOK
<1>2. worker'[w] \in WorkerState
  BY <1>1, IdleType DEF Step, Reply
<1>3. worker' \in [Worker -> WorkerState]
  BY <1>1, <1>2 DEF TypeOK
<1>4. faults' \in 0..MaxFaults
  BY <1>1, AlertConstants DEF TypeOK, AlertConstants
<1>5. /\ worker'[w].pc \in {"idle", "done"} /\ worker'[w].reply \in {None, "error"}
      /\ worker'[w].batch = {}
  <2> DEFINE done  == [Idle EXCEPT !.pc = "done"]
             error == [Idle EXCEPT !.pc = "done", !.reply = "error"]
  <2>1. Idle.pc = "idle" /\ Idle.reply = None /\ Idle.batch = {}
    BY DEF Idle
  <2>2. done.pc = "done" /\ done.reply = None /\ done.batch = {}
    BY DEF Idle
  <2>3. error.pc = "done" /\ error.reply = "error" /\ error.batch = {}
    BY DEF Idle
  <2>4. worker'[w] \in {Idle, done, error}
    BY <1>1
  <2> HIDE DEF done, error
  <2> QED
    BY <2>1, <2>2, <2>3, <2>4
<1>6. ASSUME w \in Request
      PROVE  worker'[w].pc # "idle"
  BY <1>6 DEF Stop, SubmitFails, StorageFails, Crash, Aborted, Idle, TypeOK
<1>7. worker'[w].reply # "sent"
  BY <1>5, AlertConstants DEF AlertConstants
<1> QED
  BY <1>1, <1>l, <1>3, <1>4, <1>5, <1>6, <1>7 DEF TypeOK

LEMMA ListDueType ==
    ASSUME TypeOK, NEW w \in Retrier, ListDue(w)
    PROVE  TypeOK'
<1>1. \A batch \in SUBSET Request :
        [Idle EXCEPT !.pc = "claim", !.batch = batch] \in WorkerState
  BY IdleType DEF Step
<1>2. worker' \in [Worker -> WorkerState]
  BY <1>1, IdleType DEF ListDue, TypeOK
<1> QED
  BY <1>2 DEF ListDue, History, TypeOK

LEMMA TickType ==
    ASSUME TypeOK, Tick
    PROVE  TypeOK'
<1>1. \A d \in Request :
        [row[d] EXCEPT !.nextIn = Sooner(@), !.lockIn = Sooner(@)] \in Row
  BY TimerType DEF TypeOK, Row
<1>2. row' \in [Request -> Row]
  BY <1>1 DEF Tick
<1>3. cool' \in [Request -> [Chat -> Nat]]
  BY TimerType DEF Tick, TypeOK
<1> QED
  BY <1>2, <1>3 DEF Tick, TypeOK

LEMMA NextType ==
    ASSUME TypeOK, Engaged, Next
    PROVE  TypeOK'
BY SubmitType, ClaimType, SendType, RecordType, FinalizeType, EscalateType, StopType,
   ListDueType, TickType DEF Next, Process, Stop, Worker

-----------------------------------------------------------------------------
(* The invariant. *)

\* A recorded success is a delivery, a recorded failure has a cause.
TargetAt(d, c) ==
    /\ target[d][c].error = "terminal" => <<d, c>> \in refused
    /\ target[d][c].status = "sent" => <<d, c>> \in reached
    /\ target[d][c].status = "failed" =>
         target[d][c].error = "terminal" \/ target[d][c].attempts >= MaxAttempts

RowAt(d) ==
    /\ row[d].status = "pending" => row[d].nextIn # None
    /\ row[d].status = "delivering" => row[d].lockIn # None
    /\ row[d].status = "completed" => {d} \X Recipients(target[d]) \subseteq reached

\* An escalation has a cause.
MarkAt(d) ==
    row[d].escalation # None =>
        row[d].status # "absent" /\ Cause(row[d].escalation, d, target[d], refused)

Inv ==
    /\ TypeOK
    /\ Engaged
    /\ \A d \in Request, c \in Chat : TargetAt(d, c)
    /\ \A d \in Request : RowAt(d) /\ MarkAt(d)

\* No step takes a row away, changes its recipients or unsends a message.
Grows ==
    /\ reached \subseteq reached' /\ refused \subseteq refused'
    /\ \A d \in Request : row[d].status # "absent" =>
         /\ \A c \in Chat : target[d][c].attempts >= MaxAttempts =>
                              target'[d][c].attempts >= MaxAttempts
         /\ row'[d].status # "absent"
         /\ Recipients(target'[d]) = Recipients(target[d])

\* What was the cause of an escalation once remains so.
LEMMA CauseStays ==
    ASSUME Grows, NEW d \in Request, row[d].status # "absent"
    PROVE  \A reason : Cause(reason, d, target[d], refused) =>
                        Cause(reason, d, target'[d], refused')
BY DEF Grows, Cause

LEMMA MarkStays ==
    ASSUME Grows, NEW d \in Request, MarkAt(d), row'[d].escalation = row[d].escalation
    PROVE  MarkAt(d)'
<1>1. ASSUME row[d].escalation # None
      PROVE  row'[d].status # "absent" /\ Cause(row[d].escalation, d, target'[d], refused')
  <2>1. row[d].status # "absent" /\ Cause(row[d].escalation, d, target[d], refused)
    BY <1>1 DEF MarkAt
  <2> QED
    BY <2>1, CauseStays DEF Grows
<1> QED
  BY <1>1 DEF MarkAt

\* A worker that a growing step leaves alone keeps what it knows.
LEMMA EngagedStays ==
    ASSUME TypeOK, Grows, NEW w \in Worker, EngagedAt(w), worker'[w] = worker[w],
           w \in Request /\ worker[w].pc = "idle" => row'[w] = row[w]
    PROVE  EngagedAt(w)'
<1>1. worker[w] \in WorkerState
  BY DEF TypeOK
<1>2. EngagedWith(w, worker[w].delivery, worker[w].attempt)'
  <2> DEFINE d == worker[w].delivery
  <2>1. ASSUME worker[w].pc = "escalate"
        PROVE  Cause(worker[w].reason, d, target'[d], refused')
    <3>1. /\ d \in Request /\ row[d].status # "absent"
          /\ Cause(worker[w].reason, d, target[d], refused)
      BY <2>1 DEF EngagedAt, EngagedWith
    <3> QED
      BY <3>1, CauseStays
  <2> QED
    BY <1>1, <2>1 DEF EngagedAt, EngagedWith, Grows
<1>3. \A d \in worker'[w].batch : row'[d].status # "absent"
  BY <1>1 DEF EngagedAt, Grows, WorkerState
<1> QED
  BY <1>2, <1>3 DEF EngagedAt

\* A worker that is done with its delivery.
LEMMA FinishedFacts ==
    ASSUME NEW w \in Worker, NEW d \in Request, NEW status \in Status
    PROVE  /\ Finished(w, d, status).pc \notin {"send", "record", "escalate"}
           /\ w \in Request => Finished(w, d, status).pc = "done"
           /\ Finished(w, d, status).reply = "sent" =>
                /\ Finished(w, d, status).pc = "done"
                /\ Finished(w, d, status).delivery = d
                /\ status = "completed"
           /\ Finished(w, d, status).batch \subseteq worker[w].batch
<1>1. ReplyFor(status) = "sent" => status = "completed"
  BY DEF ReplyFor, Status
<1>2. CASE w \in Request
  BY <1>1, <1>2 DEF Finished, Idle
<1>3. CASE w \notin Request
  <2>1. None # "sent"
    BY AlertConstants DEF AlertConstants
  <2>2. Idle.pc = "idle" /\ Idle.reply = None /\ Idle.batch = {}
    BY DEF Idle
  <2>3. /\ [Idle EXCEPT !.pc = "claim", !.batch = worker[w].batch].pc = "claim"
        /\ [Idle EXCEPT !.pc = "claim", !.batch = worker[w].batch].reply = None
        /\ [Idle EXCEPT !.pc = "claim", !.batch = worker[w].batch].batch = worker[w].batch
    BY DEF Idle
  <2>4. CASE worker[w].batch = {}
    BY <1>3, <2>1, <2>2, <2>4 DEF Finished
  <2>5. CASE worker[w].batch # {}
    BY <1>3, <2>1, <2>3, <2>5 DEF Finished
  <2> QED
    BY <2>4, <2>5
<1> QED
  BY <1>2, <1>3

LEMMA EngagedFinished ==
    ASSUME TypeOK, Grows, NEW w \in Worker, EngagedAt(w), NEW d \in Request,
           NEW status \in Status,
           worker'[w] = Finished(w, d, status), row[d].status # "absent",
           status = "completed" => {d} \X Recipients(target'[d]) \subseteq reached'
    PROVE  EngagedAt(w)'
<1>1. worker[w].batch \subseteq Request
  BY DEF TypeOK, WorkerState
<1>2. \A b \in worker'[w].batch : row'[b].status # "absent"
  BY <1>1, FinishedFacts DEF EngagedAt, Grows
<1>3. EngagedWith(w, worker[w].delivery, worker[w].attempt)'
  BY FinishedFacts DEF EngagedWith, Grows
<1> QED
  BY <1>2, <1>3, FinishedFacts DEF EngagedAt

\* A worker that is between deliveries, and one that is in the middle of one.
LEMMA EngagedBetween ==
    ASSUME TypeOK, Grows, NEW w \in Worker, EngagedAt(w),
           worker'[w].pc \notin {"send", "record", "escalate"},
           w \in Request => worker'[w].pc # "idle",
           worker'[w].reply # "sent", worker'[w].batch \subseteq worker[w].batch
    PROVE  EngagedAt(w)'
<1>1. worker[w].batch \subseteq Request
  BY DEF TypeOK, WorkerState
<1>2. \A b \in worker'[w].batch : row'[b].status # "absent"
  BY <1>1 DEF EngagedAt, Grows
<1>3. EngagedWith(w, worker[w].delivery, worker[w].attempt)'
  BY DEF EngagedWith
<1> QED
  BY <1>2, <1>3 DEF EngagedAt

LEMMA EngagedSending ==
    ASSUME TypeOK, Grows, NEW w \in Worker, EngagedAt(w), NEW d \in Request,
           worker'[w].pc = "send", worker'[w].delivery = d, row[d].status # "absent",
           worker'[w].todo \subseteq Recipients(target[d]),
           worker'[w].reply # "sent", worker'[w].batch \subseteq worker[w].batch
    PROVE  EngagedAt(w)'
<1>1. worker[w].batch \subseteq Request
  BY DEF TypeOK, WorkerState
<1>2. \A b \in worker'[w].batch : row'[b].status # "absent"
  BY <1>1 DEF EngagedAt, Grows
<1>3. EngagedWith(w, worker[w].delivery, worker[w].attempt)'
  BY DEF EngagedWith, Grows
<1> QED
  BY <1>2, <1>3 DEF EngagedAt

LEMMA InitInv == Init => Inv
<1>1. ASSUME Init
      PROVE  Engaged
  BY <1>1, AlertConstants
     DEF Init, Engaged, EngagedAt, EngagedWith, Idle, Absent, AlertConstants
<1>2. ASSUME Init
      PROVE  /\ \A d \in Request, c \in Chat : TargetAt(d, c)
             /\ \A d \in Request : RowAt(d) /\ MarkAt(d)
  BY <1>2, AlertConstants DEF Init, TargetAt, RowAt, MarkAt, NoTarget, Absent, AlertConstants
<1> QED
  BY <1>1, <1>2, InitType DEF Inv

\* enqueue_delivery.
LEMMA SubmitInv ==
    ASSUME Inv, NEW r \in Request, NEW key \in Key, NEW to \in (SUBSET Chat) \ {{}},
           Submit(r, key, to)
    PROVE  Inv'
<1> DEFINE prior == {d \in Request : row[d].status # "absent" /\ row[d].key = key}
<1>1. /\ TypeOK /\ TypeOK' /\ r \in Worker /\ Engaged
      /\ UNCHANGED <<sends, reached, refused, cool, lost, faults>>
      /\ worker[r].pc = "idle"
      /\ row[r].status = "absent"
      /\ \A w \in Worker \ {r} : worker'[w] = worker[w]
  <2>1. TypeOK /\ TypeOK' /\ r \in Worker /\ Engaged
    BY SubmitType DEF Inv, Worker
  <2>2. UNCHANGED <<sends, reached, refused, cool, lost, faults>> /\ worker[r].pc = "idle"
    BY DEF Submit, History, At
  <2>3. row[r].status = "absent"
    BY <2>1, <2>2 DEF Engaged, EngagedAt
  <2>4. \A w \in Worker \ {r} : worker'[w] = worker[w]
    BY <2>1 DEF Submit, TypeOK
  <2> QED
    BY <2>1, <2>2, <2>3, <2>4
<1>2. CASE key # None /\ prior # {}
  <2>1. PICK d \in prior :
          worker' = [worker EXCEPT ![r] = Finished(r, d, row[d].status)]
    BY <1>2 DEF Submit
  <2>2. UNCHANGED <<row, target>>
    BY <1>2 DEF Submit
  <2>3. Grows
    BY <1>1, <2>2 DEF Grows
  <2>4. \A w \in Worker \ {r} : EngagedAt(w)'
    BY <1>1, <2>2, <2>3, EngagedStays DEF Engaged
  <2>5. EngagedAt(r)'
    <3>1. /\ d \in Request /\ row[d].status \in Status /\ row[d].status # "absent"
          /\ row[d].status = "completed" => {d} \X Recipients(target[d]) \subseteq reached
      BY <1>1 DEF Inv, RowAt, TypeOK, Row
    <3>2. worker'[r] = Finished(r, d, row[d].status)
      BY <1>1, <2>1 DEF TypeOK
    <3> QED
      BY <1>1, <2>2, <2>3, <3>1, <3>2, EngagedFinished DEF Engaged
  <2>6. \A b \in Request, c \in Chat : TargetAt(b, c)'
    BY <1>1, <2>2 DEF Inv, TargetAt
  <2>7. \A b \in Request : RowAt(b)' /\ MarkAt(b)'
    BY <1>1, <2>2, <2>3, MarkStays DEF Inv, RowAt
  <2> QED
    BY <1>1, <2>4, <2>5, <2>6, <2>7 DEF Inv, Engaged
<1>3. CASE ~(key # None /\ prior # {})
  <2>1. /\ row' = [row EXCEPT ![r] =
             [Absent EXCEPT !.status = "pending", !.key = key, !.nextIn = 0]]
        /\ target' = [target EXCEPT ![r] =
             [c \in Chat |-> IF c \in to THEN [NoTarget EXCEPT !.status = "pending"]
                             ELSE NoTarget]]
        /\ worker' = [worker EXCEPT ![r] = [Idle EXCEPT !.pc = "claim", !.batch = {r}]]
    BY <1>3 DEF Submit
  <2>2. /\ row'[r].status = "pending" /\ row'[r].nextIn = 0 /\ row'[r].escalation = None
        /\ \A d \in Request \ {r} : row'[d] = row[d] /\ target'[d] = target[d]
        /\ \A c \in Chat : /\ target'[r][c].status \in {"pending", "none"}
                           /\ target'[r][c].error = None
        /\ worker'[r] = [Idle EXCEPT !.pc = "claim", !.batch = {r}]
    BY <1>1, <2>1 DEF TypeOK, Absent, NoTarget
  <2>3. Grows
    BY <1>1, <2>2 DEF Grows
  <2>4. \A w \in Worker \ {r} : EngagedAt(w)'
    BY <1>1, <2>2, <2>3, EngagedStays DEF Engaged
  <2>5. EngagedAt(r)'
    BY <1>1, <2>2, AlertConstants DEF EngagedAt, EngagedWith, Idle, AlertConstants
  <2>6. \A d \in Request, c \in Chat : TargetAt(d, c)'
    <3>1. \A c \in Chat : TargetAt(r, c)'
      BY <2>2, AlertConstants DEF TargetAt, AlertConstants
    <3>2. ASSUME NEW d \in Request \ {r}, NEW c \in Chat
          PROVE  TargetAt(d, c)'
      <4>1. /\ target'[d] = target[d] /\ refused' = refused /\ reached' = reached
            /\ TargetAt(d, c)
        BY <1>1, <2>2 DEF Inv
      <4> QED
        BY <4>1 DEF TargetAt
    <3> QED
      BY <3>1, <3>2
  <2>7. \A d \in Request : RowAt(d)' /\ MarkAt(d)'
    <3>1. RowAt(r)' /\ MarkAt(r)'
      BY <2>2, AlertConstants DEF RowAt, MarkAt, AlertConstants
    <3>2. ASSUME NEW d \in Request \ {r}
          PROVE  RowAt(d)' /\ MarkAt(d)'
      <4>1. row'[d] = row[d] /\ target'[d] = target[d] /\ reached' = reached
        BY <1>1, <2>2
      <4> QED
        BY <2>3, <4>1, MarkStays DEF Inv, RowAt
    <3> QED
      BY <3>1, <3>2
  <2> QED
    BY <1>1, <2>4, <2>5, <2>6, <2>7 DEF Inv, Engaged
<1> QED
  BY <1>2, <1>3

\* claim_delivery.
LEMMA ClaimInv ==
    ASSUME Inv, NEW w \in Worker, Claim(w)
    PROVE  Inv'
<1>1. PICK d \in worker[w].batch :
        IF Due(d)
        THEN /\ row' = [row EXCEPT ![d].status = "delivering", ![d].lockIn = ClaimTtl]
             /\ worker' = [worker EXCEPT ![w].pc = "send",
                                         ![w].delivery = d,
                                         ![w].batch = @ \ {d},
                                         ![w].todo = Unsent(target[d])]
        ELSE /\ worker' = [worker EXCEPT ![w] =
                  IF w \in Request THEN Finished(w, d, row[d].status)
                  ELSE IF worker[w].batch = {d} THEN Idle
                  ELSE [worker[w] EXCEPT !.batch = @ \ {d}]]
             /\ row' = row
  BY DEF Claim
<1>2. /\ TypeOK /\ TypeOK' /\ Engaged
      /\ UNCHANGED <<target, sends, reached, refused, cool, lost, faults>>
      /\ worker[w].pc = "claim"
      /\ worker[w] \in WorkerState
      /\ d \in Request /\ row[d].status # "absent" /\ row[d].status \in Status
      /\ \A v \in Worker \ {w} : worker'[v] = worker[v]
  <2>1. TypeOK /\ TypeOK' /\ Engaged
    BY ClaimType DEF Inv
  <2>2. UNCHANGED <<target, sends, reached, refused, cool, lost, faults>> /\ worker[w].pc = "claim"
    BY DEF Claim, History, At
  <2>3. d \in Request /\ worker[w] \in WorkerState
    BY <2>1 DEF TypeOK, WorkerState
  <2>4. row[d].status # "absent" /\ row[d].status \in Status
    BY <2>1, <2>3 DEF Engaged, EngagedAt, TypeOK, Row
  <2>5. \A v \in Worker \ {w} : worker'[v] = worker[v]
    BY <1>1, <2>1 DEF TypeOK
  <2> QED
    BY <2>1, <2>2, <2>3, <2>4, <2>5
<1>3. /\ \A b \in Request : b # d => row'[b] = row[b]
      /\ row'[d].status # "absent"
  BY <1>1, <1>2 DEF TypeOK, Row
<1>4. Grows
  BY <1>2, <1>3 DEF Grows
<1>5. \A v \in Worker \ {w} : EngagedAt(v)'
  <2>1. ASSUME NEW v \in Worker \ {w}, v \in Request, worker[v].pc = "idle"
        PROVE  v # d
    BY <1>2, <2>1 DEF Engaged, EngagedAt
  <2> QED
    BY <1>2, <1>3, <1>4, <2>1, EngagedStays DEF Engaged
<1>6. \A b \in Request, c \in Chat : TargetAt(b, c)'
  BY <1>2 DEF Inv, TargetAt
<1>7. CASE Due(d)
  <2>1. /\ row'[d].status = "delivering" /\ row'[d].lockIn = ClaimTtl
        /\ row'[d].escalation = row[d].escalation
        /\ worker'[w].pc = "send" /\ worker'[w].delivery = d
        /\ worker'[w].todo = Unsent(target[d])
        /\ worker'[w].batch = worker[w].batch \ {d}
        /\ worker'[w].reply = worker[w].reply
    BY <1>1, <1>2, <1>7 DEF TypeOK, Row, WorkerState
  <2>2. Unsent(target[d]) \subseteq Recipients(target[d])
    BY DEF Unsent, WithStatus, Recipients
  <2>3. worker[w].reply # "sent"
    BY <1>2 DEF Engaged, EngagedAt, EngagedWith
  <2>4. EngagedAt(w)'
    <3>1. EngagedAt(w) /\ worker'[w].batch \subseteq worker[w].batch
      BY <1>2, <2>1 DEF Engaged
    <3> QED
      BY <1>2, <1>4, <2>1, <2>2, <2>3, <3>1, EngagedSending
  <2>5. \A b \in Request : RowAt(b)' /\ MarkAt(b)'
    <3>1. \A b \in Request : row'[b].escalation = row[b].escalation
      BY <1>3, <2>1
    <3>2. \A b \in Request : RowAt(b)'
      BY <1>2, <1>3, <2>1, AlertConstants DEF Inv, RowAt, AlertConstants
    <3> QED
      BY <1>4, <3>1, <3>2, MarkStays DEF Inv
  <2> QED
    BY <1>2, <1>5, <1>6, <2>4, <2>5 DEF Inv, Engaged
<1>8. CASE ~Due(d)
  <2>1. /\ row' = row
        /\ worker'[w] = IF w \in Request THEN Finished(w, d, row[d].status)
                        ELSE IF worker[w].batch = {d} THEN Idle
                        ELSE [worker[w] EXCEPT !.batch = @ \ {d}]
    BY <1>1, <1>2, <1>8 DEF TypeOK
  <2>2. ASSUME w \in Request
        PROVE  EngagedAt(w)'
    <3>1. row[d].status = "completed" => {d} \X Recipients(target'[d]) \subseteq reached'
      BY <1>2 DEF Inv, RowAt
    <3>2. worker'[w] = Finished(w, d, row[d].status) /\ EngagedAt(w)
      BY <1>2, <2>1, <2>2 DEF Engaged
    <3> QED
      BY <1>2, <1>4, <3>1, <3>2, EngagedFinished
  <2>3. ASSUME w \notin Request, worker[w].batch = {d}
        PROVE  EngagedAt(w)'
    <3>1. worker'[w] = Idle /\ EngagedAt(w)
      BY <1>2, <2>1, <2>3 DEF Engaged
    <3>2. Idle.pc = "idle" /\ Idle.batch = {} /\ Idle.reply # "sent"
      BY AlertConstants DEF Idle, AlertConstants
    <3> QED
      BY <1>2, <1>4, <2>3, <3>1, <3>2, EngagedBetween
  <2>4. ASSUME w \notin Request, worker[w].batch # {d}
        PROVE  EngagedAt(w)'
    <3>1. /\ worker'[w].pc = "claim" /\ worker'[w].reply = worker[w].reply
          /\ worker'[w].batch = worker[w].batch \ {d}
      BY <1>2, <2>1, <2>4 DEF WorkerState
    <3>2. EngagedAt(w) /\ worker[w].reply # "sent"
      BY <1>2 DEF Engaged, EngagedAt, EngagedWith
    <3>3. worker'[w].batch \subseteq worker[w].batch
      BY <3>1
    <3> QED
      BY <1>2, <1>4, <2>4, <3>1, <3>2, <3>3, EngagedBetween
  <2>5. EngagedAt(w)'
    BY <2>2, <2>3, <2>4
  <2>6. \A b \in Request : RowAt(b)' /\ MarkAt(b)'
    BY <1>2, <1>4, <2>1, MarkStays DEF Inv, RowAt
  <2> QED
    BY <1>2, <1>5, <1>6, <2>5, <2>6 DEF Inv, Engaged
<1> QED
  BY <1>7, <1>8

\* sendMessage: a message that is taken for sent has been accepted.
LEMMA SendInv ==
    ASSUME Inv, NEW w \in Worker, Send(w)
    PROVE  Inv'
<1>0. PICK d \in Request : d = worker[w].delivery /\ row[d].status # "absent"
  BY DEF Send, At, Inv, Engaged, EngagedAt, EngagedWith
<1>1. PICK c \in worker[w].todo : \E a \in Classified(c) :
        /\ worker' = [worker EXCEPT ![w].pc = "record",
                                    ![w].todo = @ \ {c},
                                    ![w].attempt = a]
        /\ \/ a.status # "failed" /\ a.after = 0 /\ reached' = reached \cup {<<d, c>>}
           \/ a.status # "sent" /\ reached' = reached
        /\ refused' = IF a.status = "failed" THEN refused \cup {<<d, c>>} ELSE refused
  BY <1>0 DEF Send
<1>2. PICK a \in Classified(c) :
        /\ worker' = [worker EXCEPT ![w].pc = "record",
                                    ![w].todo = @ \ {c},
                                    ![w].attempt = a]
        /\ \/ a.status # "failed" /\ a.after = 0 /\ reached' = reached \cup {<<d, c>>}
           \/ a.status # "sent" /\ reached' = reached
        /\ refused' = IF a.status = "failed" THEN refused \cup {<<d, c>>} ELSE refused
  BY <1>1
<1>3. /\ TypeOK /\ TypeOK' /\ Engaged
      /\ UNCHANGED <<row, target>> /\ reached \subseteq reached' /\ refused \subseteq refused'
      /\ worker[w].pc = "send" /\ worker[w] \in WorkerState
      /\ \A v \in Worker \ {w} : worker'[v] = worker[v]
  BY <1>2, SendType DEF Inv, Send, At, TypeOK
<1>4. c \in Chat /\ c \in Recipients(target[d]) /\ worker[w].todo \subseteq Recipients(target[d])
  BY <1>0, <1>3 DEF Engaged, EngagedAt, EngagedWith, Recipients
<1>5. /\ a \in Attempt /\ a.chat = c
      /\ a.status = "sent" => <<d, c>> \in reached'
      /\ a.status = "failed" => a.error = "terminal"
      /\ a.error = "terminal" => <<d, c>> \in refused'
  BY <1>2, <1>4, AlertConstants DEF Classified, Attempt, AlertConstants
<1>6. Grows
  BY <1>3 DEF Grows
<1>7. \A v \in Worker \ {w} : EngagedAt(v)'
  BY <1>3, <1>6, EngagedStays DEF Engaged
<1>8. EngagedAt(w)'
  <2>1. /\ worker'[w].pc = "record" /\ worker'[w].delivery = d /\ worker'[w].attempt = a
        /\ worker'[w].todo = worker[w].todo \ {c}
        /\ worker'[w].batch = worker[w].batch
        /\ worker'[w].reply = worker[w].reply
    BY <1>0, <1>2, <1>3 DEF TypeOK, WorkerState
  <2>2. worker[w].reply # "sent"
    BY <1>3 DEF Engaged, EngagedAt, EngagedWith
  <2> QED
    BY <1>0, <1>3, <1>4, <1>5, <2>1, <2>2 DEF Engaged, EngagedAt, EngagedWith
<1>9. \A b \in Request, k \in Chat : TargetAt(b, k)'
  BY <1>3 DEF Inv, TargetAt
<1>10. \A b \in Request : RowAt(b)' /\ MarkAt(b)'
  BY <1>3, <1>6, MarkStays DEF Inv, RowAt
<1> QED
  BY <1>3, <1>7, <1>8, <1>9, <1>10 DEF Inv, Engaged

\* record_target_attempt, however late.
LEMMA RecordInv ==
    ASSUME Inv, NEW w \in Worker, Record(w)
    PROVE  Inv'
<1>1. PICK d \in Request : d = worker[w].delivery /\ row[d].status # "absent"
  BY DEF Record, At, Inv, Engaged, EngagedAt, EngagedWith
<1>2. PICK a \in Attempt :
        /\ a = worker[w].attempt
        /\ a.chat \in Recipients(target[d])
        /\ a.status = "sent" => <<d, a.chat>> \in reached
        /\ a.status = "failed" => a.error = "terminal"
        /\ a.error = "terminal" => <<d, a.chat>> \in refused
  BY <1>1 DEF Record, At, Inv, Engaged, EngagedAt, EngagedWith
<1> DEFINE t == Recorded(target[d][a.chat], a)
<1>3. /\ TypeOK /\ TypeOK' /\ Engaged
      /\ UNCHANGED <<sends, reached, refused, cool, lost, faults>>
      /\ worker[w].pc = "record" /\ worker[w] \in WorkerState
      /\ worker' = [worker EXCEPT ![w].pc = "send", ![w].attempt = None]
      /\ target' = [target EXCEPT ![d][a.chat] = t]
      /\ \/ row' = row
         \/ row' = [row EXCEPT ![d].nextIn = Postponed(@, RetryDelay(a))]
  BY <1>1, <1>2, RecordType DEF Inv, Record, At, History, TypeOK
<1>4. a.chat \in Chat /\ target[d][a.chat] \in Target
  BY <1>1, <1>2, <1>3 DEF Recipients, TypeOK
<1>5. /\ t.status # "none"
      /\ t.status = "sent" => a.status = "sent"
      /\ t.status = "failed" => t.error = "terminal" \/ t.attempts >= MaxAttempts
      /\ t.error = a.error
      /\ target[d][a.chat].attempts >= MaxAttempts => t.attempts >= MaxAttempts
  BY <1>2, <1>4, RecordedType, AlertConstants DEF Recorded, Attempt, Target, AlertConstants
<1>6. /\ target'[d][a.chat] = t
      /\ \A c \in Chat : c # a.chat => target'[d][c] = target[d][c]
      /\ \A b \in Request : b # d => target'[b] = target[b] /\ row'[b] = row[b]
  BY <1>3, <1>4 DEF TypeOK
<1>7. Recipients(target'[d]) = Recipients(target[d])
  BY <1>2, <1>4, <1>5, <1>6 DEF Recipients
<1>8. /\ row'[d].status = row[d].status /\ row'[d].lockIn = row[d].lockIn
      /\ row'[d].escalation = row[d].escalation
      /\ row[d].nextIn # None => row'[d].nextIn # None
  <2>1. Postponed(row[d].nextIn, RetryDelay(a)) # None
    BY <1>3, <1>4, RecordedType, TimerType DEF TypeOK, Row
  <2>2. row[d] \in Row
    BY <1>3 DEF TypeOK
  <2>3. row'[d] \in {row[d], [row[d] EXCEPT !.nextIn = Postponed(@, RetryDelay(a))]}
    BY <1>3 DEF TypeOK
  <2> QED
    BY <2>1, <2>2, <2>3 DEF Row
<1>9. Grows
  <2>1. \A c \in Chat : target[d][c].attempts >= MaxAttempts =>
                          target'[d][c].attempts >= MaxAttempts
    BY <1>5, <1>6
  <2> QED
    BY <1>3, <1>6, <1>7, <1>8, <2>1 DEF Grows
<1>10. \A v \in Worker \ {w} : EngagedAt(v)'
  <2>1. ASSUME NEW v \in Worker \ {w}, v \in Request, worker[v].pc = "idle"
        PROVE  v # d
    BY <1>1, <1>3, <2>1 DEF Engaged, EngagedAt
  <2>2. \A v \in Worker \ {w} : worker'[v] = worker[v]
    BY <1>3 DEF TypeOK
  <2> QED
    BY <1>3, <1>6, <1>9, <2>1, <2>2, EngagedStays DEF Engaged
<1>11. EngagedAt(w)'
  <2>1. /\ worker'[w].pc = "send" /\ worker'[w].delivery = d
        /\ worker'[w].todo = worker[w].todo
        /\ worker'[w].batch = worker[w].batch
        /\ worker'[w].reply = worker[w].reply
    BY <1>1, <1>3 DEF TypeOK, WorkerState
  <2>2. /\ EngagedAt(w) /\ worker[w].reply # "sent"
        /\ worker[w].todo \subseteq Recipients(target[d])
    BY <1>1, <1>3 DEF Engaged, EngagedAt, EngagedWith
  <2>3. /\ TypeOK /\ worker'[w].reply # "sent"
        /\ worker'[w].todo \subseteq Recipients(target[d])
        /\ worker'[w].batch \subseteq worker[w].batch
    BY <1>3, <2>1, <2>2
  <2> QED
    BY <1>1, <1>9, <2>1, <2>2, <2>3, EngagedSending
<1>12. \A b \in Request, c \in Chat : TargetAt(b, c)'
  <2>1. TargetAt(d, a.chat)'
    BY <1>2, <1>3, <1>5, <1>6 DEF TargetAt
  <2>2. ASSUME NEW b \in Request, NEW c \in Chat, b # d \/ c # a.chat
        PROVE  TargetAt(b, c)'
    <3>1. /\ target'[b][c] = target[b][c] /\ reached' = reached /\ refused' = refused
          /\ TargetAt(b, c)
      BY <1>3, <1>6, <2>2 DEF Inv
    <3> QED
      BY <3>1 DEF TargetAt
  <2> QED
    BY <2>1, <2>2
<1>13. \A b \in Request : RowAt(b)' /\ MarkAt(b)'
  <2>1. \A b \in Request : row'[b].escalation = row[b].escalation
    BY <1>6, <1>8
  <2>2. \A b \in Request : RowAt(b)'
    BY <1>3, <1>6, <1>7, <1>8 DEF Inv, RowAt
  <2> QED
    BY <1>9, <2>1, <2>2, MarkStays DEF Inv
<1> QED
  BY <1>3, <1>10, <1>11, <1>12, <1>13 DEF Inv, Engaged

\* What finalize_delivery decides from the targets ts of one delivery.
LEMMA FinalStatus ==
    ASSUME NEW ts \in [Chat -> Target],
           \A c \in Chat : ts[c].status = "failed" =>
                ts[c].error = "terminal" \/ ts[c].attempts >= MaxAttempts
    PROVE  /\ Aggregate(ts) = "completed" => WithStatus(ts, "sent") = Recipients(ts)
           /\ \A r \in Row :
                \/ EscalationReason(r, ts) = None
                \/ /\ EscalationReason(r, ts) = "terminal_target_failure"
                   /\ \E c \in Chat : ts[c].error = "terminal"
                \/ /\ EscalationReason(r, ts) = "retry_exhausted"
                   /\ \E c \in Chat : ts[c].attempts >= MaxAttempts
<1>1. Aggregate(ts) = "completed" => WithStatus(ts, "sent") = Recipients(ts)
  BY DEF Aggregate
<1>2. WithStatus(ts, "failed") # {} =>
        \/ \E c \in WithStatus(ts, "failed") : ts[c].error = "terminal"
        \/ \E c \in WithStatus(ts, "failed") : ts[c].attempts >= MaxAttempts
  BY DEF WithStatus
<1>3. WithStatus(ts, "failed") \subseteq Chat
  BY DEF WithStatus
<1> QED
  BY <1>1, <1>2, <1>3 DEF EscalationReason

\* finalize_delivery, however late.
LEMMA FinalizeInv ==
    ASSUME Inv, NEW w \in Worker, Finalize(w)
    PROVE  Inv'
<1>1. PICK d \in Request : d = worker[w].delivery /\ row[d].status # "absent"
  BY DEF Finalize, At, Inv, Engaged, EngagedAt, EngagedWith
<1> DEFINE ts     == Exhausted(target[d])
           status == Aggregate(ts)
           r      == [row[d] EXCEPT !.status = status,
                                    !.nextIn = FinalNext(status, row[d].nextIn),
                                    !.lockIn = None]
           reason == EscalationReason(r, ts)
<1>2. /\ TypeOK /\ TypeOK' /\ Engaged
      /\ UNCHANGED <<sends, reached, refused, cool, lost, faults>>
      /\ worker[w].pc = "send" /\ worker[w] \in WorkerState /\ row[d] \in Row
      /\ target' = [target EXCEPT ![d] = ts]
      /\ row' = [row EXCEPT ![d] = r]
      /\ worker' = [worker EXCEPT ![w] =
           IF reason = None THEN Finished(w, d, status)
           ELSE [worker[w] EXCEPT !.pc = "escalate", !.reason = reason]]
  BY <1>1, FinalizeType DEF Inv, Finalize, At, History, TypeOK
<1>3. /\ target[d] \in [Chat -> Target]
      /\ ts \in [Chat -> Target]
      /\ Recipients(ts) = Recipients(target[d])
      /\ WithStatus(ts, "sent") = WithStatus(target[d], "sent")
      /\ status \in {"completed", "pending", "failed"}
  BY <1>2, ExhaustedType DEF TypeOK
<1>4. \A c \in Chat : ts[c].status = "failed" =>
        ts[c].error = "terminal" \/ ts[c].attempts >= MaxAttempts
  <2>1. \A c \in Chat : target[d][c] \in Target /\ TargetAt(d, c)
    BY <1>3 DEF Inv
  <2> QED
    BY <2>1 DEF Exhausted, TargetAt, Target
<1>5. status = "completed" => {d} \X Recipients(ts) \subseteq reached
  <2>1. WithStatus(ts, "sent") \subseteq {c \in Chat : <<d, c>> \in reached}
    BY <1>3 DEF WithStatus, Inv, TargetAt
  <2>2. status = "completed" => Recipients(ts) \subseteq {c \in Chat : <<d, c>> \in reached}
    BY <1>3, <1>4, <2>1, FinalStatus
  <2> HIDE DEF ts, status
  <2> QED
    BY <2>2
<1>6. r \in Row
  BY <1>2, FinalizeType DEF TypeOK
<1>7. /\ reason # None => Cause(reason, d, target'[d], refused')
      /\ \A c \in Chat : ts[c].attempts = target[d][c].attempts /\ ts[c].error = target[d][c].error
  <2>1. \A c \in Chat : /\ ts[c].attempts = target[d][c].attempts
                        /\ ts[c].error = target[d][c].error
    BY <1>3 DEF Exhausted, Target
  <2>2. \/ reason = None
        \/ reason = "terminal_target_failure" /\ \E c \in Chat : ts[c].error = "terminal"
        \/ reason = "retry_exhausted" /\ \E c \in Chat : ts[c].attempts >= MaxAttempts
    BY <1>3, <1>4, <1>6, FinalStatus
  <2>3. target'[d] = ts /\ refused' = refused
    BY <1>2 DEF TypeOK
  <2>4. (\E c \in Chat : ts[c].error = "terminal") => \E c \in Chat : <<d, c>> \in refused
    BY <2>1 DEF Inv, TargetAt
  <2> HIDE DEF ts, reason
  <2>5. None # "terminal_target_failure" /\ None # "retry_exhausted"
    BY AlertConstants DEF AlertConstants
  <2> QED
    BY <2>1, <2>2, <2>3, <2>4, <2>5 DEF Cause
<1>8. FinalNext("pending", row[d].nextIn) # None
  BY <1>2, AlertConstants DEF FinalNext, AlertConstants
<1>9. /\ r.status = status /\ r.escalation = row[d].escalation
      /\ status = "pending" => r.nextIn # None
  <2> HIDE DEF ts, status
  <2> QED
    BY <1>2, <1>8 DEF Row
<1> HIDE DEF ts, status, r, reason
<1>10. /\ row'[d] = r /\ target'[d] = ts
       /\ \A b \in Request : b # d => row'[b] = row[b] /\ target'[b] = target[b]
       /\ \A v \in Worker \ {w} : worker'[v] = worker[v]
  BY <1>2 DEF TypeOK
<1>11. Grows
  BY <1>2, <1>3, <1>7, <1>9, <1>10 DEF Grows
<1>12. \A v \in Worker \ {w} : EngagedAt(v)'
  <2>1. ASSUME NEW v \in Worker \ {w}, v \in Request, worker[v].pc = "idle"
        PROVE  v # d
    BY <1>1, <1>2, <2>1 DEF Engaged, EngagedAt
  <2> QED
    BY <1>2, <1>10, <1>11, <2>1, EngagedStays DEF Engaged
<1>13. EngagedAt(w)'
  <2>1. EngagedAt(w) /\ worker[w].reply # "sent"
    BY <1>2 DEF Engaged, EngagedAt, EngagedWith
  <2>2. ASSUME reason = None
        PROVE  EngagedAt(w)'
    <3>1. worker'[w] = Finished(w, d, status) /\ status \in Status
      BY <1>2, <1>3, <2>2 DEF TypeOK, Status
    <3>2. status = "completed" => {d} \X Recipients(target'[d]) \subseteq reached'
      BY <1>2, <1>5, <1>10
    <3> QED
      BY <1>1, <1>2, <1>11, <2>1, <3>1, <3>2, EngagedFinished
  <2>3. ASSUME reason # None
        PROVE  EngagedAt(w)'
    <3>1. /\ worker'[w].pc = "escalate" /\ worker'[w].reason = reason
          /\ worker'[w].delivery = d /\ worker'[w].reply = worker[w].reply
          /\ worker'[w].batch = worker[w].batch
      BY <1>1, <1>2, <2>3 DEF TypeOK, WorkerState
    <3>2. \A b \in worker'[w].batch : row'[b].status # "absent"
      BY <1>2, <1>11, <2>1, <3>1 DEF EngagedAt, Grows, WorkerState
    <3>3. EngagedWith(w, worker[w].delivery, worker[w].attempt)'
      BY <1>1, <1>7, <1>11, <2>1, <2>3, <3>1 DEF EngagedWith, Grows
    <3> QED
      BY <3>1, <3>2, <3>3 DEF EngagedAt
  <2> QED
    BY <2>2, <2>3
<1>14. \A b \in Request, c \in Chat : TargetAt(b, c)'
  <2>1. ASSUME NEW c \in Chat
        PROVE  TargetAt(d, c)'
    <3>1. /\ ts[c].status = "sent" => <<d, c>> \in reached
          /\ ts[c].error = "terminal" => <<d, c>> \in refused
      BY <1>3, <1>7 DEF WithStatus, Inv, TargetAt
    <3> QED
      BY <1>2, <1>4, <1>10, <3>1 DEF TargetAt
  <2>2. ASSUME NEW b \in Request, NEW c \in Chat, b # d
        PROVE  TargetAt(b, c)'
    <3>1. /\ target'[b] = target[b] /\ reached' = reached /\ refused' = refused
          /\ TargetAt(b, c)
      BY <1>2, <1>10, <2>2 DEF Inv
    <3> QED
      BY <3>1 DEF TargetAt
  <2> QED
    BY <2>1, <2>2
<1>15. \A b \in Request : RowAt(b)' /\ MarkAt(b)'
  <2>0. \A b \in Request : MarkAt(b)'
    <3>1. \A b \in Request : row'[b].escalation = row[b].escalation
      BY <1>9, <1>10
    <3> QED
      BY <1>11, <3>1, MarkStays DEF Inv
  <2>1. RowAt(d)'
    BY <1>2, <1>3, <1>5, <1>9, <1>10 DEF Inv, RowAt
  <2>2. ASSUME NEW b \in Request, b # d
        PROVE  RowAt(b)'
    <3>1. row'[b] = row[b] /\ target'[b] = target[b] /\ reached' = reached /\ RowAt(b)
      BY <1>2, <1>10, <2>2 DEF Inv
    <3> QED
      BY <3>1 DEF RowAt
  <2> QED
    BY <2>0, <2>1, <2>2
<1> QED
  BY <1>2, <1>12, <1>13, <1>14, <1>15 DEF Inv, Engaged

\* mark_delivery_escalated.
LEMMA EscalateInv ==
    ASSUME Inv, NEW w \in Worker, Escalate(w)
    PROVE  Inv'
<1>1. PICK d \in Request : d = worker[w].delivery /\ row[d].status # "absent"
  BY DEF Escalate, At, Inv, Engaged, EngagedAt, EngagedWith
<1> DEFINE first  == row[d].escalation = None
           status == IF first THEN row[d].status ELSE "failed"
<1>2. /\ TypeOK /\ TypeOK' /\ Engaged
      /\ UNCHANGED <<target, sends, reached, refused, cool, lost, faults>>
      /\ row[d] \in Row /\ Cause(worker[w].reason, d, target[d], refused)
      /\ row' = IF first THEN [row EXCEPT ![d].escalation = worker[w].reason] ELSE row
      /\ worker' = [worker EXCEPT ![w] = Finished(w, d, status)]
  BY <1>1, EscalateType
     DEF Inv, Escalate, At, History, TypeOK, Engaged, EngagedAt, EngagedWith
<1>3. /\ row'[d].status = row[d].status /\ row'[d].nextIn = row[d].nextIn
      /\ row'[d].lockIn = row[d].lockIn
      /\ row'[d].escalation \in {row[d].escalation, worker[w].reason}
      /\ \A b \in Request : b # d => row'[b] = row[b]
      /\ \A v \in Worker \ {w} : worker'[v] = worker[v]
      /\ worker'[w] = Finished(w, d, status)
  BY <1>2 DEF TypeOK, Row
<1>4. Grows
  BY <1>2, <1>3 DEF Grows
<1>5. \A v \in Worker \ {w} : EngagedAt(v)'
  <2>1. ASSUME NEW v \in Worker \ {w}, v \in Request, worker[v].pc = "idle"
        PROVE  v # d
    BY <1>1, <1>2, <2>1 DEF Engaged, EngagedAt
  <2> QED
    BY <1>2, <1>3, <1>4, <2>1, EngagedStays DEF Engaged
<1>6. EngagedAt(w)'
  <2>1. status \in Status /\ EngagedAt(w)
    BY <1>2 DEF Status, Row, Engaged
  <2>2. status = "completed" => {d} \X Recipients(target'[d]) \subseteq reached'
    BY <1>2 DEF Inv, RowAt
  <2> HIDE DEF status
  <2> QED
    BY <1>1, <1>2, <1>3, <1>4, <2>1, <2>2, EngagedFinished
<1>7. \A b \in Request, c \in Chat : TargetAt(b, c)'
  BY <1>2 DEF Inv, TargetAt
<1>8. \A b \in Request : RowAt(b)' /\ MarkAt(b)'
  <2>1. \A b \in Request : RowAt(b)'
    BY <1>2, <1>3 DEF Inv, RowAt
  <2>2. \A b \in Request : b # d => MarkAt(b)'
    BY <1>3, <1>4, MarkStays DEF Inv
  <2>3. ASSUME row'[d].escalation # None
        PROVE  row'[d].status # "absent" /\ Cause(row'[d].escalation, d, target'[d], refused')
    <3>1. CASE row'[d].escalation = worker[w].reason
      BY <1>1, <1>2, <1>3, <3>1
    <3>2. CASE row'[d].escalation = row[d].escalation
      BY <1>1, <1>2, <1>3, <2>3, <3>2 DEF Inv, MarkAt
    <3> QED
      BY <1>3, <3>1, <3>2
  <2> QED
    BY <2>1, <2>2, <2>3 DEF MarkAt
<1> QED
  BY <1>2, <1>5, <1>6, <1>7, <1>8 DEF Inv, Engaged

\* The retry loop looks for work; a worker stops.
LEMMA IdleInv ==
    ASSUME Inv, NEW w \in Worker, Stop(w) \/ (w \in Retrier /\ ListDue(w))
    PROVE  Inv'
<1>1. /\ TypeOK /\ TypeOK' /\ Engaged
      /\ UNCHANGED <<row, target, sends, reached, refused, cool>>
      /\ \A v \in Worker \ {w} : worker'[v] = worker[v]
  BY StopType, ListDueType DEF Inv, ListDue, History, TypeOK
<1>2. Grows
  BY <1>1 DEF Grows
<1>3. \A v \in Worker \ {w} : EngagedAt(v)'
  BY <1>1, <1>2, EngagedStays DEF Engaged
<1>4. EngagedAt(w)'
  <2>1. ASSUME Stop(w)
        PROVE  EngagedAt(w)'
    <3>1. /\ worker'[w].pc \in {"idle", "done"} /\ worker'[w].reply # "sent"
          /\ worker'[w].batch = {}
          /\ w \in Request => worker'[w].pc # "idle"
      BY <1>1, <2>1, StopType
    <3>2. EngagedAt(w) /\ worker'[w].batch \subseteq worker[w].batch
      BY <1>1, <3>1 DEF Engaged
    <3> QED
      BY <1>1, <1>2, <3>1, <3>2, EngagedBetween
  <2>2. ASSUME w \in Retrier, ListDue(w)
        PROVE  EngagedAt(w)'
    <3>1. w \notin Request
      BY <2>2, AlertConstants DEF AlertConstants
    <3>0. PICK batch \in SUBSET Request :
            /\ Batch(batch)
            /\ worker' = [worker EXCEPT ![w] =
                 IF batch = {} THEN Idle ELSE [Idle EXCEPT !.pc = "claim", !.batch = batch]]
      BY <2>2 DEF ListDue
    <3>2. /\ worker'[w].pc \in {"idle", "claim"} /\ worker'[w].reply # "sent"
          /\ worker'[w].batch \subseteq {d \in Request : Due(d)}
      BY <1>1, <3>0, AlertConstants DEF Batch, Idle, TypeOK, AlertConstants
    <3>3. \A d \in worker'[w].batch : row'[d].status # "absent"
      BY <1>1, <3>2 DEF Due
    <3> QED
      BY <3>1, <3>2, <3>3 DEF EngagedAt, EngagedWith
  <2> QED
    BY <2>1, <2>2
<1>5. \A b \in Request, c \in Chat : TargetAt(b, c)'
  BY <1>1 DEF Inv, TargetAt
<1>6. \A b \in Request : RowAt(b)' /\ MarkAt(b)'
  BY <1>1, <1>2, MarkStays DEF Inv, RowAt
<1> QED
  BY <1>1, <1>3, <1>4, <1>5, <1>6 DEF Inv, Engaged

LEMMA TickInv ==
    ASSUME Inv, Tick
    PROVE  Inv'
<1>1. /\ TypeOK /\ TypeOK' /\ Engaged
      /\ UNCHANGED <<target, worker, sends, reached, refused, faults>>
  BY TickType DEF Inv, Tick
<1>2. \A d \in Request :
        /\ row'[d].status = row[d].status /\ row'[d].escalation = row[d].escalation
        /\ row[d].nextIn # None => row'[d].nextIn # None
        /\ row[d].lockIn # None => row'[d].lockIn # None
  <2>1. ASSUME NEW d \in Request
        PROVE  row[d] \in Row /\ row'[d] = [row[d] EXCEPT !.nextIn = Sooner(@),
                                                        !.lockIn = Sooner(@)]
    BY <1>1 DEF Tick, TypeOK
  <2>2. \A t \in Timer : t # None => Sooner(t) # None
    BY TimerType
  <2>3. ASSUME NEW d \in Request
        PROVE  /\ row'[d].status = row[d].status /\ row'[d].escalation = row[d].escalation
               /\ row'[d].nextIn = Sooner(row[d].nextIn) /\ row[d].nextIn \in Timer
               /\ row'[d].lockIn = Sooner(row[d].lockIn) /\ row[d].lockIn \in Timer
    BY <2>1 DEF Row
  <2> QED
    BY <2>2, <2>3
<1>3. Grows
  BY <1>1, <1>2 DEF Grows
<1>4. ASSUME NEW w \in Worker
      PROVE  EngagedAt(w)'
  <2>1. EngagedWith(w, worker[w].delivery, worker[w].attempt)'
    BY <1>1, <1>3 DEF Engaged, EngagedAt, EngagedWith, Grows, Cause
  <2>2. \A d \in worker'[w].batch : row'[d].status # "absent"
    BY <1>1, <1>3 DEF Engaged, EngagedAt, Grows, TypeOK, WorkerState
  <2> QED
    BY <1>1, <1>2, <2>1, <2>2 DEF Engaged, EngagedAt
<1>5. \A d \in Request, c \in Chat : TargetAt(d, c)'
  BY <1>1 DEF Inv, TargetAt
<1>6. \A d \in Request : RowAt(d)' /\ MarkAt(d)'
  BY <1>1, <1>2, <1>3, MarkStays DEF Inv, RowAt
<1> QED
  BY <1>1, <1>4, <1>5, <1>6 DEF Inv, Engaged

-----------------------------------------------------------------------------
(* Theorems. *)

\* The invariant holds in every state of every behaviour, whether or not
\* workers keep inside their leases.
THEOREM Invariance == Spec => []Inv
<1>1. Inv /\ [Next]_vars => Inv'
  <2>1. CASE Next
    BY <2>1, SubmitInv, ClaimInv, SendInv, RecordInv, FinalizeInv, EscalateInv, IdleInv, TickInv
       DEF Next, Process, Stop, Worker
  <2>2. CASE UNCHANGED vars
    BY <2>2 DEF vars, Inv, TypeOK, Engaged, EngagedAt, EngagedWith, TargetAt, RowAt, MarkAt, Cause
  <2> QED
    BY <2>1, <2>2
<1> QED
  BY InitInv, <1>1, PTL DEF Spec

\* Every variable keeps its type.
THEOREM TypeCorrect == Spec => []TypeOK
BY Invariance, PTL DEF Inv

\* Neither crashes nor late writers leave an unfinished row without the
\* timestamp the retry loop selects it by.
THEOREM NoneStranded == Spec => []NothingStranded
<1>1. Inv => NothingStranded
  BY DEF Inv, RowAt, NothingStranded
<1> QED
  BY <1>1, Invariance, PTL

\* A completed delivery has reached every recipient, even when workers write
\* to it after their lease ran out.
THEOREM Delivered == Spec => []CompletedMeansDelivered
<1>1. Inv => CompletedMeansDelivered
  BY DEF Inv, RowAt, CompletedMeansDelivered
<1> QED
  BY <1>1, Invariance, PTL

\* A caller of /telegram/alerts who is told "sent" can rely on it.
THEOREM SentReplyHolds == Spec => []SentReplyMeansDelivered
<1>1. Inv => SentReplyMeansDelivered
  BY DEF Inv, Engaged, EngagedAt, EngagedWith, SentReplyMeansDelivered, Worker
<1> QED
  BY <1>1, Invariance, PTL

\* An escalation always names its cause.
THEOREM Explained == Spec => []EscalationExplained
<1>1. Inv => EscalationExplained
  BY DEF Inv, MarkAt, Cause, EscalationExplained
<1> QED
  BY <1>1, Invariance, PTL

=============================================================================
