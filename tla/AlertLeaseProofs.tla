-------------------------- MODULE AlertLeaseProofs --------------------------
(***************************************************************************)
(* Proofs about AlertDelivery under Timely: what the lease is good for, as *)
(* long as workers keep inside it.  For any number of requests, workers,   *)
(* recipients, attempts and faults, and any timeouts.                      *)
(***************************************************************************)
EXTENDS AlertDeliveryProofs

(* What a worker in mid-work holds of the delivery d: the row is its own,  *)
(* with time left, and what it has yet to send may be sent.                *)
HeldAt(w, d) ==
    /\ row[d].status = "delivering" /\ row[d].lockIn # 0
    /\ worker[w].todo \subseteq Unsent(target[d])
    /\ \A c \in worker[w].todo : cool[d][c] = 0 \/ <<d, c>> \in lost
    /\ worker[w].pc = "record" =>
         /\ worker[w].attempt.chat \in Unsent(target[d]) \ worker[w].todo
         /\ cool[d][worker[w].attempt.chat] <= worker[w].attempt.after

Held(w) == InLease(w) => HeldAt(w, worker[w].delivery)

Recorder(d, c) ==
    \E w \in Worker : /\ worker[w].pc = "record" /\ worker[w].delivery = d
                      /\ worker[w].attempt.chat = c

(* next_attempt_at is late enough for every chat that is waited for, but   *)
(* for the waits still in the hands of a worker, and the lost ones.        *)
Cooling(d, c) ==
    /\ row[d].status = "absent" => cool[d][c] = 0 /\ sends[d][c] = 0
    /\ row[d].status \in {"pending", "delivering"} /\ target[d][c].status = "pending" =>
         /\ row[d].nextIn # None
         /\ cool[d][c] <= row[d].nextIn \/ <<d, c>> \in lost \/ Recorder(d, c)

(* Every call is counted, about to be counted, or lost with a fault.       *)
Counted(d, c) ==
    /\ target[d][c].attempts <= MaxAttempts
    /\ target[d][c].status = "pending" => target[d][c].attempts < MaxAttempts
    /\ \/ sends[d][c] <= target[d][c].attempts + faults
       \/ Recorder(d, c) /\ sends[d][c] <= target[d][c].attempts + faults + 1

LeaseInv ==
    /\ \A w \in Worker : Held(w)
    /\ LeaseExclusion
    /\ \A d \in Request, c \in Chat : Cooling(d, c) /\ Counted(d, c)

(* No other worker is inside the delivery d.                               *)
Free(w, d) ==
    \A v \in Worker \ {w} : InLease(v) => worker[v].delivery # d

-----------------------------------------------------------------------------
(* Workers that a step leaves alone.                                       *)

LEMMA HeldStays ==
    ASSUME NEW w \in Worker, Held(w), worker'[w] = worker[w], NEW d,
           InLease(w) => worker[w].delivery = d,
           InLease(w) => /\ row'[d].status = row[d].status
                         /\ row'[d].lockIn = row[d].lockIn
                         /\ target'[d] = target[d] /\ cool'[d] = cool[d]
                         /\ \A c \in worker[w].todo : <<d, c>> \in lost => <<d, c>> \in lost'
    PROVE  Held(w)'
BY DEF Held, HeldAt, InLease

LEMMA LeasesStay ==
    ASSUME Inv, LeaseInv, NEW w \in Worker, NEW d \in Request, Free(w, d),
           \A v \in Worker \ {w} : worker'[v] = worker[v],
           \A b \in Request \ {d} : /\ row'[b] = row[b] /\ target'[b] = target[b]
                                    /\ cool'[b] = cool[b]
                                    /\ \A c \in Chat : <<b, c>> \in lost => <<b, c>> \in lost',
           InLease(w)' => worker'[w].delivery = d
    PROVE  LeaseExclusion' /\ \A v \in Worker \ {w} : Held(v)'
<1>1. ASSUME NEW v \in Worker \ {w}
      PROVE  Held(v)' /\ (InLease(v)' => InLease(v) /\ worker'[v].delivery = worker[v].delivery)
  <2>1. /\ InLease(v) => worker[v].delivery \in Request \ {d}
        /\ worker[v].todo \subseteq Chat
    BY DEF Free, InLease, Inv, Engaged, EngagedAt, EngagedWith, TypeOK, WorkerState
  <2> QED
    BY <2>1, HeldStays DEF LeaseInv, InLease
<1>2. LeaseExclusion'
  BY <1>1 DEF LeaseExclusion, LeaseInv, Free, InLease
<1> QED
  BY <1>1, <1>2

(* A delivery is held by one worker, and by none that may still claim it.  *)
LEMMA FreeFacts ==
    ASSUME Inv, LeaseInv, NEW w \in Worker, NEW d \in Request
    PROVE  /\ InLease(w) /\ worker[w].delivery = d => Free(w, d)
           /\ Due(d) => Free(w, d)
           /\ row[d].status # "delivering" => Free(w, d)
<1>1. InLease(w) /\ worker[w].delivery = d => Free(w, d)
  BY DEF LeaseInv, LeaseExclusion, Free
<1>2. ASSUME NEW v \in Worker, InLease(v), worker[v].delivery = d
      PROVE  row[d].status = "delivering" /\ row[d].lockIn # 0
  BY <1>2 DEF LeaseInv, Held, HeldAt
<1> QED
  BY <1>1, <1>2 DEF Free, Due, Past

(* The counts of a target that a step leaves alone.                        *)
LEMMA CountedStays ==
    ASSUME TypeOK, TypeOK', NEW d \in Request, NEW c \in Chat, Counted(d, c),
           sends'[d][c] = sends[d][c], target'[d][c].attempts = target[d][c].attempts,
           target'[d][c].status = "pending" => target[d][c].status = "pending",
           \/ faults' = faults /\ (Recorder(d, c) => Recorder(d, c)')
           \/ faults' = faults + 1
    PROVE  Counted(d, c)'
<1>1. /\ sends[d][c] \in Nat /\ target[d][c].attempts \in Nat /\ faults \in Nat
  BY AlertConstants DEF TypeOK, Target, AlertConstants
<1> QED
  BY <1>1 DEF Counted

LEMMA RecorderStays ==
    ASSUME NEW w \in Worker, NEW d \in Request, NEW c \in Chat, Recorder(d, c),
           \A v \in Worker \ {w} : worker'[v] = worker[v],
           ~(/\ worker[w].pc = "record" /\ worker[w].delivery = d
             /\ worker[w].attempt.chat = c)
    PROVE  Recorder(d, c)'
BY DEF Recorder

-----------------------------------------------------------------------------
(* Every action preserves the invariant.                                   *)

\* The worker that took a step is not inside a delivery.
LEMMA OutOfLease ==
    ASSUME NEW w \in Worker, ~InLease(w)'
    PROVE  Held(w)'
BY DEF Held

LEMMA SubmitLease ==
    ASSUME Inv, LeaseInv, NEW r \in Request, NEW key \in Key,
           NEW to \in (SUBSET Chat) \ {{}}, Submit(r, key, to)
    PROVE  LeaseInv'
<1> DEFINE prior == {d \in Request : row[d].status # "absent" /\ row[d].key = key}
<1>1. /\ TypeOK /\ TypeOK' /\ r \in Worker
      /\ UNCHANGED <<sends, reached, cool, lost, faults>>
      /\ worker[r].pc = "idle" /\ row[r].status = "absent"
      /\ \A v \in Worker \ {r} : worker'[v] = worker[v]
  BY SubmitType DEF Inv, Engaged, EngagedAt, Worker, Submit, History, At, TypeOK
<1>2. worker'[r].pc \notin {"send", "record"}
  <2>1. \A d \in Request : Finished(r, d, row[d].status).pc = "done"
    BY <1>1, FinishedFacts DEF TypeOK, Row
  <2>2. [Idle EXCEPT !.pc = "claim", !.batch = {r}].pc = "claim"
    BY DEF Idle
  <2> QED
    BY <1>1, <2>1, <2>2 DEF Submit, TypeOK
<1>3. /\ \A b \in Request \ {r} : row'[b] = row[b] /\ target'[b] = target[b]
      /\ \/ row'[r] = row[r] /\ target'[r] = target[r]
         \/ /\ row'[r].status = "pending" /\ row'[r].nextIn = 0
            /\ \A c \in Chat : target'[r][c].attempts = 0
  <2>1. CASE key # None /\ prior # {}
    BY <1>1, <2>1 DEF Submit
  <2>2. CASE ~(key # None /\ prior # {})
    <3>1. /\ row' = [row EXCEPT ![r] =
               [Absent EXCEPT !.status = "pending", !.key = key, !.nextIn = 0]]
          /\ target' = [target EXCEPT ![r] =
               [c \in Chat |-> IF c \in to THEN [NoTarget EXCEPT !.status = "pending"]
                               ELSE NoTarget]]
      BY <2>2 DEF Submit
    <3> QED
      BY <1>1, <3>1 DEF TypeOK, Absent, NoTarget
  <2> QED
    BY <2>1, <2>2
<1>4. Free(r, r) /\ ~InLease(r)'
  BY <1>1, <1>2, FreeFacts DEF InLease
<1>5. LeaseExclusion' /\ \A w \in Worker : Held(w)'
  BY <1>1, <1>3, <1>4, LeasesStay, OutOfLease
<1>6. ASSUME NEW d \in Request, NEW c \in Chat
      PROVE  Cooling(d, c)' /\ Counted(d, c)'
  <2>1. Cooling(d, c) /\ Counted(d, c)
    BY DEF LeaseInv
  <2>2. Recorder(d, c) => Recorder(d, c)'
    BY <1>1, RecorderStays
  <2>3. CASE row'[d] = row[d] /\ target'[d] = target[d]
    <3>1. Cooling(d, c)'
      BY <1>1, <2>1, <2>2, <2>3 DEF Cooling
    <3> QED
      BY <1>1, <2>1, <2>2, <2>3, <3>1, CountedStays
  <2>4. CASE ~(row'[d] = row[d] /\ target'[d] = target[d])
    <3>1. /\ d = r /\ row'[d].status = "pending" /\ row'[d].nextIn = 0
          /\ target'[d][c].attempts = 0
      BY <1>3, <2>4
    <3>2. cool[d][c] = 0 /\ sends[d][c] = 0 /\ faults \in Nat
      BY <1>1, <2>1, <3>1, AlertConstants DEF Cooling, TypeOK, AlertConstants
    <3> QED
      BY <1>1, <3>1, <3>2, AlertConstants DEF Cooling, Counted, AlertConstants
  <2> QED
    BY <2>3, <2>4
<1> QED
  BY <1>5, <1>6 DEF LeaseInv

LEMMA ClaimLease ==
    ASSUME Inv, LeaseInv, NEW w \in Worker, Claim(w)
    PROVE  LeaseInv'
<1>1. PICK d \in worker[w].batch :
        IF Due(d)
        THEN /\ row' = [row EXCEPT ![d].status = "delivering", ![d].lockIn = ClaimTtl]
             /\ worker' = [worker EXCEPT ![w].pc = "send",
                                         ![w].delivery = d,
                                         ![w].batch = @ \ {d},
                                         ![w].todo = Unsent(target[d])]
        ELSE /\ worker' = [worker EXCEPT ![w] =
                  IF w \in Request THEN Finished(w, d, row[d].status)
                  ELSE IF worker[w].batch = {d} THEN Idle
                  ELSE [worker[w] EXCEPT !.batch = @ \ {d}]]
             /\ row' = row
  BY DEF Claim
<1>2. /\ TypeOK /\ TypeOK' /\ worker[w].pc = "claim"
      /\ UNCHANGED <<target, sends, reached, cool, lost, faults>>
      /\ worker[w] \in WorkerState /\ d \in Request /\ row[d] \in Row
  BY ClaimType DEF Inv, Claim, At, History, TypeOK, WorkerState
<1>3. /\ \A v \in Worker \ {w} : worker'[v] = worker[v]
      /\ \A b \in Request \ {d} : row'[b] = row[b]
      /\ row'[d].nextIn = row[d].nextIn
  BY <1>1, <1>2 DEF TypeOK, Row
<1>4. CASE Due(d)
  <2>1. /\ row'[d].status = "delivering" /\ row'[d].lockIn = ClaimTtl
        /\ worker'[w].pc = "send" /\ worker'[w].delivery = d
        /\ worker'[w].todo = Unsent(target[d])
    BY <1>1, <1>2, <1>4 DEF TypeOK, Row, WorkerState
  <2>2. LeaseExclusion' /\ \A v \in Worker \ {w} : Held(v)'
    BY <1>2, <1>3, <1>4, <2>1, FreeFacts, LeasesStay
  <2>3. ASSUME NEW c \in Unsent(target[d])
        PROVE  cool[d][c] = 0 \/ <<d, c>> \in lost
    <3>1. Cooling(d, c) /\ c \in Chat /\ target[d][c].status = "pending"
      BY <1>2 DEF LeaseInv, Unsent, WithStatus
    <3>2. /\ cool[d][c] \in Nat /\ row[d].nextIn = 0
          /\ cool[d][c] <= row[d].nextIn \/ <<d, c>> \in lost
      <4>0. ~Recorder(d, c)
        BY <1>2, <1>4, FreeFacts DEF Recorder, Free, InLease
      <4>1. cool[d][c] \in Nat
        BY <1>2, <3>1 DEF TypeOK
      <4>2. row[d].status \in {"pending", "delivering"}
        BY <1>4 DEF Due
      <4>3. /\ row[d].nextIn # None
            /\ cool[d][c] <= row[d].nextIn \/ <<d, c>> \in lost
        BY <3>1, <4>0, <4>2 DEF Cooling
      <4> QED
        BY <1>4, <4>1, <4>3 DEF Due, Past
    <3> QED
      BY <3>2
  <2>4. Held(w)'
    BY <1>2, <2>1, <2>3, AlertConstants DEF Held, HeldAt, AlertConstants
  <2>5. ASSUME NEW b \in Request, NEW c \in Chat
        PROVE  Cooling(b, c)' /\ Counted(b, c)'
    <3>1. Cooling(b, c) /\ Counted(b, c) /\ (Recorder(b, c) => Recorder(b, c)')
      BY <1>2, <1>3, RecorderStays DEF LeaseInv
    <3>2. Counted(b, c)'
      BY <1>2, <3>1, CountedStays
    <3>3. Cooling(b, c)'
      <4>1. row[d].status \in {"pending", "delivering"}
        BY <1>4 DEF Due
      <4> QED
        BY <1>2, <1>3, <2>1, <3>1, <4>1 DEF Cooling
    <3> QED
      BY <3>2, <3>3
  <2> QED
    BY <2>2, <2>4, <2>5 DEF LeaseInv
<1>5. CASE ~Due(d)
  <2>1. worker'[w].pc \notin {"send", "record"}
    <3>1. row[d].status \in Status /\ Idle.pc = "idle"
      BY <1>2 DEF Row, Idle
    <3>2. [worker[w] EXCEPT !.batch = @ \ {d}].pc = "claim"
      BY <1>2 DEF WorkerState
    <3>3. worker'[w] \in {Finished(w, d, row[d].status), Idle,
                         [worker[w] EXCEPT !.batch = @ \ {d}]}
      BY <1>1, <1>2, <1>5 DEF TypeOK
    <3>4. Finished(w, d, row[d].status).pc \notin {"send", "record"}
      BY <1>2, <3>1, FinishedFacts
    <3> QED
      BY <3>1, <3>2, <3>3, <3>4
  <2>2. row' = row
    BY <1>1, <1>5
  <2>3. \A v \in Worker : Held(v)'
    BY <1>2, <1>3, <2>1, <2>2, HeldStays DEF LeaseInv, Held, InLease
  <2>4. LeaseExclusion'
    BY <1>3, <2>1 DEF LeaseInv, LeaseExclusion, InLease
  <2>5. ASSUME NEW b \in Request, NEW c \in Chat
        PROVE  Cooling(b, c)' /\ Counted(b, c)'
    <3>1. Cooling(b, c) /\ Counted(b, c) /\ (Recorder(b, c) => Recorder(b, c)')
      BY <1>2, <1>3, RecorderStays DEF LeaseInv
    <3> QED
      BY <1>2, <2>2, <3>1, CountedStays DEF Cooling
  <2> QED
    BY <2>3, <2>4, <2>5 DEF LeaseInv
<1> QED
  BY <1>4, <1>5

\* sendMessage: the claim made sure that the chat may be tried, and leaves it
\* one attempt at least.
LEMMA SendLease ==
    ASSUME Inv, LeaseInv, NEW w \in Worker, Send(w)
    PROVE  LeaseInv'
<1>1. PICK d \in Request : d = worker[w].delivery
  BY DEF Send, At, Inv, Engaged, EngagedAt, EngagedWith
<1>2. PICK c \in worker[w].todo : \E a \in Classified(c) :
        /\ worker' = [worker EXCEPT ![w].pc = "record",
                                    ![w].todo = @ \ {c},
                                    ![w].attempt = a]
        /\ sends' = [sends EXCEPT ![d][c] = @ + 1]
        /\ cool' = [cool EXCEPT ![d][c] = a.after]
        /\ lost' = lost \ {<<d, c>>}
  BY <1>1 DEF Send
<1>3. PICK a \in Classified(c) :
        /\ worker' = [worker EXCEPT ![w].pc = "record",
                                    ![w].todo = @ \ {c},
                                    ![w].attempt = a]
        /\ sends' = [sends EXCEPT ![d][c] = @ + 1]
        /\ cool' = [cool EXCEPT ![d][c] = a.after]
        /\ lost' = lost \ {<<d, c>>}
  BY <1>2
<1>4. /\ TypeOK /\ TypeOK' /\ worker[w].pc = "send" /\ worker[w] \in WorkerState
      /\ UNCHANGED <<row, target, faults>>
      /\ \A v \in Worker \ {w} : worker'[v] = worker[v]
  BY <1>3, SendType DEF Inv, Send, At, TypeOK
<1>5. /\ worker'[w].pc = "record" /\ worker'[w].delivery = d
      /\ worker'[w].todo = worker[w].todo \ {c} /\ worker'[w].attempt = a
  BY <1>1, <1>3, <1>4 DEF TypeOK, WorkerState
<1>6. /\ a.chat = c /\ c \in Chat /\ a.after \in Nat
      /\ cool'[d][c] = a.after
      /\ \A b \in Request, e \in Chat : b # d \/ e # c =>
           cool'[b][e] = cool[b][e] /\ (<<b, e>> \in lost => <<b, e>> \in lost')
      /\ \A b \in Request \ {d} : cool'[b] = cool[b]
  <2>1. a.chat = c /\ c \in Chat /\ a.after \in Nat
    BY <1>4, AlertConstants DEF Classified, WorkerState, AlertConstants
  <2> QED
    BY <1>3, <1>4, <2>1 DEF TypeOK
<1>7. HeldAt(w, d)
  BY <1>1, <1>4 DEF LeaseInv, Held, InLease
<1>8. LeaseExclusion' /\ \A v \in Worker \ {w} : Held(v)'
  BY <1>1, <1>4, <1>5, <1>6, FreeFacts, LeasesStay DEF InLease
<1>9. Held(w)'
  <2>1. worker[w].todo \subseteq Chat /\ cool'[d][c] <= a.after
    BY <1>4, <1>6 DEF WorkerState
  <2> QED
    BY <1>4, <1>5, <1>6, <1>7, <2>1 DEF Held, HeldAt, Unsent, WithStatus
<1>10. ASSUME NEW b \in Request, NEW e \in Chat
       PROVE  Cooling(b, e)' /\ Counted(b, e)'
  <2>1. Cooling(b, e) /\ Counted(b, e) /\ sends[b][e] \in Nat /\ faults \in Nat
        /\ target[b][e].attempts \in Nat
    BY <1>4, AlertConstants DEF LeaseInv, TypeOK, Target, AlertConstants
  <2>2. CASE b = d /\ e = c
    <3>1. sends'[b][e] = sends[b][e] + 1 /\ target[b][e].status = "pending"
      BY <1>3, <1>4, <1>6, <1>7, <2>2 DEF TypeOK, HeldAt, Unsent, WithStatus
    <3>2. sends[b][e] <= target[b][e].attempts + faults
      <4>1. ~Recorder(b, e)
        <5>1. Free(w, d)
          BY <1>1, <1>4, FreeFacts DEF InLease
        <5> QED
          BY <1>4, <2>2, <5>1 DEF Recorder, Free, InLease
      <4> QED
        BY <2>1, <4>1 DEF Counted
    <3>3. Recorder(b, e)'
      BY <1>5, <1>6, <2>2 DEF Recorder
    <3>4. row[b].status # "absent"
      BY <1>7, <2>2 DEF HeldAt
    <3>5. Cooling(b, e)'
      BY <1>4, <2>1, <3>3, <3>4 DEF Cooling
    <3>6. Counted(b, e)'
      BY <1>4, <2>1, <3>1, <3>2, <3>3 DEF Counted
    <3> QED
      BY <3>5, <3>6
  <2>3. CASE ~(b = d /\ e = c)
    <3>1. sends'[b][e] = sends[b][e]
      BY <1>3, <1>4, <2>3 DEF TypeOK
    <3>2. Recorder(b, e) => Recorder(b, e)'
      BY <1>4, RecorderStays
    <3>3. Cooling(b, e)'
      BY <1>4, <1>6, <2>1, <2>3, <3>1, <3>2 DEF Cooling
    <3> QED
      BY <1>4, <2>1, <3>1, <3>2, <3>3, CountedStays
  <2> QED
    BY <2>2, <2>3
<1> QED
  BY <1>8, <1>9, <1>10 DEF LeaseInv

\* record_target_attempt by the worker that holds the lease: the attempt is
\* counted, and next_attempt_at moves far enough.
LEMMA RecordLease ==
    ASSUME Inv, LeaseInv, NEW w \in Worker, Record(w)
    PROVE  LeaseInv'
<1>1. PICK d \in Request, a \in Attempt : d = worker[w].delivery /\ a = worker[w].attempt
  BY DEF Record, At, Inv, Engaged, EngagedAt, EngagedWith
<1> DEFINE t == Recorded(target[d][a.chat], a)
<1>2. /\ TypeOK /\ TypeOK' /\ worker[w].pc = "record" /\ worker[w] \in WorkerState
      /\ UNCHANGED <<sends, reached, cool, lost, faults>>
      /\ worker' = [worker EXCEPT ![w].pc = "send", ![w].attempt = None]
      /\ target' = [target EXCEPT ![d][a.chat] = t]
      /\ IF t.status = "pending"
         THEN row' = [row EXCEPT ![d].nextIn = Postponed(@, RetryDelay(a))]
         ELSE row' = row
  BY <1>1, RecordType DEF Inv, Record, At, History, TypeOK
<1>3. a.chat \in Chat /\ a.after \in Nat /\ target[d][a.chat] \in Target /\ row[d] \in Row
  BY <1>1, <1>2 DEF Attempt, TypeOK
<1>4. /\ HeldAt(w, d)
      /\ target[d][a.chat].status = "pending" /\ a.chat \notin worker[w].todo
      /\ cool[d][a.chat] <= a.after
  BY <1>1, <1>2 DEF LeaseInv, Held, HeldAt, InLease, Unsent, WithStatus
<1>5. /\ worker'[w].pc = "send" /\ worker'[w].delivery = d
      /\ worker'[w].todo = worker[w].todo
      /\ \A v \in Worker \ {w} : worker'[v] = worker[v]
  BY <1>1, <1>2 DEF TypeOK, WorkerState
<1>6. /\ target'[d][a.chat] = t
      /\ \A c \in Chat : c # a.chat => target'[d][c] = target[d][c]
      /\ \A b \in Request : b # d => target'[b] = target[b]
  BY <1>2, <1>3 DEF TypeOK
<1>7. /\ row'[d].status = row[d].status /\ row'[d].lockIn = row[d].lockIn
      /\ \A b \in Request : b # d => row'[b] = row[b]
      /\ IF t.status = "pending"
         THEN row'[d].nextIn = Postponed(row[d].nextIn, RetryDelay(a))
         ELSE row' = row
  BY <1>2, <1>3 DEF TypeOK, Row
<1>8. /\ t.attempts = target[d][a.chat].attempts + 1
      /\ t.status = "pending" => t.attempts < MaxAttempts
  BY <1>3, AlertConstants DEF Recorded, Target, AlertConstants
<1> HIDE DEF t
<1>9. LeaseExclusion' /\ \A v \in Worker \ {w} : Held(v)'
  <2>1. Free(w, d)
    BY <1>1, <1>2, FreeFacts DEF InLease
  <2>2. \A b \in Request \ {d} : /\ row'[b] = row[b] /\ target'[b] = target[b]
                                 /\ cool'[b] = cool[b]
    BY <1>2, <1>6, <1>7
  <2> QED
    BY <1>2, <1>5, <2>1, <2>2, LeasesStay
<1>10. Held(w)'
  <2>1. /\ worker[w].todo \subseteq Unsent(target'[d])
        /\ \A c \in worker[w].todo : cool[d][c] = 0 \/ <<d, c>> \in lost
    BY <1>4, <1>6 DEF HeldAt, Unsent, WithStatus
  <2>2. row'[d].status = "delivering" /\ row'[d].lockIn # 0
    BY <1>4, <1>7 DEF HeldAt
  <2>3. cool' = cool /\ lost' = lost
    BY <1>2
  <2> QED
    BY <1>5, <2>1, <2>2, <2>3 DEF Held, HeldAt
<1>11. ASSUME NEW c \in Chat
       PROVE  Cooling(d, c)'
  <2>1. /\ row[d].nextIn \in Timer /\ cool[d][c] \in Nat /\ cool[d][a.chat] \in Nat
        /\ Backoff \in Nat /\ None \notin Int
    BY <1>2, <1>3, AlertConstants DEF TypeOK, Row, AlertConstants
  <2>2. /\ row[d].nextIn # None
        /\ target[d][c].status = "pending" =>
             cool[d][c] <= row[d].nextIn \/ <<d, c>> \in lost \/ Recorder(d, c)
    BY <1>3, <1>4 DEF LeaseInv, Cooling, HeldAt
  <2>3. row[d].nextIn \in Nat
    BY <2>1, <2>2 DEF Timer
  <2>4. /\ Postponed(row[d].nextIn, RetryDelay(a)) \in Nat
        /\ Postponed(row[d].nextIn, RetryDelay(a)) >= row[d].nextIn
        /\ Postponed(row[d].nextIn, RetryDelay(a)) >= a.after
    BY <1>3, <2>1, <2>2, <2>3 DEF Postponed, RetryDelay, Later
  <2>5. row'[d].status # "absent"
    BY <1>4, <1>7 DEF HeldAt
  <2>6. row'[d].nextIn \in Nat /\ row'[d].nextIn >= row[d].nextIn
    BY <1>7, <2>3, <2>4
  <2>7. CASE c = a.chat
    <3>1. target'[d][c].status = "pending" => row'[d].nextIn >= a.after
      BY <1>6, <1>7, <2>4, <2>7
    <3> QED
      BY <1>2, <1>3, <1>4, <2>1, <2>5, <2>6, <2>7, <3>1 DEF Cooling
  <2>8. CASE c # a.chat
    <3>1. Recorder(d, c) => Recorder(d, c)'
      BY <1>1, <1>5, <2>8, RecorderStays
    <3>2. target'[d][c] = target[d][c]
      BY <1>6, <2>8
    <3> QED
      BY <1>2, <2>1, <2>2, <2>3, <2>5, <2>6, <3>1, <3>2 DEF Cooling
  <2> QED
    BY <2>7, <2>8
<1>12. ASSUME NEW c \in Chat
       PROVE  Counted(d, c)'
  <2>1. /\ Counted(d, c) /\ target[d][c].attempts \in Nat /\ sends[d][c] \in Nat
        /\ faults \in Nat /\ MaxAttempts \in Nat
    BY <1>2, AlertConstants DEF LeaseInv, TypeOK, Target, AlertConstants
  <2>2. CASE c = a.chat
    BY <1>2, <1>4, <1>6, <1>8, <2>1, <2>2 DEF Counted
  <2>3. CASE c # a.chat
    <3>1. Recorder(d, c) => Recorder(d, c)'
      BY <1>1, <1>5, <2>3, RecorderStays
    <3> QED
      BY <1>2, <1>6, <2>1, <2>3, <3>1, CountedStays
  <2> QED
    BY <2>2, <2>3
<1>13. ASSUME NEW b \in Request, NEW c \in Chat, b # d
       PROVE  Cooling(b, c)' /\ Counted(b, c)'
  <2>1. Cooling(b, c) /\ Counted(b, c)
    BY DEF LeaseInv
  <2>2. Recorder(b, c) => Recorder(b, c)'
    BY <1>1, <1>5, <1>13, RecorderStays
  <2>3. Cooling(b, c)'
    BY <1>2, <1>6, <1>7, <1>13, <2>1, <2>2 DEF Cooling
  <2> QED
    BY <1>2, <1>6, <1>13, <2>1, <2>2, <2>3, CountedStays
<1> QED
  BY <1>9, <1>10, <1>11, <1>12, <1>13 DEF LeaseInv

\* What finalize_delivery leaves of the targets, and of next_attempt_at.
LEMMA FinalizeLease ==
    ASSUME Inv, LeaseInv, NEW w \in Worker, Finalize(w)
    PROVE  LeaseInv'
<1>1. PICK d \in Request : d = worker[w].delivery
  BY DEF Finalize, At, Inv, Engaged, EngagedAt, EngagedWith
<1> DEFINE ts     == Exhausted(target[d])
           status == Aggregate(ts)
           r      == [row[d] EXCEPT !.status = status,
                                    !.nextIn = FinalNext(status, row[d].nextIn),
                                    !.lockIn = None]
           reason == EscalationReason(r, ts)
<1>2. /\ TypeOK /\ TypeOK' /\ worker[w].pc = "send" /\ worker[w] \in WorkerState
      /\ UNCHANGED <<sends, reached, cool, lost, faults>> /\ row[d] \in Row
      /\ target[d] \in [Chat -> Target]
      /\ target' = [target EXCEPT ![d] = ts]
      /\ row' = [row EXCEPT ![d] = r]
      /\ worker' = [worker EXCEPT ![w] =
           IF reason = None THEN Finished(w, d, status)
           ELSE [worker[w] EXCEPT !.pc = "escalate", !.reason = reason]]
  BY <1>1, FinalizeType DEF Inv, Finalize, At, History, TypeOK
<1>3. /\ status \in {"completed", "pending", "failed"}
      /\ \A c \in Chat : /\ ts[c].attempts = target[d][c].attempts
                         /\ ts[c].status = "pending" => target[d][c].status = "pending"
  BY <1>2, ExhaustedType DEF Exhausted, Target
<1>4. /\ r.status = status
      /\ status = "pending" /\ row[d].nextIn # None => r.nextIn = row[d].nextIn
  BY <1>2 DEF FinalNext, Row
<1> HIDE DEF ts, status, r, reason
<1>5. /\ row'[d] = r /\ target'[d] = ts
      /\ \A b \in Request \ {d} : row'[b] = row[b] /\ target'[b] = target[b]
      /\ \A v \in Worker \ {w} : worker'[v] = worker[v]
  BY <1>2 DEF TypeOK
<1>6. worker'[w].pc \notin {"send", "record"}
  <2>1. CASE reason = None
    <3>1. worker'[w] = Finished(w, d, status) /\ status \in Status
      BY <1>2, <1>3, <2>1 DEF TypeOK, Status
    <3> QED
      BY <3>1, FinishedFacts
  <2>2. CASE reason # None
    BY <1>2, <2>2 DEF TypeOK, WorkerState
  <2> QED
    BY <2>1, <2>2
<1>7. HeldAt(w, d) /\ Free(w, d)
  BY <1>1, <1>2, FreeFacts DEF LeaseInv, Held, InLease
<1>8. LeaseExclusion' /\ \A v \in Worker : Held(v)'
  BY <1>2, <1>5, <1>6, <1>7, LeasesStay, OutOfLease DEF InLease
<1>9. ASSUME NEW b \in Request, NEW c \in Chat
      PROVE  Cooling(b, c)' /\ Counted(b, c)'
  <2>1. Cooling(b, c) /\ Counted(b, c)
    BY DEF LeaseInv
  <2>2. Recorder(b, c) => Recorder(b, c)'
    BY <1>2, <1>5, RecorderStays
  <2>3. /\ target'[b][c].attempts = target[b][c].attempts
        /\ target'[b][c].status = "pending" => target[b][c].status = "pending"
    BY <1>3, <1>5
  <2>4. Cooling(b, c)'
    <3>1. CASE b = d
      BY <1>2, <1>3, <1>4, <1>5, <1>7, <2>1, <2>2, <2>3, <3>1 DEF Cooling, HeldAt
    <3>2. CASE b # d
      BY <1>2, <1>5, <2>1, <2>2, <3>2 DEF Cooling
    <3> QED
      BY <3>1, <3>2
  <2> QED
    BY <1>2, <2>1, <2>2, <2>3, <2>4, CountedStays
<1> QED
  BY <1>8, <1>9 DEF LeaseInv

\* mark_delivery_escalated needs no lease and takes none.
LEMMA EscalateLease ==
    ASSUME Inv, LeaseInv, NEW w \in Worker, Escalate(w)
    PROVE  LeaseInv'
<1>1. PICK d \in Request : d = worker[w].delivery
  BY DEF Escalate, At, Inv, Engaged, EngagedAt, EngagedWith
<1> DEFINE status == IF row[d].escalation = None THEN row[d].status ELSE "failed"
<1>2. /\ TypeOK /\ TypeOK' /\ worker[w].pc = "escalate" /\ row[d] \in Row
      /\ UNCHANGED <<target, sends, reached, cool, lost, faults>>
      /\ row' \in {row, [row EXCEPT ![d].escalation = worker[w].reason]}
      /\ worker' = [worker EXCEPT ![w] = Finished(w, d, status)]
  BY <1>1, EscalateType DEF Inv, Escalate, At, History, TypeOK
<1>3. /\ \A b \in Request : /\ row'[b].status = row[b].status
                            /\ row'[b].nextIn = row[b].nextIn
                            /\ row'[b].lockIn = row[b].lockIn
      /\ \A v \in Worker \ {w} : worker'[v] = worker[v]
  BY <1>2 DEF TypeOK, Row
<1>4. worker'[w].pc \notin {"send", "record"}
  <2>1. worker'[w] = Finished(w, d, status) /\ status \in Status
    BY <1>2 DEF TypeOK, Status, Row
  <2> QED
    BY <2>1, FinishedFacts
<1>5. \A v \in Worker : Held(v)'
  <2>1. ASSUME NEW v \in Worker \ {w}
        PROVE  Held(v)'
    <3>1. InLease(v) => worker[v].delivery \in Request
      BY DEF InLease, Inv, Engaged, EngagedAt, EngagedWith
    <3>2. Held(v)
      BY DEF LeaseInv
    <3> QED
      BY <1>2, <1>3, <3>1, <3>2, HeldStays
  <2> QED
    BY <1>4, <2>1, OutOfLease DEF InLease
<1>6. LeaseExclusion'
  BY <1>3, <1>4 DEF LeaseInv, LeaseExclusion, InLease
<1>7. ASSUME NEW b \in Request, NEW c \in Chat
      PROVE  Cooling(b, c)' /\ Counted(b, c)'
  <2>1. Cooling(b, c) /\ Counted(b, c)
    BY DEF LeaseInv
  <2>2. Recorder(b, c) => Recorder(b, c)'
    BY <1>2, <1>3, RecorderStays
  <2>3. Cooling(b, c)'
    BY <1>2, <1>3, <2>1, <2>2 DEF Cooling
  <2> QED
    BY <1>2, <2>1, <2>2, <2>3, CountedStays
<1> QED
  BY <1>5, <1>6, <1>7 DEF LeaseInv

\* A worker that stops in mid-call loses one count, and its fault pays for it.
LEMMA StopLease ==
    ASSUME Inv, LeaseInv, NEW w \in Worker, Stop(w)
    PROVE  LeaseInv'
<1>1. /\ TypeOK /\ TypeOK' /\ UNCHANGED <<row, target, sends, reached, cool>>
      /\ faults' = faults + 1
      /\ \A v \in Worker \ {w} : worker'[v] = worker[v]
      /\ worker'[w].pc \notin {"send", "record"}
  BY StopType DEF Inv, Stop, SubmitFails, StorageFails, Crash, Fault
<1>l. /\ lost \subseteq lost'
      /\ worker[w].pc = "record" /\ worker[w].attempt.after > 0 =>
           <<worker[w].delivery, worker[w].attempt.chat>> \in lost'
  <2>1. worker[w].pc = "record" =>
          <<worker[w].delivery, worker[w].attempt.chat>> \in Request \X Chat
    BY DEF Inv, Engaged, EngagedAt, EngagedWith, Recipients
  <2>2. CASE SubmitFails(w)
    BY <2>2 DEF SubmitFails, At, History
  <2>3. CASE ~SubmitFails(w)
    BY <2>1, <2>3 DEF Stop, StorageFails, Crash, Forgets, At
  <2> QED
    BY <2>2, <2>3
<1>2. \A v \in Worker : Held(v)'
  <2>1. ASSUME NEW v \in Worker \ {w}
        PROVE  Held(v)'
    BY <1>1, <1>l DEF LeaseInv, Held, HeldAt, InLease
  <2> QED
    BY <1>1, <2>1, OutOfLease DEF InLease
<1>3. LeaseExclusion'
  BY <1>1 DEF LeaseInv, LeaseExclusion, InLease
<1>4. ASSUME NEW b \in Request, NEW c \in Chat
      PROVE  Cooling(b, c)' /\ Counted(b, c)'
  <2>1. Cooling(b, c) /\ Counted(b, c)
    BY DEF LeaseInv
  <2>2. Cooling(b, c)'
    <3>1. ASSUME row[b].status \in {"pending", "delivering"}, target[b][c].status = "pending"
          PROVE  cool[b][c] <= row[b].nextIn \/ <<b, c>> \in lost' \/ Recorder(b, c)'
      <4>1. CASE ~Recorder(b, c)
        BY <1>l, <2>1, <3>1, <4>1 DEF Cooling
      <4>2. CASE \E v \in Worker \ {w} : /\ worker[v].pc = "record" /\ worker[v].delivery = b
                                        /\ worker[v].attempt.chat = c
        BY <1>1, <4>2 DEF Recorder
      <4>3. CASE worker[w].pc = "record" /\ worker[w].delivery = b /\ worker[w].attempt.chat = c
        <5>1. cool[b][c] <= worker[w].attempt.after /\ cool[b][c] \in Nat
          BY <1>1, <4>3 DEF LeaseInv, Held, HeldAt, InLease, TypeOK
        <5>3. worker[w].attempt.after \in Nat
          BY <4>3 DEF Inv, Engaged, EngagedAt, EngagedWith, Attempt
        <5>2. row[b].nextIn \in Nat
          BY <1>1, <2>1, <3>1 DEF Cooling, TypeOK, Row, Timer
        <5> QED
          BY <1>l, <4>3, <5>1, <5>2, <5>3
      <4> QED
        BY <4>1, <4>2, <4>3 DEF Recorder
    <3> QED
      BY <1>1, <2>1, <3>1 DEF Cooling
  <2> QED
    BY <1>1, <2>1, <2>2, CountedStays
<1> QED
  BY <1>2, <1>3, <1>4 DEF LeaseInv

LEMMA ListDueLease ==
    ASSUME Inv, LeaseInv, NEW w \in Retrier, ListDue(w)
    PROVE  LeaseInv'
<1>1. /\ TypeOK /\ TypeOK' /\ UNCHANGED <<row, target, sends, reached, cool, lost, faults>>
      /\ \A v \in Worker \ {w} : worker'[v] = worker[v]
      /\ w \in Worker /\ worker[w].pc = "idle"
      /\ worker'[w].pc \notin {"send", "record"}
  <2>1. PICK batch \in SUBSET Request :
          worker' = [worker EXCEPT ![w] =
             IF batch = {} THEN Idle ELSE [Idle EXCEPT !.pc = "claim", !.batch = batch]]
    BY DEF ListDue
  <2>2. Idle.pc = "idle" /\ [Idle EXCEPT !.pc = "claim", !.batch = batch].pc = "claim"
    BY DEF Idle
  <2>3. /\ TypeOK /\ TypeOK' /\ w \in Worker /\ worker[w].pc = "idle"
        /\ UNCHANGED <<row, target, sends, reached, cool, lost, faults>>
    BY ListDueType DEF Inv, ListDue, History, At, Worker
  <2> QED
    BY <2>1, <2>2, <2>3 DEF TypeOK
<1>2. \A v \in Worker : Held(v)'
  <2>1. ASSUME NEW v \in Worker \ {w}
        PROVE  Held(v)'
    BY <1>1 DEF LeaseInv, Held, HeldAt, InLease
  <2> QED
    BY <1>1, <2>1, OutOfLease DEF InLease
<1>3. LeaseExclusion'
  BY <1>1 DEF LeaseInv, LeaseExclusion, InLease
<1>4. ASSUME NEW b \in Request, NEW c \in Chat
      PROVE  Cooling(b, c)' /\ Counted(b, c)'
  <2>1. Cooling(b, c) /\ Counted(b, c)
    BY DEF LeaseInv
  <2>2. Recorder(b, c) => Recorder(b, c)'
    BY <1>1, RecorderStays
  <2>3. Cooling(b, c)'
    BY <1>1, <2>1, <2>2 DEF Cooling
  <2> QED
    BY <1>1, <2>1, <2>2, <2>3, CountedStays
<1> QED
  BY <1>2, <1>3, <1>4 DEF LeaseInv

\* Time does not end the lease of a worker in mid-work, and no chat waits
\* longer than its row.
LEMMA TickLease ==
    ASSUME Timely, Inv, LeaseInv, Tick
    PROVE  LeaseInv'
<1>1. /\ TypeOK /\ TypeOK' /\ UNCHANGED <<target, worker, sends, reached, faults>>
      /\ \A w \in Worker : InLease(w) => row[worker[w].delivery].lockIn \notin {0, 1}
  BY TickType DEF Inv, Tick
<1>2. ASSUME NEW d \in Request
      PROVE  /\ row'[d].status = row[d].status
             /\ row'[d].nextIn = Sooner(row[d].nextIn) /\ row[d].nextIn \in Timer
             /\ row'[d].lockIn = Sooner(row[d].lockIn) /\ row[d].lockIn \in Timer
             /\ \A c \in Chat : cool'[d][c] = Sooner(cool[d][c]) /\ cool[d][c] \in Nat
             /\ \A c \in Chat : <<d, c>> \in lost => <<d, c>> \in lost' \/ cool'[d][c] = 0
  <2>1. row[d] \in Row /\ row'[d] = [row[d] EXCEPT !.nextIn = Sooner(@), !.lockIn = Sooner(@)]
    BY <1>1 DEF Tick, TypeOK
  <2>2. \A c \in Chat : cool'[d][c] = Sooner(cool[d][c]) /\ cool[d][c] \in Nat
    BY <1>1 DEF Tick, TypeOK
  <2>4. \A c \in Chat : <<d, c>> \in lost => <<d, c>> \in lost' \/ cool'[d][c] = 0
    <3>1. \A c \in Chat : <<d, c>> \in lost /\ cool[d][c] > 1 => <<d, c>> \in lost'
      BY DEF Tick
    <3>2. \A n \in Nat : n > 1 \/ Sooner(n) = 0
      BY AlertConstants DEF Sooner, AlertConstants
    <3> QED
      BY <2>2, <3>1, <3>2
  <2>3. row[d] \in Row => /\ row[d].nextIn \in Timer /\ row[d].lockIn \in Timer
    BY DEF Row
  <2> QED
    BY <2>1, <2>2, <2>3, <2>4 DEF Row
<1>3. /\ \A t \in Timer : t \notin {0, 1} => Sooner(t) # 0
      /\ Sooner(0) = 0
      /\ \A n \in Nat : Sooner(n) <= n /\ Sooner(n) \in Nat
      /\ \A t \in Timer, n \in Nat : t # None /\ n <= t => Sooner(t) # None /\ Sooner(n) <= Sooner(t)
  BY AlertConstants DEF AlertConstants, Timer, Sooner
<1>4. ASSUME NEW w \in Worker
      PROVE  Held(w)'
  <2>1. ASSUME InLease(w)
        PROVE  HeldAt(w, worker[w].delivery)'
    <3>1. PICK d \in Request : d = worker[w].delivery
      BY <2>1 DEF InLease, Inv, Engaged, EngagedAt, EngagedWith
    <3>2. HeldAt(w, d) /\ row[d].lockIn \notin {0, 1} /\ worker[w].todo \subseteq Chat
      BY <1>1, <2>1, <3>1 DEF LeaseInv, Held, TypeOK, WorkerState
    <3>3. row'[d].lockIn # 0
      BY <1>2, <1>3, <3>2
    <3>4. \A c \in worker[w].todo : cool'[d][c] = 0 \/ <<d, c>> \in lost'
      BY <1>2, <1>3, <3>2 DEF HeldAt
    <3>5. worker[w].pc = "record" =>
            cool'[d][worker[w].attempt.chat] <= worker[w].attempt.after
      <4>1. worker[w].pc = "record" =>
              /\ worker[w].attempt.chat \in Chat /\ worker[w].attempt.after \in Nat
              /\ cool[d][worker[w].attempt.chat] <= worker[w].attempt.after
        BY <3>2, <3>1 DEF HeldAt, Inv, Engaged, EngagedAt, EngagedWith, Attempt
      <4> QED
        BY <1>2, <1>3, <4>1
    <3> QED
      BY <1>1, <1>2, <3>1, <3>2, <3>3, <3>4, <3>5 DEF HeldAt
  <2>2. InLease(w)' <=> InLease(w)
    BY <1>1 DEF InLease
  <2> QED
    BY <2>1, <2>2 DEF Held
<1>5. LeaseExclusion'
  BY <1>1 DEF LeaseInv, LeaseExclusion, InLease
<1>6. ASSUME NEW b \in Request, NEW c \in Chat
      PROVE  Cooling(b, c)' /\ Counted(b, c)'
  <2>1. Cooling(b, c) /\ Counted(b, c)
    BY DEF LeaseInv
  <2>3. Recorder(b, c) => Recorder(b, c)'
    BY <1>1 DEF Recorder
  <2>2. Cooling(b, c)'
    <3>0. /\ row[b].nextIn \in Timer /\ row'[b].nextIn = Sooner(row[b].nextIn)
          /\ cool[b][c] \in Nat /\ cool'[b][c] = Sooner(cool[b][c])
          /\ row'[b].status = row[b].status
      BY <1>2
    <3>1. row[b].nextIn # None =>
            /\ row'[b].nextIn # None /\ row'[b].nextIn \in Nat
            /\ cool[b][c] <= row[b].nextIn => cool'[b][c] <= row'[b].nextIn
      BY <1>3, <3>0 DEF Timer
    <3>2. <<b, c>> \in lost => <<b, c>> \in lost' \/ cool'[b][c] = 0
      BY <1>2
    <3>3. cool[b][c] = 0 => cool'[b][c] = 0
      BY <1>3, <3>0
    <3> QED
      BY <1>1, <2>1, <2>3, <3>0, <3>1, <3>2, <3>3 DEF Cooling
  <2> QED
    BY <1>1, <2>1, <2>2, <2>3, CountedStays
<1> QED
  BY <1>4, <1>5, <1>6 DEF LeaseInv

LEMMA InitLease == Init => LeaseInv
<1>1. ASSUME Init
      PROVE  LeaseInv
  <2>1. \A w \in Worker : worker[w].pc = "idle"
    BY <1>1 DEF Init, Idle
  <2>2. \A d \in Request, c \in Chat : Cooling(d, c)
    BY <1>1 DEF Init, Cooling, Absent
  <2>3. \A d \in Request, c \in Chat : Counted(d, c)
    BY <1>1, AlertConstants DEF Init, Counted, NoTarget, AlertConstants
  <2> QED
    BY <2>1, <2>2, <2>3 DEF LeaseInv, Held, LeaseExclusion, InLease
<1> QED
  BY <1>1

LEMMA NextLease ==
    ASSUME Timely, Inv, LeaseInv, [Next]_vars
    PROVE  LeaseInv'
<1>1. CASE Next
  <2>1. ASSUME NEW w \in Worker, Process(w)
        PROVE  LeaseInv'
    BY <2>1, ClaimLease, SendLease, RecordLease, FinalizeLease, EscalateLease DEF Process
  <2>2. ASSUME NEW w \in Worker, Stop(w)
        PROVE  LeaseInv'
    BY <2>2, StopLease
  <2> QED
    BY <1>1, <2>1, <2>2, SubmitLease, ListDueLease, TickLease DEF Next, Stop, Worker
<1>2. CASE UNCHANGED vars
  BY <1>2 DEF vars, LeaseInv, Held, HeldAt, InLease, LeaseExclusion, Cooling, Counted, Recorder
<1> QED
  BY <1>1, <1>2

-----------------------------------------------------------------------------
(* Theorems. *)

\* Workers that keep inside their leases keep the lease invariant.
THEOREM LeaseInvariance ==
    ASSUME Timely
    PROVE  Spec => []LeaseInv
<1>1. Timely
  OBVIOUS
<1>2. Inv /\ LeaseInv /\ [Next]_vars => LeaseInv'
  BY <1>1, NextLease
<1> QED
  BY <1>2, InitLease, Invariance, PTL DEF Spec

\* The lease is a lock: no two workers are inside the same delivery.
THEOREM Exclusion ==
    ASSUME Timely
    PROVE  Spec => []LeaseExclusion
<1>1. LeaseInv => LeaseExclusion
  BY DEF LeaseInv
<1> QED
  BY <1>1, LeaseInvariance, PTL

\* A chat is sent the same alert more than MaxAttempts times only once per
\* crash or storage failure.
THEOREM Budget ==
    ASSUME Timely
    PROVE  Spec => []SendBudget
<1>1. Inv /\ LeaseInv => SendBudget
  <2>1. ASSUME Inv, LeaseInv, NEW d \in Request, NEW c \in Chat
        PROVE  sends[d][c] <= MaxAttempts + faults
    <3>1. /\ Counted(d, c) /\ sends[d][c] \in Nat /\ target[d][c].attempts \in Nat
          /\ faults \in Nat /\ MaxAttempts \in Nat
      BY <2>1, AlertConstants DEF LeaseInv, Inv, TypeOK, Target, AlertConstants
    <3>2. Recorder(d, c) => target[d][c].status = "pending"
      BY <2>1 DEF LeaseInv, Recorder, Held, HeldAt, InLease, Unsent, WithStatus
    <3> QED
      BY <3>1, <3>2 DEF Counted
  <2> QED
    BY <2>1 DEF SendBudget
<1> QED
  BY <1>1, LeaseInvariance, Invariance, PTL

-----------------------------------------------------------------------------
(* Action properties. *)

\* Only a worker with the lease sends, and only what has not been recorded.
LEMMA SendsOf ==
    ASSUME Inv, LeaseInv, [Next]_vars, NEW d \in Request, NEW c \in Chat,
           sends'[d][c] # sends[d][c]
    PROVE  /\ row[d].status = "delivering"
           /\ target[d][c].status = "pending"
           /\ cool[d][c] = 0 \/ <<d, c>> \in lost
<1>1. PICK w \in Worker : Send(w)
  BY DEF vars, Next, Process, Submit, SubmitFails, ListDue, Claim, Record, Finalize,
         Escalate, StorageFails, Crash, Forgets, Tick, History
<1>2. PICK e \in worker[w].todo : sends' = [sends EXCEPT ![worker[w].delivery][e] = @ + 1]
  BY <1>1 DEF Send
<1>3. worker[w].delivery \in Request /\ InLease(w) /\ sends \in [Request -> [Chat -> Nat]]
  BY <1>1 DEF Send, At, InLease, Inv, Engaged, EngagedAt, EngagedWith, TypeOK
<1>4. worker[w].delivery = d /\ e = c
  BY <1>2, <1>3
<1> QED
  BY <1>2, <1>3, <1>4 DEF LeaseInv, Held, HeldAt, Unsent, WithStatus

\* Telegram's retry_after is honoured by the worker that was told and by every
\* other one, unless a crash or a failed transaction kept it from being recorded.
THEOREM WaitsAsTold ==
    ASSUME Timely
    PROVE  Spec => RetryAfterHonoured
<1>1. Inv /\ LeaseInv /\ [Next]_vars =>
        [\A d \in Request, c \in Chat : cool[d][c] > 0 /\ <<d, c>> \notin lost =>
           sends'[d][c] = sends[d][c]]_vars
  BY SendsOf
<1> QED
  BY <1>1, LeaseInvariance, Invariance, PTL DEF Spec, RetryAfterHonoured

\* A recorded success is never sent again.
THEOREM NotResent ==
    ASSUME Timely
    PROVE  Spec => RecordedNotResent
<1>1. Inv /\ LeaseInv /\ [Next]_vars =>
        [\A d \in Request, c \in Chat :
           target[d][c].status = "sent" => sends'[d][c] = sends[d][c]]_vars
  BY SendsOf
<1> QED
  BY <1>1, LeaseInvariance, Invariance, PTL DEF Spec, RecordedNotResent

\* The rows and targets a step changes are those of an unfinished delivery.
LEMMA Unfinished ==
    ASSUME Inv, LeaseInv, [Next]_vars, NEW d \in Request,
           row'[d].status # row[d].status \/ target'[d] # target[d]
    PROVE  row[d].status \in {"absent", "pending", "delivering"}
<1>1. TypeOK
  BY DEF Inv
<1>2. ASSUME NEW r \in Request, NEW key \in Key, NEW to \in (SUBSET Chat) \ {{}},
             Submit(r, key, to)
      PROVE  row[d].status = "absent"
  <2>1. row[r].status = "absent"
    BY <1>2 DEF Submit, At, Inv, Engaged, EngagedAt, Worker
  <2>2. r # d => row'[d] = row[d] /\ target'[d] = target[d]
    BY <1>1, <1>2 DEF Submit, TypeOK
  <2> QED
    BY <2>1, <2>2
<1>3. ASSUME NEW w \in Worker, Claim(w)
      PROVE  row[d].status \in {"pending", "delivering"}
  <2>1. PICK b \in worker[w].batch :
          IF Due(b) THEN row' = [row EXCEPT ![b].status = "delivering", ![b].lockIn = ClaimTtl]
          ELSE row' = row
    BY <1>3 DEF Claim
  <2>2. target' = target
    BY <1>3 DEF Claim
  <2>3. Due(b) /\ b = d
    BY <1>1, <2>1, <2>2 DEF TypeOK
  <2> QED
    BY <2>3 DEF Due
<1>4. ASSUME NEW w \in Worker, Record(w) \/ Finalize(w)
      PROVE  row[d].status = "delivering"
  <2>1. /\ worker[w].delivery \in Request
        /\ row[worker[w].delivery].status = "delivering"
        /\ worker[w].pc = "record" => worker[w].attempt.chat \in Chat
    BY <1>4 DEF Record, Finalize, At, LeaseInv, Held, HeldAt, InLease, Unsent, WithStatus,
                Inv, Engaged, EngagedAt, EngagedWith
  <2>2. worker[w].delivery # d => row'[d] = row[d] /\ target'[d] = target[d]
    <3>1. CASE Record(w)
      BY <1>1, <2>1, <3>1 DEF Record, TypeOK
    <3>2. CASE Finalize(w)
      BY <1>1, <2>1, <3>2 DEF Finalize, TypeOK
    <3> QED
      BY <1>4, <3>1, <3>2
  <2> QED
    BY <2>1, <2>2
<1>5. ASSUME \/ Tick \/ UNCHANGED vars
             \/ \E w \in Worker : Send(w) \/ Escalate(w) \/ StorageFails(w) \/ Crash(w)
             \/ \E w \in Retrier : ListDue(w)
             \/ \E r \in Request : SubmitFails(r)
      PROVE  FALSE
  <2>1. target' = target
    BY <1>5 DEF vars, Tick, Send, Escalate, StorageFails, Crash, ListDue, SubmitFails
  <2>2. row'[d].status = row[d].status
    <3>1. CASE Tick
      BY <1>1, <3>1 DEF Tick, TypeOK, Row
    <3>2. ASSUME NEW w \in Worker, Escalate(w)
          PROVE  row'[d].status = row[d].status
      BY <1>1, <3>2 DEF Escalate, TypeOK, Row
    <3> QED
      BY <1>5, <3>1, <3>2 DEF vars, Send, StorageFails, Crash, ListDue, SubmitFails
  <2> QED
    BY <2>1, <2>2
<1>6. CASE \E r \in Request, key \in Key, to \in (SUBSET Chat) \ {{}} : Submit(r, key, to)
  BY <1>2, <1>6
<1>7. CASE \E w \in Worker : Process(w)
  <2>1. PICK w \in Worker : Process(w)
    BY <1>7
  <2>2. ~Escalate(w) /\ ~Send(w)
    BY <1>5
  <2> QED
    BY <1>3, <1>4, <2>1, <2>2 DEF Process
<1>8. CASE \/ Tick \/ UNCHANGED vars
           \/ \E w \in Worker : StorageFails(w) \/ Crash(w)
           \/ \E w \in Retrier : ListDue(w)
           \/ \E r \in Request : SubmitFails(r)
  BY <1>5, <1>8
<1>9. CASE Next
  BY <1>6, <1>7, <1>8, <1>9 DEF Next
<1> QED
  BY <1>8, <1>9

\* completed and failed are final.
THEOREM Final ==
    ASSUME Timely
    PROVE  Spec => TerminalIsFinal
<1>1. Inv /\ LeaseInv /\ [Next]_vars =>
        [\A d \in Request : row[d].status \in {"completed", "failed"} =>
           row'[d].status = row[d].status /\ target'[d] = target[d]]_vars
  BY Unfinished
<1> QED
  BY <1>1, LeaseInvariance, Invariance, PTL DEF Spec, TerminalIsFinal

\* Why a delivery with the targets ts has failed.
Justified(reason, ts) ==
    LET failed   == WithStatus(ts, "failed")
        terminal == {c \in failed : ts[c].error = "terminal"}
    IN  /\ failed # {}
        /\ reason = "terminal_target_failure" <=> terminal # {}
        /\ reason = "retry_exhausted" => \E c \in failed : ts[c].attempts >= MaxAttempts

Justifies(d, reason) == row[d].status = "failed" /\ Justified(reason, target[d])

(* Markers that are set, and those a worker is about to set.               *)
MarkInv ==
    /\ \A d \in Request : row[d].escalation # None => Justifies(d, row[d].escalation)
    /\ \A w \in Worker : worker[w].pc = "escalate" =>
         Justifies(worker[w].delivery, worker[w].reason)

\* What has failed stays as it is.
LEMMA JustifiedStays ==
    ASSUME Inv, LeaseInv, [Next]_vars, NEW d \in Request, NEW reason, Justifies(d, reason)
    PROVE  row'[d].status = "failed" /\ Justified(reason, target'[d])
<1>1. row'[d].status = row[d].status /\ target'[d] = target[d]
  BY Unfinished DEF Justifies
<1> QED
  BY <1>1 DEF Justifies

\* Only finalize_delivery sends a worker to mark_delivery_escalated.
LEMMA ReasonOf ==
    ASSUME Inv, LeaseInv, NEW w \in Worker, Finalize(w), worker'[w].pc = "escalate"
    PROVE  /\ worker'[w].delivery \in Request
           /\ row'[worker'[w].delivery].status = "failed"
           /\ Justified(worker'[w].reason, target'[worker'[w].delivery])
<1>1. PICK d \in Request : d = worker[w].delivery
  BY DEF Finalize, At, Inv, Engaged, EngagedAt, EngagedWith
<1> DEFINE ts     == Exhausted(target[d])
           status == Aggregate(ts)
           r      == [row[d] EXCEPT !.status = status,
                                    !.nextIn = FinalNext(status, row[d].nextIn),
                                    !.lockIn = None]
           reason == EscalationReason(r, ts)
<1>2. /\ TypeOK /\ worker[w] \in WorkerState /\ row[d] \in Row
      /\ target' = [target EXCEPT ![d] = ts]
      /\ row' = [row EXCEPT ![d] = r]
      /\ worker' = [worker EXCEPT ![w] =
           IF reason = None THEN Finished(w, d, status)
           ELSE [worker[w] EXCEPT !.pc = "escalate", !.reason = reason]]
  BY <1>1 DEF Inv, Finalize, TypeOK
<1>3. status \in Status /\ Finished(w, d, status).pc # "escalate"
  <2>1. status \in Status
    BY <1>2, ExhaustedType DEF TypeOK, Status
  <2> HIDE DEF ts, status
  <2> QED
    BY <2>1, FinishedFacts
<1>4. reason # None => r.status = "failed" /\ Justified(reason, ts)
  <2>1. None \notin {"terminal_target_failure", "retry_exhausted", "delivery_failed"}
    BY AlertConstants DEF AlertConstants
  <2> HIDE DEF ts, r
  <2> QED
    BY <2>1 DEF EscalationReason, Justified
<1> HIDE DEF ts, status, r, reason
<1>5. /\ reason # None /\ worker'[w].delivery = d /\ worker'[w].reason = reason
      /\ row'[d] = r /\ target'[d] = ts
  <2>1. reason # None
    BY <1>2, <1>3 DEF TypeOK
  <2>2. worker'[w] = [worker[w] EXCEPT !.pc = "escalate", !.reason = reason]
    BY <1>2, <2>1 DEF TypeOK
  <2> QED
    BY <1>1, <1>2, <2>1, <2>2 DEF TypeOK, WorkerState
<1> QED
  BY <1>4, <1>5

\* Workers that are not sent there do not get to mark_delivery_escalated.
LEMMA EscalatorWas ==
    ASSUME Inv, [Next]_vars, NEW v \in Worker, worker'[v].pc = "escalate"
    PROVE  Finalize(v) \/ worker'[v] = worker[v]
<1>1. TypeOK /\ TypeOK'
  BY NextType DEF Inv, vars, TypeOK
<1>2. ASSUME NEW w \in Worker, Stop(w)
      PROVE  worker'[v] = worker[v]
  BY <1>1, <1>2, StopType
<1>3. ASSUME NEW r \in Request, NEW key \in Key, NEW to \in (SUBSET Chat) \ {{}},
             Submit(r, key, to)
      PROVE  worker'[v] = worker[v]
  <2>1. r \in Worker /\ \A d \in Request : Finished(r, d, row[d].status).pc # "escalate"
    BY <1>1, FinishedFacts DEF TypeOK, Row, Worker
  <2>2. [Idle EXCEPT !.pc = "claim", !.batch = {r}].pc = "claim"
    BY DEF Idle
  <2> QED
    BY <1>1, <1>3, <2>1, <2>2 DEF Submit, TypeOK
<1>4. ASSUME NEW w \in Worker, Claim(w)
      PROVE  worker'[v] = worker[v]
  <2>0. PICK d \in worker[w].batch :
          IF Due(d)
          THEN worker' = [worker EXCEPT ![w].pc = "send", ![w].delivery = d, ![w].batch = @ \ {d},
                                        ![w].todo = Unsent(target[d])]
          ELSE worker' = [worker EXCEPT ![w] =
                 IF w \in Request THEN Finished(w, d, row[d].status)
                 ELSE IF worker[w].batch = {d} THEN Idle
                 ELSE [worker[w] EXCEPT !.batch = @ \ {d}]]
    BY <1>4 DEF Claim
  <2>1. /\ \A u \in Worker \ {w} : worker'[u] = worker[u]
        /\ \/ worker'[w] = [worker[w] EXCEPT !.pc = "send", !.delivery = d, !.batch = @ \ {d},
                                              !.todo = Unsent(target[d])]
           \/ worker'[w] = Finished(w, d, row[d].status)
           \/ worker'[w] = Idle
           \/ worker'[w] = [worker[w] EXCEPT !.batch = @ \ {d}]
    <3>1. CASE Due(d)
      BY <1>1, <2>0, <3>1 DEF TypeOK
    <3>2. CASE ~Due(d)
      BY <1>1, <2>0, <3>2 DEF TypeOK
    <3> QED
      BY <3>1, <3>2
  <2>2. d \in Request /\ worker[w] \in WorkerState /\ worker[w].pc = "claim"
        /\ row[d].status \in Status
    BY <1>1, <1>4 DEF Claim, At, TypeOK, WorkerState, Row
  <2>3. worker'[w].pc # "escalate"
    <3>1. Finished(w, d, row[d].status).pc # "escalate" /\ Idle.pc = "idle"
      BY <2>2, FinishedFacts DEF Idle
    <3> QED
      BY <2>1, <2>2, <3>1 DEF WorkerState
  <2> QED
    BY <2>1, <2>3
<1>5. ASSUME NEW w \in Worker, Send(w) \/ Record(w)
      PROVE  worker'[v] = worker[v]
  <2>1. worker[w] \in WorkerState
    BY <1>1 DEF TypeOK
  <2>2. CASE Send(w)
    <3>1. PICK c, a : worker' = [worker EXCEPT ![w].pc = "record", ![w].todo = @ \ {c},
                                              ![w].attempt = a]
      BY <2>2 DEF Send
    <3> QED
      BY <1>1, <2>1, <3>1 DEF TypeOK, WorkerState
  <2>3. CASE Record(w)
    BY <1>1, <2>1, <2>3 DEF Record, TypeOK, WorkerState
  <2> QED
    BY <1>5, <2>2, <2>3
<1>6. ASSUME NEW w \in Worker, Finalize(w)
      PROVE  v = w \/ worker'[v] = worker[v]
  BY <1>1, <1>6 DEF Finalize, TypeOK
<1>7. ASSUME NEW w \in Worker, Escalate(w)
      PROVE  worker'[v] = worker[v]
  <2> DEFINE d      == worker[w].delivery
             status == IF row[d].escalation = None THEN row[d].status ELSE "failed"
  <2>1. d \in Request /\ status \in Status
    BY <1>1, <1>7 DEF Escalate, At, Inv, Engaged, EngagedAt, EngagedWith, TypeOK, Row, Status
  <2>2. Finished(w, d, status).pc # "escalate"
    <3> HIDE DEF status
    <3> QED
      BY <2>1, FinishedFacts
  <2> QED
    BY <1>1, <1>7, <2>2 DEF Escalate, TypeOK
<1>8. ASSUME NEW w \in Retrier, ListDue(w)
      PROVE  worker'[v] = worker[v]
  <2>1. PICK batch \in SUBSET Request :
          worker' = [worker EXCEPT ![w] =
             IF batch = {} THEN Idle ELSE [Idle EXCEPT !.pc = "claim", !.batch = batch]]
    BY <1>8 DEF ListDue
  <2>2. Idle.pc = "idle" /\ [Idle EXCEPT !.pc = "claim", !.batch = batch].pc = "claim"
    BY DEF Idle
  <2> QED
    BY <1>1, <2>1, <2>2 DEF TypeOK, Worker
<1>9. CASE Next
  BY <1>2, <1>3, <1>4, <1>5, <1>6, <1>7, <1>8, <1>9 DEF Next, Process, Stop, Tick, Worker
<1> QED
  BY <1>9 DEF vars

\* A marker is set by mark_delivery_escalated, and never taken back.
LEMMA MarkOf ==
    ASSUME Inv, [Next]_vars, NEW d \in Request, row'[d].escalation # None
    PROVE  \/ row'[d].escalation = row[d].escalation
           \/ \E w \in Worker : /\ worker[w].pc = "escalate" /\ worker[w].delivery = d
                                /\ row'[d].escalation = worker[w].reason
<1>1. TypeOK
  BY DEF Inv
<1>2. ASSUME NEW r \in Request, NEW key \in Key, NEW to \in (SUBSET Chat) \ {{}},
             Submit(r, key, to)
      PROVE  row'[d] = row[d]
  <2> DEFINE fresh == [Absent EXCEPT !.status = "pending", !.key = key, !.nextIn = 0]
  <2>1. fresh.escalation = None
    BY DEF Absent
  <2>2. row' = row \/ row' = [row EXCEPT ![r] = fresh]
    BY <1>2 DEF Submit
  <2> HIDE DEF fresh
  <2> QED
    BY <1>1, <2>1, <2>2 DEF TypeOK
<1>3. ASSUME NEW w \in Worker, Claim(w)
      PROVE  row'[d].escalation = row[d].escalation
  <2>1. PICK b \in worker[w].batch :
          \/ row' = [row EXCEPT ![b].status = "delivering", ![b].lockIn = ClaimTtl]
          \/ row' = row
    BY <1>3 DEF Claim
  <2>2. row'[d] \in {row[d], [row[d] EXCEPT !.status = "delivering", !.lockIn = ClaimTtl]}
    BY <1>1, <2>1 DEF TypeOK
  <2>3. row[d] \in Row
    BY <1>1 DEF TypeOK
  <2> QED
    BY <2>2, <2>3 DEF Row
<1>4. ASSUME NEW w \in Worker, Record(w)
      PROVE  row'[d].escalation = row[d].escalation
  <2> DEFINE b    == worker[w].delivery
             next == Postponed(row[b].nextIn, RetryDelay(worker[w].attempt))
  <2>1. row' = row \/ row' = [row EXCEPT ![b].nextIn = next]
    BY <1>4 DEF Record
  <2> HIDE DEF next
  <2>2. row'[d] \in {row[d], [row[d] EXCEPT !.nextIn = next]} /\ row[d] \in Row
    BY <1>1, <2>1 DEF TypeOK
  <2> QED
    BY <2>2 DEF Row
<1>5. ASSUME NEW w \in Worker, Finalize(w)
      PROVE  row'[d].escalation = row[d].escalation
  <2> DEFINE b      == worker[w].delivery
             status == Aggregate(Exhausted(target[b]))
             next   == FinalNext(status, row[b].nextIn)
  <2>1. row' = [row EXCEPT ![b] = [row[b] EXCEPT !.status = status, !.nextIn = next,
                                                !.lockIn = None]]
    BY <1>5 DEF Finalize
  <2> HIDE DEF status, next
  <2> QED
    BY <1>1, <2>1 DEF TypeOK, Row
<1>6. ASSUME NEW w \in Worker, Escalate(w)
      PROVE  \/ row'[d].escalation = row[d].escalation
             \/ /\ worker[w].pc = "escalate" /\ worker[w].delivery = d
                /\ row'[d].escalation = worker[w].reason
  BY <1>1, <1>6 DEF Escalate, At, TypeOK, Row
<1>7. CASE Tick
  BY <1>1, <1>7 DEF Tick, TypeOK, Row
<1>8. CASE \/ UNCHANGED vars
           \/ \E w \in Worker : Send(w) \/ StorageFails(w) \/ Crash(w)
           \/ \E w \in Retrier : ListDue(w)
           \/ \E r \in Request : SubmitFails(r)
  BY <1>8 DEF vars, Send, StorageFails, Crash, ListDue, SubmitFails
<1> QED
  BY <1>2, <1>3, <1>4, <1>5, <1>6, <1>7, <1>8 DEF Next, Process

LEMMA NextMark ==
    ASSUME Inv, LeaseInv, MarkInv, [Next]_vars
    PROVE  MarkInv'
<1>1. ASSUME NEW w \in Worker, worker'[w].pc = "escalate"
      PROVE  /\ row'[worker'[w].delivery].status = "failed"
             /\ Justified(worker'[w].reason, target'[worker'[w].delivery])
  <2>1. CASE Finalize(w)
    BY <1>1, <2>1, ReasonOf
  <2>2. CASE worker'[w] = worker[w]
    <3>1. worker[w].delivery \in Request /\ Justifies(worker[w].delivery, worker[w].reason)
      BY <1>1, <2>2 DEF MarkInv, Inv, Engaged, EngagedAt, EngagedWith
    <3> QED
      BY <2>2, <3>1, JustifiedStays
  <2> QED
    BY <1>1, <2>1, <2>2, EscalatorWas
<1>2. ASSUME NEW d \in Request, row'[d].escalation # None
      PROVE  row'[d].status = "failed" /\ Justified(row'[d].escalation, target'[d])
  <2>1. \/ row'[d].escalation = row[d].escalation
        \/ \E w \in Worker : /\ worker[w].pc = "escalate" /\ worker[w].delivery = d
                             /\ row'[d].escalation = worker[w].reason
    BY <1>2, MarkOf
  <2>2. ASSUME NEW w \in Worker, worker[w].pc = "escalate", worker[w].delivery = d
        PROVE  row'[d].status = "failed" /\ Justified(worker[w].reason, target'[d])
    BY <2>2, JustifiedStays DEF MarkInv
  <2>3. row[d].escalation # None =>
          row'[d].status = "failed" /\ Justified(row[d].escalation, target'[d])
    BY JustifiedStays DEF MarkInv
  <2> QED
    BY <1>2, <2>1, <2>2, <2>3
<1> QED
  BY <1>1, <1>2 DEF MarkInv, Justifies

\* An escalation marker of a failed delivery names the gravest cause that its
\* targets show.
THEOREM RightlyEscalated ==
    ASSUME Timely
    PROVE  Spec => []EscalationJustified
<1>1. Init => MarkInv
  BY DEF Init, MarkInv, Absent, Idle
<1>2. Inv /\ LeaseInv /\ MarkInv /\ [Next]_vars => MarkInv'
  BY NextMark
<1>3. MarkInv => EscalationJustified
  BY DEF MarkInv, Justifies, Justified, EscalationJustified
<1> QED
  BY <1>1, <1>2, <1>3, LeaseInvariance, Invariance, PTL DEF Spec

-----------------------------------------------------------------------------
(* Refinement: without leases, workers and retries, what is left is what     *)
(* AlertOutbox promises.                                                     *)

Open == {"pending", "delivering"}

State    == [d \in Request |-> IF row[d].status \in {"pending", "delivering"} THEN "open"
                               ELSE row[d].status]
Audience == [d \in Request |-> Recipients(target[d])]
Got      == [d \in Request |-> {c \in Chat : <<d, c>> \in reached}]

\* A step that keeps deliveries open or not, their recipients and what has
\* reached them is invisible.
LEMMA Invisible ==
    ASSUME \A d \in Request :
             /\ row'[d].status = row[d].status \/ {row[d].status, row'[d].status} \subseteq Open
             /\ Recipients(target'[d]) = Recipients(target[d]),
           reached' = reached
    PROVE  UNCHANGED Contract!outboxVars
<1>1. State' = State
  BY DEF State, Open
<1>2. Audience' = Audience
  BY DEF Audience
<1>3. Got' = Got
  BY DEF Got
<1> QED
  BY <1>1, <1>2, <1>3 DEF Contract!outboxVars, State, Audience, Got

\* enqueue_delivery accepts an alert, unless the key has a row already.
LEMMA SubmitAccepts ==
    ASSUME Inv, NEW r \in Request, NEW key \in Key, NEW to \in (SUBSET Chat) \ {{}},
           Submit(r, key, to)
    PROVE  [Contract!Next]_(Contract!outboxVars)
<1> DEFINE prior == {d \in Request : row[d].status # "absent" /\ row[d].key = key}
<1>1. TypeOK /\ reached' = reached /\ row[r].status = "absent"
  BY DEF Inv, Submit, History, At, Engaged, EngagedAt, Worker
<1>2. CASE key # None /\ prior # {}
  BY <1>1, <1>2, Invisible DEF Submit
<1>3. CASE ~(key # None /\ prior # {})
  <2>1. /\ row' = [row EXCEPT ![r] =
             [Absent EXCEPT !.status = "pending", !.key = key, !.nextIn = 0]]
        /\ target' = [target EXCEPT ![r] =
             [c \in Chat |-> IF c \in to THEN [NoTarget EXCEPT !.status = "pending"]
                             ELSE NoTarget]]
    BY <1>3 DEF Submit
  <2>2. /\ row'[r].status = "pending"
        /\ \A d \in Request \ {r} : row'[d] = row[d] /\ target'[d] = target[d]
        /\ \A c \in Chat : target'[r][c].status = IF c \in to THEN "pending" ELSE "none"
    BY <1>1, <2>1 DEF TypeOK, Absent, NoTarget
  <2>3. Recipients(target'[r]) = to
    BY <2>2 DEF Recipients
  <2>4. State[r] = "absent" /\ State' = [State EXCEPT ![r] = "open"]
    BY <1>1, <2>2 DEF State
  <2>5. Audience' = [Audience EXCEPT ![r] = to]
    BY <2>2, <2>3 DEF Audience
  <2>6. Got' = Got
    BY <1>1 DEF Got
  <2>7. Contract!Accept(r, to)
    BY <2>4, <2>5, <2>6 DEF Contract!Accept, State, Audience, Got
  <2> QED
    BY <2>7 DEF Contract!Next
<1> QED
  BY <1>2, <1>3

\* sendMessage reaches a recipient of an open alert, or nobody.
LEMMA SendReaches ==
    ASSUME Inv, LeaseInv, NEW w \in Worker, Send(w)
    PROVE  [Contract!Next]_(Contract!outboxVars)
<1>1. PICK d \in Request : d = worker[w].delivery
  BY DEF Send, At, Inv, Engaged, EngagedAt, EngagedWith
<1>2. PICK c \in worker[w].todo : reached' \in {reached, reached \cup {<<d, c>>}}
  BY <1>1 DEF Send
<1>3. UNCHANGED <<row, target>>
  BY DEF Send
<1>4. /\ row[d].status = "delivering"
      /\ c \in Chat /\ c \in Recipients(target[d])
  BY <1>1, <1>2 DEF Send, At, LeaseInv, Held, HeldAt, InLease, Unsent, WithStatus, Recipients
<1>5. CASE reached' = reached
  BY <1>3, <1>5, Invisible
<1>6. CASE reached' = reached \cup {<<d, c>>}
  <2>1. State' = State /\ Audience' = Audience
    BY <1>3 DEF State, Audience
  <2>2. State[d] = "open" /\ c \in Audience[d]
    BY <1>4 DEF State, Audience
  <2>3. Got' = [Got EXCEPT ![d] = @ \cup {c}]
    <3>1. ASSUME NEW b \in Request
          PROVE  {e \in Chat : <<b, e>> \in reached'}
                   = IF b = d THEN {e \in Chat : <<b, e>> \in reached} \cup {c}
                     ELSE {e \in Chat : <<b, e>> \in reached}
      BY <1>4, <1>6
    <3> QED
      BY <3>1 DEF Got
  <2>4. Contract!Reach(d, c)
    BY <2>1, <2>2, <2>3 DEF Contract!Reach, State, Audience, Got
  <2> QED
    BY <1>4, <2>4 DEF Contract!Next
<1> QED
  BY <1>2, <1>5, <1>6

\* finalize_delivery closes an open alert, or leaves it open.
LEMMA FinalizeCloses ==
    ASSUME Inv, LeaseInv, NEW w \in Worker, Finalize(w)
    PROVE  [Contract!Next]_(Contract!outboxVars)
<1>1. PICK d \in Request : d = worker[w].delivery
  BY DEF Finalize, At, Inv, Engaged, EngagedAt, EngagedWith
<1> DEFINE ts     == Exhausted(target[d])
           status == Aggregate(ts)
<1>2. /\ TypeOK /\ reached' = reached /\ target[d] \in [Chat -> Target]
      /\ row'[d].status = status /\ target'[d] = ts
      /\ \A b \in Request \ {d} : row'[b] = row[b] /\ target'[b] = target[b]
  BY <1>1 DEF Inv, Finalize, History, TypeOK, Row
<1>3. row[d].status = "delivering"
  BY <1>1 DEF Finalize, At, LeaseInv, Held, HeldAt, InLease
<1>4. /\ Recipients(ts) = Recipients(target[d])
      /\ status \in {"completed", "pending", "failed"}
  BY <1>2, ExhaustedType
<1>5. status = "completed" => {d} \X Recipients(target[d]) \subseteq reached
  <2>1. row'[d].status = "completed" => {d} \X Recipients(target'[d]) \subseteq reached'
    BY FinalizeInv DEF Inv, RowAt
  <2> QED
    BY <1>2, <1>4, <2>1
<1> HIDE DEF ts, status
<1>6. CASE status = "pending"
  BY <1>2, <1>3, <1>4, <1>6, Invisible DEF Open
<1>7. CASE status \in {"completed", "failed"}
  <2>1. State[d] = "open" /\ State' = [State EXCEPT ![d] = status]
    BY <1>2, <1>3, <1>7 DEF State
  <2>2. Audience' = Audience /\ Got' = Got
    BY <1>2, <1>4 DEF Audience, Got
  <2>3. status = "completed" => Audience[d] \subseteq Got[d]
    BY <1>5 DEF Audience, Got, Recipients
  <2>4. PICK how \in {"completed", "failed"} : how = status
    BY <1>7
  <2>5. Contract!Close(d, how)
    BY <2>1, <2>2, <2>3, <2>4 DEF Contract!Close, State, Audience, Got
  <2> QED
    BY <2>5 DEF Contract!Next
<1> QED
  BY <1>4, <1>6, <1>7

\* Everything else is invisible.
LEMMA RestInvisible ==
    ASSUME Inv,
           \/ Tick
           \/ \E w \in Worker : Claim(w) \/ Record(w) \/ Escalate(w) \/ Stop(w)
           \/ \E w \in Retrier : ListDue(w)
    PROVE  UNCHANGED Contract!outboxVars
<1>1. TypeOK
  BY DEF Inv
<1>2. CASE Tick
  BY <1>1, <1>2, Invisible DEF Tick, TypeOK, Row
<1>3. ASSUME NEW w \in Worker, Claim(w)
      PROVE  UNCHANGED Contract!outboxVars
  <2>1. PICK d \in worker[w].batch :
          IF Due(d) THEN row' = [row EXCEPT ![d].status = "delivering", ![d].lockIn = ClaimTtl]
          ELSE row' = row
    BY <1>3 DEF Claim
  <2>2. UNCHANGED <<target, reached>>
    BY <1>3 DEF Claim, History
  <2>3. \A b \in Request : \/ row'[b].status = row[b].status
                           \/ {row[b].status, row'[b].status} \subseteq Open
    <3>1. CASE Due(d)
      BY <1>1, <2>1, <3>1 DEF TypeOK, Row, Due, Open
    <3>2. CASE ~Due(d)
      BY <2>1, <3>2
    <3> QED
      BY <3>1, <3>2
  <2> QED
    BY <2>2, <2>3, Invisible
<1>4. ASSUME NEW w \in Worker, Record(w)
      PROVE  UNCHANGED Contract!outboxVars
  <2>1. PICK d \in Request, a \in Attempt :
          /\ d = worker[w].delivery /\ a = worker[w].attempt
          /\ a.chat \in Chat /\ a.chat \in Recipients(target[d])
    BY <1>4 DEF Record, At, Inv, Engaged, EngagedAt, EngagedWith, Attempt
  <2>2. /\ reached' = reached
        /\ target' = [target EXCEPT ![d][a.chat] = Recorded(target[d][a.chat], a)]
        /\ \/ row' = row
           \/ row' = [row EXCEPT ![d].nextIn = Postponed(@, RetryDelay(a))]
    BY <1>4, <2>1 DEF Record, History
  <2>3. \A b \in Request : row'[b].status = row[b].status
    <3> DEFINE next == Postponed(row[d].nextIn, RetryDelay(a))
    <3>1. row' = row \/ row' = [row EXCEPT ![d].nextIn = next]
      BY <2>2
    <3> HIDE DEF next
    <3>2. CASE row' = [row EXCEPT ![d].nextIn = next]
      <4>1. row'[d] = [row[d] EXCEPT !.nextIn = next] /\ row[d] \in Row
        BY <1>1, <3>2 DEF TypeOK
      <4>2. row'[d].status = row[d].status
        BY <4>1 DEF Row
      <4> QED
        BY <1>1, <3>2, <4>2 DEF TypeOK
    <3> QED
      BY <3>1, <3>2
  <2>4. Recorded(target[d][a.chat], a).status # "none"
    BY <1>1, <2>1, RecordedType DEF TypeOK
  <2>5. \A b \in Request : Recipients(target'[b]) = Recipients(target[b])
    BY <1>1, <2>1, <2>2, <2>4 DEF TypeOK, Recipients
  <2> QED
    BY <2>2, <2>3, <2>5, Invisible
<1>5. ASSUME NEW w \in Worker, Escalate(w)
      PROVE  UNCHANGED Contract!outboxVars
  BY <1>1, <1>5, Invisible DEF Escalate, History, TypeOK, Row
<1>6. ASSUME NEW w \in Worker, Stop(w)
      PROVE  UNCHANGED Contract!outboxVars
  BY <1>1, <1>6, StopType, Invisible
<1>7. ASSUME NEW w \in Retrier, ListDue(w)
      PROVE  UNCHANGED Contract!outboxVars
  BY <1>7, Invisible DEF ListDue, History
<1> QED
  BY <1>2, <1>3, <1>4, <1>5, <1>6, <1>7

\* As long as workers keep inside their leases, the outbox keeps its contract:
\* crashes, storage failures and retries are invisible.
THEOREM Refinement ==
    ASSUME Timely
    PROVE  Spec => ImplementsContract
<1>1. ASSUME Init
      PROVE  Contract!Init
  <2>1. State = [a \in Request |-> "absent"]
    BY <1>1 DEF Init, Absent, State
  <2>2. Audience = [a \in Request |-> {}] /\ Got = [a \in Request |-> {}]
    BY <1>1 DEF Init, NoTarget, Recipients, Audience, Got
  <2> QED
    BY <2>1, <2>2 DEF Contract!Init, State, Audience, Got
<1>2. Inv /\ LeaseInv /\ [Next]_vars => [Contract!Next]_(Contract!outboxVars)
  <2>1. CASE UNCHANGED vars
    BY <2>1, Invisible DEF vars
  <2>2. ASSUME Inv, LeaseInv, NEW w \in Worker, Process(w)
        PROVE  [Contract!Next]_(Contract!outboxVars)
    BY <2>2, SendReaches, FinalizeCloses, RestInvisible DEF Process
  <2>3. ASSUME Inv, LeaseInv, Next
        PROVE  [Contract!Next]_(Contract!outboxVars)
    <3>1. CASE \E w \in Worker : Process(w) \/ StorageFails(w) \/ Crash(w)
      BY <2>2, <2>3, <3>1, RestInvisible DEF Stop
    <3>2. CASE \/ Tick
               \/ \E w \in Retrier : ListDue(w)
               \/ \E r \in Request : SubmitFails(r)
      BY <2>3, <3>2, RestInvisible DEF Stop, Worker
    <3> QED
      BY <2>3, <3>1, <3>2, SubmitAccepts DEF Next
  <2> QED
    BY <2>1, <2>3
<1> QED
  BY <1>1, <1>2, LeaseInvariance, Invariance, PTL
     DEF Spec, ImplementsContract, Contract!Spec
=============================================================================
