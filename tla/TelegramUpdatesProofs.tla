------------------------ MODULE TelegramUpdatesProofs ------------------------
(***************************************************************************)
(* Proofs about TelegramUpdates for any number of updates, handlers, runs  *)
(* and faults, polling and with a webhook, and any lifetime of a claim.    *)
(***************************************************************************)
EXTENDS TelegramUpdates, TLAPS, FiniteSetTheorems

-----------------------------------------------------------------------------
(* The invariant. *)

\* Telegram may forget the update u: there is nothing left to do for it.
Settled(u) == kind[u] = "send" \/ replies[u] # {} \/ u \in quiet

\* What a handler at work holds: the row, with time left, and on it the reply
\* that it is about to send.
HandlerAt(h) ==
    LET u == handler[h].update
    IN  /\ handler[h].pc # "idle" => u \in Update /\ telegram[u] # "unsent"
        /\ Busy(h) => row[u].lockIn > 0
        /\ handler[h].pc = "wait" => handler[h].run \in Run
        /\ handler[h].pc \in {"ask", "wait", "abandon", "stage"} => row[u].status = "processing"
        /\ handler[h].pc \in {"reply", "finish"} =>
             row[u].status = "pending_send" /\ row[u].text = handler[h].text
        /\ handler[h].pc = "stage" => handler[h].text \in Text
        /\ handler[h].pc = "finish" \/ (handler[h].pc = "respond" /\ handler[h].ok) => Settled(u)

\* Nothing is sent before it is staged, and what was sent is what is staged.
RowAt(u) ==
    /\ telegram[u] = "unsent" => row[u].status = "absent" /\ u \notin seen
    /\ row[u].status \in {"absent", "processing"} => replies[u] = {}
    /\ replies[u] \subseteq {row[u].text}
    /\ row[u].status = "pending_send" => row[u].text \in Text
    /\ row[u].status = "completed" => row[u].lockIn = 0
    /\ row[u].status = "completed" \/ u \in seen \/ telegram[u] = "acked" => Settled(u)

RunAt(r) ==
    /\ run[r].pc # "idle" => run[r].update \in Update
    /\ run[r].pc \in {"store", "answered"} => run[r].text \in Text

Inv ==
    /\ TypeOK
    /\ OneHandlerPerUpdate
    /\ \A h \in Handler : HandlerAt(h)
    /\ \A u \in Update : RowAt(u)
    /\ \A r \in Run : RunAt(r)

-----------------------------------------------------------------------------
(* Operators. *)

LEMMA RowTypes ==
    ASSUME NEW r \in Row
    PROVE  /\ Absent \in Row
           /\ Claimed(r) \in Row /\ Claimed(r).lockIn > 0 /\ Claimed(r).text = r.text
           /\ Claimed(r).status = IF r.status = "absent" THEN "processing" ELSE r.status
           /\ Completed(r) \in Row /\ Completed(r).status = "completed"
           /\ Completed(r).lockIn = 0 /\ Completed(r).text = r.text
           /\ Released(r) \in Row /\ Released(r).status = r.status /\ Released(r).text = r.text
           /\ r.status = "completed" => Released(r) = r
           /\ Abandoned(r) \in {r, Absent}
           /\ r.status # "processing" => Abandoned(r) = r
<1>1. Ttl \in Nat \ {0}
  BY UpdateConstants DEF UpdateConstants
<1>2. Absent \in Row /\ Abandoned(r) \in {r, Absent}
  BY DEF Row, Absent, Abandoned
<1>3. /\ Claimed(r) \in Row /\ Claimed(r).lockIn > 0 /\ Claimed(r).text = r.text
      /\ Claimed(r).status = IF r.status = "absent" THEN "processing" ELSE r.status
  <2>1. r.status \in {"absent", "processing", "pending_send", "completed"}
    BY DEF Row
  <2>2. CASE r.status = "absent"
    <3>1. Claimed(r) = [r EXCEPT !.status = "processing", !.lockIn = Ttl]
      BY <2>2 DEF Claimed
    <3> QED
      <4>1. Claimed(r) \in Row
        BY <1>1, <3>1 DEF Row
      <4>2. Claimed(r).lockIn = Ttl /\ Claimed(r).text = r.text
        BY <3>1 DEF Row
      <4>3. Claimed(r).status = "processing"
        BY <3>1 DEF Row
      <4> QED
        BY <1>1, <2>2, <4>1, <4>2, <4>3
  <2>3. CASE r.status # "absent"
    <3>1. Claimed(r) = [r EXCEPT !.lockIn = Ttl]
      BY <2>3 DEF Claimed, Row
    <3> QED
      BY <1>1, <2>3, <3>1 DEF Row
  <2> QED
    BY <2>2, <2>3
<1>4. /\ Completed(r) \in Row /\ Completed(r).status = "completed"
      /\ Completed(r).lockIn = 0 /\ Completed(r).text = r.text
  BY DEF Row, Completed
<1>5. /\ Released(r) \in Row /\ Released(r).status = r.status /\ Released(r).text = r.text
      /\ r.status = "completed" => Released(r) = r
  BY DEF Row, Released
<1>6. r.status # "processing" => Abandoned(r) = r
  BY DEF Abandoned
<1> QED
  BY <1>2, <1>3, <1>4, <1>5, <1>6

LEMMA FaultType ==
    ASSUME TypeOK, NoFault \/ Fault
    PROVE  faults' \in 0..MaxFaults
BY UpdateConstants DEF TypeOK, NoFault, Fault, UpdateConstants

-----------------------------------------------------------------------------
(* What a step leaves alone. *)

\* Updates that have been sent stay sent, replies stay read, and what was
\* ignored stays ignored.
Grows ==
    /\ \A v \in Update : telegram[v] # "unsent" =>
         telegram'[v] # "unsent" /\ kind'[v] = kind[v]
    /\ \A v \in Update : replies[v] \subseteq replies'[v]
    /\ quiet \subseteq quiet'

LEMMA SettledStays ==
    ASSUME Grows, NEW v \in Update, telegram[v] # "unsent", Settled(v)
    PROVE  Settled(v)'
BY DEF Grows, Settled

LEMMA HandlerStays ==
    ASSUME Grows, NEW h \in Handler, HandlerAt(h), handler'[h] = handler[h],
           Busy(h) => row'[handler[h].update] = row[handler[h].update]
    PROVE  HandlerAt(h)'
<1> DEFINE u == handler[h].update
<1>1. handler[h].pc # "idle" => u \in Update /\ telegram[u] # "unsent" /\ telegram'[u] # "unsent"
  BY DEF HandlerAt, Grows
<1>2. handler[h].pc # "idle" /\ Settled(u) => Settled(u)'
  BY <1>1, SettledStays
<1>3. handler'[h].update = u
  OBVIOUS
<1> QED
  BY <1>1, <1>2, <1>3 DEF HandlerAt, Busy

LEMMA RowStays ==
    ASSUME Grows, NEW v \in Update, RowAt(v), row'[v] = row[v], replies'[v] = replies[v],
           v \in seen' => v \in seen, telegram'[v] = telegram[v]
    PROVE  RowAt(v)'
<1>1. telegram[v] # "unsent" /\ Settled(v) => Settled(v)'
  BY SettledStays
<1>2. telegram[v] = "unsent" => row[v].status # "completed" /\ v \notin seen
  BY DEF RowAt
<1> QED
  BY <1>1, <1>2 DEF RowAt

\* No handler but h is at work on u.
Free(h, u) ==
    \A g \in Handler \ {h} : Busy(g) => handler[g].update # u

LEMMA FreeFacts ==
    ASSUME Inv, NEW h \in Handler
    PROVE  /\ Busy(h) => Free(h, handler[h].update)
           /\ \A u \in Update : ~Locked(row[u]) => Free(h, u)
<1>1. Busy(h) => Free(h, handler[h].update)
  BY DEF Inv, OneHandlerPerUpdate, Free
<1>2. ASSUME NEW g \in Handler, Busy(g)
      PROVE  Locked(row[handler[g].update])
  <2>1. HandlerAt(g) /\ handler[g] \in HandlerState
    BY DEF Inv, TypeOK
  <2> QED
    BY <1>2, <2>1 DEF HandlerAt, Busy, Locked, HandlerState
<1> QED
  BY <1>1, <1>2 DEF Free

\* A step of the handler h with the update u.
LEMMA HandlerStep ==
    ASSUME Inv, Grows, NEW h \in Handler, NEW u \in Update,
           \A g \in Handler \ {h} : handler'[g] = handler[g],
           \A v \in Update \ {u} : /\ row'[v] = row[v] /\ replies'[v] = replies[v]
                                   /\ v \in seen' => v \in seen
                                   /\ telegram'[v] = telegram[v],
           handler'[h].pc # "idle" => handler'[h].update = u,
           Free(h, u) \/ (row'[u] = row[u] /\ ~Busy(h)'),
           HandlerAt(h)', RowAt(u)'
    PROVE  /\ OneHandlerPerUpdate'
           /\ \A g \in Handler : HandlerAt(g)'
           /\ \A v \in Update : RowAt(v)'
<1>1. \A v \in Update : RowAt(v)'
  BY RowStays DEF Inv
<1>2. ASSUME NEW g \in Handler \ {h}
      PROVE  HandlerAt(g)'
  <2>1. HandlerAt(g)
    BY DEF Inv
  <2>2. Busy(g) => handler[g].update \in Update
    BY <2>1 DEF HandlerAt, Busy
  <2>3. Busy(g) => row'[handler[g].update] = row[handler[g].update]
    BY <2>2 DEF Free
  <2> QED
    BY <2>1, <2>3, HandlerStays
<1>3. OneHandlerPerUpdate'
  <2>1. \A g \in Handler \ {h} : Busy(g)' <=> Busy(g)
    BY DEF Busy
  <2>2. Busy(h)' => handler'[h].update = u /\ Free(h, u)
    BY DEF Busy
  <2> QED
    BY <2>1, <2>2 DEF OneHandlerPerUpdate, Inv, Free
<1> QED
  BY <1>1, <1>2, <1>3

-----------------------------------------------------------------------------
(* Every action preserves the invariant. *)

LEMMA InitInv == Init => Inv
<1>1. ASSUME Init
      PROVE  Inv
  <2>1. Absent \in Row /\ Idle \in HandlerState /\ IdleRun \in RunState
    BY DEF Absent, Row, Idle, HandlerState, IdleRun, RunState
  <2>2. 0 \in 0..MaxFaults
    BY UpdateConstants DEF UpdateConstants
  <2>3. TypeOK
    BY <1>1, <2>1, <2>2 DEF Init, TypeOK
  <2>4. \A h \in Handler : handler[h].pc = "idle"
    BY <1>1 DEF Init, Idle
  <2>5. \A u \in Update : RowAt(u)
    BY <1>1 DEF Init, RowAt, Absent
  <2>6. \A r \in Run : RunAt(r)
    BY <1>1 DEF Init, RunAt, IdleRun
  <2> QED
    BY <2>3, <2>4, <2>5, <2>6 DEF Inv, HandlerAt, OneHandlerPerUpdate, Busy
<1> QED
  BY <1>1

\* A user sends a message.
LEMMA PostInv ==
    ASSUME Inv, NEW u \in Update, NEW k \in Kinds, Post(u, k)
    PROVE  Inv'
<1>1. /\ TypeOK /\ telegram[u] = "unsent"
      /\ UNCHANGED <<row, seen, handler, run, cache, sent, replies, quiet, faults>>
      /\ telegram' = [telegram EXCEPT ![u] = "open"]
      /\ kind' = [kind EXCEPT ![u] = k]
  BY DEF Inv, Post, Agent
<1>2. TypeOK'
  <2>1. k \in Kind
    BY UpdateConstants DEF UpdateConstants
  <2>2. kind' \in [Update -> Kind \cup {None}]
    BY <1>1, <2>1 DEF TypeOK
  <2>3. telegram' \in [Update -> {"unsent", "open", "acked", "dropped"}]
    BY <1>1 DEF TypeOK
  <2> QED
    BY <1>1, <2>2, <2>3 DEF TypeOK
<1>3. Grows
  BY <1>1 DEF Grows, TypeOK
<1>4. \A h \in Handler : HandlerAt(h)'
  BY <1>1, <1>3, HandlerStays DEF Inv
<1>5. \A v \in Update : RowAt(v)'
  <2>1. RowAt(u)'
    BY <1>1 DEF Inv, RowAt, TypeOK
  <2>2. ASSUME NEW v \in Update \ {u}
        PROVE  RowAt(v)'
    BY <1>1, <1>3, RowStays DEF Inv, TypeOK
  <2> QED
    BY <2>1, <2>2
<1> QED
  BY <1>1, <1>2, <1>4, <1>5 DEF Inv, OneHandlerPerUpdate, Busy, RunAt

\* The response to Telegram.
LEMMA AnswerInv ==
    ASSUME Inv, NEW h \in Handler, Answer(h)
    PROVE  Inv'
<1>1. PICK u \in Update : u = handler[h].update /\ telegram[u] # "unsent"
  BY DEF Answer, At, Inv, HandlerAt
<1>2. /\ TypeOK /\ HandlerAt(h) /\ RowAt(u)
      /\ handler[h].pc = "respond" /\ handler' = [handler EXCEPT ![h] = Idle]
      /\ UNCHANGED <<kind, row, seen, run, cache, sent, replies, quiet>>
      /\ \/ telegram' = telegram
         \/ handler[h].ok /\ telegram' = [telegram EXCEPT ![u] = "acked"]
      /\ NoFault \/ Fault
  BY <1>1 DEF Inv, Answer, Agent, At
<1>3. TypeOK'
  BY <1>2, FaultType DEF TypeOK, Idle, HandlerState
<1>4. Grows
  BY <1>1, <1>2 DEF Grows, TypeOK
<1>5. HandlerAt(h)' /\ handler'[h].pc = "idle"
  BY <1>2 DEF HandlerAt, Idle, Busy, TypeOK
<1>6. RowAt(u)'
  <2>1. handler[h].ok => Settled(u)
    BY <1>1, <1>2 DEF HandlerAt
  <2>2. Settled(u)' <=> Settled(u)
    BY <1>2 DEF Settled
  <2>3. telegram'[u] # "unsent" /\ (telegram'[u] = "acked" => telegram[u] = "acked" \/ handler[h].ok)
    BY <1>1, <1>2 DEF TypeOK
  <2> QED
    BY <1>2, <2>1, <2>2, <2>3 DEF RowAt
<1>7. /\ \A g \in Handler \ {h} : handler'[g] = handler[g]
      /\ \A v \in Update \ {u} : telegram'[v] = telegram[v]
      /\ ~Busy(h)'
  BY <1>2, <1>5 DEF TypeOK, Busy
<1>8. /\ OneHandlerPerUpdate' /\ \A g \in Handler : HandlerAt(g)'
      /\ \A v \in Update : RowAt(v)'
  BY <1>2, <1>4, <1>5, <1>6, <1>7, HandlerStep
<1> QED
  BY <1>2, <1>3, <1>8 DEF Inv, RunAt

\* The steps of a handler at work on the update u, or about to be.
LEMMA WorkStep ==
    ASSUME Inv, NEW h \in Handler, NEW u \in Update, telegram[u] # "unsent",
           Free(h, u) \/ (row'[u] = row[u] /\ ~Busy(h)'),
           handler' = [handler EXCEPT ![h] = handler'[h]], handler'[h] \in HandlerState,
           row' = [row EXCEPT ![u] = row'[u]], row'[u] \in Row,
           replies' = [replies EXCEPT ![u] = replies'[u]], replies'[u] \in SUBSET Text,
           replies[u] \subseteq replies'[u],
           seen' \in {seen, seen \cup {u}, seen \ {u}}, quiet' \in {quiet, quiet \cup {u}},
           UNCHANGED <<telegram, kind, cache, sent>>, NoFault \/ Fault,
           run' \in [Run -> RunState], \A q \in Run : RunAt(q)',
           handler'[h].update = u, HandlerAt(h)', RowAt(u)'
    PROVE  Inv'
<1>1. TypeOK
  BY DEF Inv
<1>2. TypeOK'
  BY <1>1, FaultType DEF TypeOK
<1>3. Grows
  BY <1>1 DEF Grows, TypeOK
<1>4. /\ \A g \in Handler \ {h} : handler'[g] = handler[g]
      /\ \A v \in Update \ {u} : /\ row'[v] = row[v] /\ replies'[v] = replies[v]
                                 /\ v \in seen' => v \in seen
                                 /\ telegram'[v] = telegram[v]
  BY <1>1 DEF TypeOK
<1>5. /\ OneHandlerPerUpdate' /\ \A g \in Handler : HandlerAt(g)'
      /\ \A v \in Update : RowAt(v)'
  BY <1>3, <1>4, HandlerStep
<1> QED
  BY <1>2, <1>5 DEF Inv

\* A delivery of an update that is not worked on, or not by this handler.
LEMMA ReceiveAnswered ==
    ASSUME Inv, NEW h \in Handler, NEW u \in Update, telegram[u] = "open",
           handler[h].pc = "idle", NEW ok \in BOOLEAN, ok => Settled(u)',
           handler' = [handler EXCEPT ![h] = [Idle EXCEPT !.pc = "respond", !.update = u,
                                                          !.ok = ok]],
           \/ row' = row
           \/ Free(h, u) /\ row' = [row EXCEPT ![u] = row'[u]] /\ row'[u] \in Row,
           seen' = seen \/ (seen' = seen \cup {u} /\ ok),
           quiet' \in {quiet, quiet \cup {u}},
           UNCHANGED <<telegram, kind, run, cache, sent, replies>>, NoFault \/ Fault,
           RowAt(u)'
    PROVE  Inv'
<1>1. /\ TypeOK /\ handler'[h] = [Idle EXCEPT !.pc = "respond", !.update = u, !.ok = ok]
      /\ row' = [row EXCEPT ![u] = row'[u]] /\ row'[u] \in Row
  BY DEF Inv, TypeOK
<1>2. handler'[h].pc = "respond" /\ handler'[h].update = u /\ handler'[h].ok = ok
  BY <1>1 DEF Idle
<1>3. handler'[h] \in HandlerState
  <2>1. \A b \in BOOLEAN :
          [Idle EXCEPT !.pc = "respond", !.update = u, !.ok = b] \in HandlerState
    <3>1. [Idle EXCEPT !.pc = "respond", !.update = u, !.ok = TRUE] \in HandlerState
      BY DEF Idle, HandlerState
    <3>2. [Idle EXCEPT !.pc = "respond", !.update = u, !.ok = FALSE] \in HandlerState
      BY DEF Idle, HandlerState
    <3> QED
      BY <3>1, <3>2
  <2> QED
    BY <1>1, <2>1
<1>4. HandlerAt(h)'
  BY <1>2 DEF HandlerAt, Busy
<1>5. /\ run' \in [Run -> RunState] /\ \A q \in Run : RunAt(q)'
      /\ replies' = [replies EXCEPT ![u] = replies'[u]] /\ replies'[u] \in SUBSET Text
      /\ replies[u] \subseteq replies'[u]
      /\ handler' = [handler EXCEPT ![h] = handler'[h]]
  BY <1>1 DEF Inv, TypeOK, RunAt
<1>6. Free(h, u) \/ (row'[u] = row[u] /\ ~Busy(h)')
  BY <1>2 DEF Busy
<1> QED
  BY <1>1, <1>2, <1>3, <1>4, <1>5, <1>6, WorkStep

\* A freshly claimed row.
LEMMA RouteInv ==
    ASSUME Inv, NEW h \in Handler, NEW u \in Update, telegram[u] = "open",
           handler[h].pc = "idle", ~Duplicate(row[u]), ~Locked(row[u]), ~Staged(row[u]),
           Route(h, u, Claimed(row[u])), UNCHANGED <<telegram, kind, run, cache, sent, replies>>
    PROVE  Inv'
<1> DEFINE r == Claimed(row[u])
<1>1. TypeOK /\ RowAt(u) /\ row[u] \in Row /\ Free(h, u)
  BY FreeFacts DEF Inv, TypeOK
<1>2. row[u].status \in {"absent", "processing"} /\ replies[u] = {}
  BY <1>1 DEF Duplicate, Staged, RowAt, Row
<1>3. /\ r \in Row /\ r.lockIn > 0 /\ r.status = "processing"
      /\ Completed(r) \in Row /\ Completed(r).status = "completed" /\ Completed(r).lockIn = 0
  BY <1>1, <1>2, RowTypes
<1> HIDE DEF r
<1>4. ASSUME Ignore(h, u, r)
      PROVE  Inv'
  <2>1. /\ handler' = [handler EXCEPT ![h] = [Idle EXCEPT !.pc = "respond", !.update = u,
                                                          !.ok = TRUE]]
        /\ quiet' = quiet \cup {u}
        /\ \/ row' = [row EXCEPT ![u] = Completed(r)] /\ seen' = seen \cup {u} /\ NoFault
           \/ row' = [row EXCEPT ![u] = r] /\ seen' = seen /\ Fault
    BY <1>4 DEF Ignore
  <2>2. row' = [row EXCEPT ![u] = row'[u]] /\ row'[u] \in {Completed(r), r}
    BY <1>1, <2>1 DEF TypeOK
  <2>3. Settled(u)' /\ RowAt(u)'
    BY <1>2, <1>3, <2>1, <2>2 DEF RowAt, Settled
  <2> QED
    BY <1>1, <1>3, <2>1, <2>2, <2>3, ReceiveAnswered
<1>5. ASSUME NEW p \in {"ask", "stage"}, NEW t \in Text \cup {None},
             p = "stage" => t \in Text,
             handler' = [handler EXCEPT ![h] =
               [Idle EXCEPT !.pc = p, !.update = u, !.text = t,
                            !.release = (kind[u] = "text")]],
             row' = [row EXCEPT ![u] = r], UNCHANGED <<seen, quiet>>, NoFault
      PROVE  Inv'
  <2>1. /\ handler'[h] = [Idle EXCEPT !.pc = p, !.update = u, !.text = t,
                                      !.release = (kind[u] = "text")]
        /\ row'[u] = r /\ row' = [row EXCEPT ![u] = row'[u]]
        /\ handler' = [handler EXCEPT ![h] = handler'[h]]
    BY <1>1, <1>5 DEF TypeOK
  <2>2. handler'[h].pc = p /\ handler'[h].update = u /\ handler'[h].text = t
    BY <2>1 DEF Idle
  <2>3. handler'[h] \in HandlerState
    <3> DEFINE plain == kind[u] = "text"
    <3>1. \A b \in BOOLEAN :
            [Idle EXCEPT !.pc = p, !.update = u, !.text = t, !.release = b] \in HandlerState
      <4>1. [Idle EXCEPT !.pc = p, !.update = u, !.text = t, !.release = TRUE] \in HandlerState
        BY <1>5 DEF Idle, HandlerState
      <4>2. [Idle EXCEPT !.pc = p, !.update = u, !.text = t, !.release = FALSE] \in HandlerState
        BY <1>5 DEF Idle, HandlerState
      <4> QED
        BY <4>1, <4>2
    <3>2. plain \in BOOLEAN
      OBVIOUS
    <3>3. handler'[h] = [Idle EXCEPT !.pc = p, !.update = u, !.text = t, !.release = plain]
      BY <2>1
    <3> HIDE DEF plain
    <3> QED
      BY <3>1, <3>2, <3>3
  <2>4. HandlerAt(h)'
    BY <1>3, <1>5, <2>1, <2>2 DEF HandlerAt, Busy
  <2>5. RowAt(u)'
    BY <1>1, <1>2, <1>3, <1>5, <2>1 DEF RowAt, Settled
  <2>6. /\ run' \in [Run -> RunState] /\ \A q \in Run : RunAt(q)'
        /\ replies' = [replies EXCEPT ![u] = replies'[u]] /\ replies'[u] \in SUBSET Text
        /\ replies[u] \subseteq replies'[u]
    BY <1>1 DEF Inv, TypeOK, RunAt
  <2> QED
    BY <1>1, <1>3, <1>5, <2>1, <2>2, <2>3, <2>4, <2>5, <2>6, WorkStep
<1>6. ASSUME handler' = [handler EXCEPT ![h] = [Idle EXCEPT !.pc = "respond", !.update = u,
                                                            !.ok = TRUE]],
             row' = [row EXCEPT ![u] = r], quiet' = quiet \cup {u}, seen' = seen, NoFault
      PROVE  Inv'
  <2>1. row' = [row EXCEPT ![u] = row'[u]] /\ row'[u] = r
    BY <1>1, <1>6 DEF TypeOK
  <2>2. Settled(u)' /\ RowAt(u)'
    BY <1>1, <1>2, <1>3, <1>6, <2>1 DEF RowAt, Settled
  <2> QED
    BY <1>1, <1>3, <1>6, <2>1, <2>2, ReceiveAnswered
<1>7. None \in Text \cup {None} /\ "local" \in Text
  BY DEF Text
<1> QED
  BY <1>4, <1>5, <1>6, <1>7 DEF Route, r

LEMMA ReceiveInv ==
    ASSUME Inv, NEW h \in Handler, NEW u \in Update, Receive(h, u)
    PROVE  Inv'
<1>1. /\ TypeOK /\ RowAt(u) /\ row[u] \in Row
      /\ handler[h].pc = "idle" /\ telegram[u] = "open"
      /\ UNCHANGED <<telegram, kind, run, cache, sent, replies>>
  BY DEF Inv, Receive, At, Messages, Agent, TypeOK
<1>2. ASSUME u \in seen \/ Duplicate(row[u]),
             handler' = [handler EXCEPT ![h] = [Idle EXCEPT !.pc = "respond", !.update = u,
                                                            !.ok = TRUE]],
             UNCHANGED <<row, quiet>>, seen' = seen \cup {u}, NoFault
      PROVE  Inv'
  <2>1. Settled(u)' /\ RowAt(u)'
    BY <1>1, <1>2 DEF RowAt, Settled, Duplicate
  <2> QED
    BY <1>1, <1>2, <2>1, ReceiveAnswered
<1>3. ASSUME handler' = [handler EXCEPT ![h] = [Idle EXCEPT !.pc = "respond", !.update = u,
                                                            !.ok = FALSE]],
             UNCHANGED <<row, quiet>>, seen' = seen, NoFault \/ Fault
      PROVE  Inv'
  <2>1. RowAt(u)'
    BY <1>1, <1>3 DEF RowAt, Settled
  <2> QED
    BY <1>1, <1>3, <2>1, ReceiveAnswered
<1>4. ASSUME ~Locked(row[u]), Staged(row[u]),
             handler' = [handler EXCEPT ![h] =
                 [Idle EXCEPT !.pc = "reply", !.update = u, !.text = row[u].text,
                              !.release = TRUE]],
             row' = [row EXCEPT ![u] = Claimed(@)], UNCHANGED <<seen, quiet>>, NoFault
      PROVE  Inv'
  <2>1. /\ row'[u] = Claimed(row[u]) /\ row' = [row EXCEPT ![u] = row'[u]]
        /\ handler'[h] = [Idle EXCEPT !.pc = "reply", !.update = u, !.text = row[u].text,
                                      !.release = TRUE]
        /\ handler' = [handler EXCEPT ![h] = handler'[h]]
    BY <1>1, <1>4 DEF TypeOK
  <2>2. /\ handler'[h].pc = "reply" /\ handler'[h].update = u
        /\ handler'[h].text = row[u].text
    BY <2>1 DEF Idle
  <2>3. row[u].status = "pending_send" /\ row[u].text \in Text
    BY <1>1, <1>4 DEF Staged, RowAt
  <2>4. /\ row'[u] \in Row /\ row'[u].lockIn > 0 /\ row'[u].text = row[u].text
        /\ row'[u].status = "pending_send"
    BY <1>1, <2>1, <2>3, RowTypes
  <2>5. handler'[h] \in HandlerState
    BY <2>1, <2>3 DEF Idle, HandlerState
  <2>6. HandlerAt(h)'
    BY <1>1, <2>2, <2>4 DEF HandlerAt, Busy
  <2>7. RowAt(u)'
    BY <1>1, <1>4, <2>3, <2>4 DEF RowAt, Settled
  <2>8. /\ run' \in [Run -> RunState] /\ \A q \in Run : RunAt(q)'
        /\ replies' = [replies EXCEPT ![u] = replies'[u]] /\ replies'[u] \in SUBSET Text
        /\ replies[u] \subseteq replies'[u]
    BY <1>1 DEF Inv, TypeOK, RunAt
  <2>9. Free(h, u)
    BY <1>4, FreeFacts
  <2> QED
    BY <1>1, <1>4, <2>1, <2>2, <2>4, <2>5, <2>6, <2>7, <2>8, <2>9, WorkStep
<1> QED
  BY <1>1, <1>2, <1>3, <1>4, RouteInv DEF Receive

\* Who works on an update, and on which.
LEMMA AtWork ==
    ASSUME Inv, NEW h \in Handler, Busy(h)
    PROVE  \E u \in Update : /\ u = handler[h].update /\ telegram[u] # "unsent"
                             /\ HandlerAt(h) /\ RowAt(u) /\ Free(h, u)
                             /\ TypeOK /\ row[u] \in Row /\ handler[h] \in HandlerState
<1>1. handler[h].update \in Update /\ telegram[handler[h].update] # "unsent"
  BY DEF Inv, HandlerAt, Busy
<1> QED
  BY <1>1, FreeFacts DEF Inv, TypeOK

\* A step of a handler at work that moves its pc and leaves the rest alone.
LEMMA MoveInv ==
    ASSUME Inv, NEW h \in Handler, Busy(h),
           UNCHANGED <<telegram, kind, row, seen, cache, sent, replies, quiet>>,
           NoFault \/ Fault, run' \in [Run -> RunState], \A q \in Run : RunAt(q)',
           handler' = [handler EXCEPT ![h] = handler'[h]], handler'[h] \in HandlerState,
           handler'[h].update = handler[h].update, HandlerAt(h)'
    PROVE  Inv'
<1>1. PICK u \in Update : /\ u = handler[h].update /\ telegram[u] # "unsent"
                          /\ RowAt(u) /\ Free(h, u) /\ TypeOK /\ row[u] \in Row
  BY AtWork
<1>2. RowAt(u)'
  BY <1>1 DEF RowAt, Settled
<1>3. /\ row' = [row EXCEPT ![u] = row'[u]] /\ row'[u] \in Row
      /\ replies' = [replies EXCEPT ![u] = replies'[u]] /\ replies'[u] \in SUBSET Text
      /\ replies[u] \subseteq replies'[u]
  BY <1>1 DEF TypeOK
<1> QED
  BY <1>1, <1>2, <1>3, WorkStep

\* The call to agent-api.
LEMMA AskInv ==
    ASSUME Inv, NEW h \in Handler, NEW r \in Run, Ask(h, r)
    PROVE  Inv'
<1>1. /\ Busy(h) /\ handler[h].pc = "ask"
      /\ UNCHANGED <<telegram, kind, row, seen, cache, sent, replies, quiet>> /\ NoFault
      /\ run' = [run EXCEPT ![r] = [IdleRun EXCEPT !.pc = "load",
                                                   !.update = handler[h].update]]
      /\ handler' = [handler EXCEPT ![h].pc = "wait", ![h].run = r]
  BY DEF Ask, At, Busy, Messages, NoFault
<1>2. PICK u \in Update : /\ u = handler[h].update /\ HandlerAt(h)
                          /\ TypeOK /\ handler[h] \in HandlerState
  BY <1>1, AtWork
<1>3. [IdleRun EXCEPT !.pc = "load", !.update = u] \in RunState
  BY DEF IdleRun, RunState
<1>4. run' \in [Run -> RunState] /\ \A q \in Run : RunAt(q)'
  <2>1. run'[r].pc = "load" /\ run'[r].update = u
    BY <1>1, <1>2 DEF IdleRun, TypeOK
  <2>2. \A q \in Run \ {r} : run'[q] = run[q]
    BY <1>1, <1>2 DEF TypeOK
  <2> QED
    BY <1>1, <1>2, <1>3, <2>1, <2>2 DEF Inv, RunAt, TypeOK
<1>5. /\ handler' = [handler EXCEPT ![h] = handler'[h]] /\ handler'[h] \in HandlerState
      /\ handler'[h].pc = "wait" /\ handler'[h].run = r /\ handler'[h].update = u
  BY <1>1, <1>2 DEF TypeOK, HandlerState
<1>6. HandlerAt(h)'
  BY <1>1, <1>2, <1>5 DEF HandlerAt, Busy
<1> QED
  BY <1>1, <1>2, <1>4, <1>5, <1>6, MoveInv

\* agent-api answers, or does not.
LEMMA HearInv ==
    ASSUME Inv, NEW h \in Handler, Hear(h)
    PROVE  Inv'
<1>1. /\ Busy(h) /\ handler[h].pc = "wait"
      /\ UNCHANGED <<telegram, kind, row, seen, run, cache, sent, replies, quiet>>
      /\ NoFault \/ Fault
      /\ \/ /\ run[handler[h].run].pc = "answered"
            /\ handler' = [handler EXCEPT ![h].pc = "stage",
                                          ![h].text = run[handler[h].run].text]
         \/ handler' = [handler EXCEPT ![h].pc = "abandon"]
  BY DEF Hear, At, Busy, Messages, Agent, Goto
<1>2. PICK u \in Update : /\ u = handler[h].update /\ HandlerAt(h)
                          /\ TypeOK /\ handler[h] \in HandlerState
  BY <1>1, AtWork
<1>3. run' \in [Run -> RunState] /\ \A q \in Run : RunAt(q)'
  BY <1>1 DEF Inv, RunAt, TypeOK
<1>4. CASE handler' = [handler EXCEPT ![h].pc = "abandon"]
  <2>1. /\ handler' = [handler EXCEPT ![h] = handler'[h]] /\ handler'[h] \in HandlerState
        /\ handler'[h].pc = "abandon" /\ handler'[h].update = u
    BY <1>2, <1>4 DEF TypeOK, HandlerState
  <2>2. HandlerAt(h)'
    BY <1>1, <1>2, <2>1 DEF HandlerAt, Busy
  <2> QED
    BY <1>1, <1>2, <1>3, <2>1, <2>2, MoveInv
<1>5. CASE /\ run[handler[h].run].pc = "answered"
           /\ handler' = [handler EXCEPT ![h].pc = "stage",
                                         ![h].text = run[handler[h].run].text]
  <2>1. run[handler[h].run].text \in Text
    BY <1>1, <1>2, <1>5 DEF Inv, RunAt, HandlerAt
  <2>2. /\ handler' = [handler EXCEPT ![h] = handler'[h]] /\ handler'[h] \in HandlerState
        /\ handler'[h].pc = "stage" /\ handler'[h].update = u /\ handler'[h].text \in Text
    BY <1>2, <1>5, <2>1 DEF TypeOK, HandlerState
  <2>3. HandlerAt(h)'
    BY <1>1, <1>2, <2>2 DEF HandlerAt, Busy
  <2> QED
    BY <1>1, <1>2, <1>3, <2>2, <2>3, MoveInv
<1> QED
  BY <1>1, <1>4, <1>5

\* A response is due: nothing is held any more.
LEMMA RespondFacts ==
    ASSUME TypeOK, NEW h \in Handler, NEW u \in Update, u = handler[h].update,
           telegram'[u] # "unsent", NEW ok \in BOOLEAN, Respond(h, ok), ok => Settled(u)'
    PROVE  /\ handler' = [handler EXCEPT ![h] = handler'[h]] /\ handler'[h] \in HandlerState
           /\ handler'[h].update = u /\ handler'[h].pc = "respond"
           /\ HandlerAt(h)'
<1>1. /\ handler[h] \in HandlerState
      /\ handler'[h] = [handler[h] EXCEPT !.pc = "respond", !.ok = ok]
      /\ handler' = [handler EXCEPT ![h] = handler'[h]]
  BY DEF Respond, TypeOK
<1>2. /\ handler'[h].update = u /\ handler'[h].pc = "respond"
      /\ handler'[h].ok = ok
  BY <1>1 DEF HandlerState
<1>3. handler'[h] \in HandlerState
  <2>1. \A b \in BOOLEAN : [handler[h] EXCEPT !.pc = "respond", !.ok = b] \in HandlerState
    <3>1. [handler[h] EXCEPT !.pc = "respond", !.ok = TRUE] \in HandlerState
      BY <1>1 DEF HandlerState
    <3>2. [handler[h] EXCEPT !.pc = "respond", !.ok = FALSE] \in HandlerState
      BY <1>1 DEF HandlerState
    <3> QED
      BY <3>1, <3>2
  <2> QED
    BY <1>1, <2>1
<1> QED
  BY <1>1, <1>2, <1>3 DEF HandlerAt, Busy

\* The handler gives up, and the row goes: nothing was staged.
LEMMA AbandonInv ==
    ASSUME Inv, NEW h \in Handler, Abandon(h)
    PROVE  Inv'
<1>1. Busy(h) /\ handler[h].pc = "abandon"
  BY DEF Abandon, At, Busy
<1>2. PICK u \in Update : /\ u = handler[h].update /\ telegram[u] # "unsent"
                          /\ HandlerAt(h) /\ RowAt(u) /\ Free(h, u)
                          /\ TypeOK /\ row[u] \in Row /\ handler[h] \in HandlerState
  BY <1>1, AtWork
<1>3. /\ UNCHANGED <<telegram, kind, run, cache, sent, replies, quiet>>
      /\ (NoFault \/ Fault) /\ Respond(h, FALSE)
      /\ seen' \in {seen, seen \ {u}}
      /\ \E r \in {row[u], Abandoned(row[u])} :
           row' = [row EXCEPT ![u] = r] \/ row' = [row EXCEPT ![u] = Released(r)]
  BY <1>2 DEF Abandon, Messages, Agent
<1>4. PICK r \in {row[u], Abandoned(row[u])} : row'[u] \in {r, Released(r)}
  BY <1>2, <1>3 DEF TypeOK
<1>5. r \in Row /\ r.status \in {"absent", "processing"}
  <2>1. row[u].status = "processing"
    BY <1>1, <1>2 DEF HandlerAt
  <2>2. Abandoned(row[u]) \in {row[u], Absent} /\ Absent \in Row /\ Absent.status = "absent"
    BY <1>2, RowTypes DEF Absent
  <2> QED
    BY <1>2, <2>1, <2>2
<1>6. /\ row' = [row EXCEPT ![u] = row'[u]] /\ row'[u] \in Row
      /\ row'[u].status \in {"absent", "processing"}
  BY <1>2, <1>3, <1>4, <1>5, RowTypes DEF TypeOK
<1>7. replies[u] = {} /\ (u \in seen \/ telegram[u] = "acked" => Settled(u))
  BY <1>1, <1>2 DEF HandlerAt, RowAt
<1>8. RowAt(u)'
  BY <1>2, <1>3, <1>6, <1>7 DEF RowAt, Settled
<1>9. /\ handler' = [handler EXCEPT ![h] = handler'[h]] /\ handler'[h] \in HandlerState
      /\ handler'[h].update = u /\ HandlerAt(h)'
  BY <1>2, <1>3, RespondFacts
<1>10. /\ run' \in [Run -> RunState] /\ \A q \in Run : RunAt(q)'
       /\ replies' = [replies EXCEPT ![u] = replies'[u]] /\ replies'[u] \in SUBSET Text
       /\ replies[u] \subseteq replies'[u]
  BY <1>2, <1>3 DEF Inv, TypeOK, RunAt
<1> QED
  BY <1>2, <1>3, <1>6, <1>8, <1>9, <1>10, WorkStep

\* stage_reply.
LEMMA StageInv ==
    ASSUME Inv, NEW h \in Handler, Stage(h)
    PROVE  Inv'
<1>1. Busy(h) /\ handler[h].pc = "stage"
  BY DEF Stage, At, Busy
<1>2. PICK u \in Update : /\ u = handler[h].update /\ telegram[u] # "unsent"
                          /\ HandlerAt(h) /\ RowAt(u) /\ Free(h, u)
                          /\ TypeOK /\ row[u] \in Row /\ handler[h] \in HandlerState
  BY <1>1, AtWork
<1>3. /\ UNCHANGED <<telegram, kind, run, cache, sent, replies, quiet, seen>>
      /\ NoFault \/ Fault
      /\ \/ /\ row' = [row EXCEPT ![u] = [status |-> "pending_send", lockIn |-> Ttl,
                                          text |-> handler[h].text]]
            /\ handler' = [handler EXCEPT ![h].pc = "reply"]
         \/ row' = row /\ handler' = [handler EXCEPT ![h].pc = "abandon"]
  BY <1>2 DEF Stage, Messages, Agent, Goto
<1>4. /\ run' \in [Run -> RunState] /\ \A q \in Run : RunAt(q)'
      /\ replies' = [replies EXCEPT ![u] = replies'[u]] /\ replies'[u] \in SUBSET Text
      /\ replies[u] \subseteq replies'[u]
  BY <1>2, <1>3 DEF Inv, TypeOK, RunAt
<1>5. CASE row' = row /\ handler' = [handler EXCEPT ![h].pc = "abandon"]
  <2>1. /\ handler' = [handler EXCEPT ![h] = handler'[h]] /\ handler'[h] \in HandlerState
        /\ handler'[h].pc = "abandon" /\ handler'[h].update = u
    BY <1>2, <1>5 DEF TypeOK, HandlerState
  <2>2. HandlerAt(h)'
    BY <1>1, <1>2, <1>3, <1>5, <2>1 DEF HandlerAt, Busy
  <2> QED
    BY <1>1, <1>2, <1>3, <1>4, <1>5, <2>1, <2>2, MoveInv
<1>6. CASE /\ row' = [row EXCEPT ![u] = [status |-> "pending_send", lockIn |-> Ttl,
                                         text |-> handler[h].text]]
           /\ handler' = [handler EXCEPT ![h].pc = "reply"]
  <2>1. /\ handler' = [handler EXCEPT ![h] = handler'[h]] /\ handler'[h] \in HandlerState
        /\ handler'[h].pc = "reply" /\ handler'[h].update = u
        /\ handler'[h].text = handler[h].text
    BY <1>2, <1>6 DEF TypeOK, HandlerState
  <2>2. /\ row' = [row EXCEPT ![u] = row'[u]]
        /\ row'[u] = [status |-> "pending_send", lockIn |-> Ttl, text |-> handler[h].text]
    BY <1>2, <1>6 DEF TypeOK
  <2>3. handler[h].text \in Text /\ row[u].status = "processing"
    BY <1>1, <1>2 DEF HandlerAt
  <2>4. Ttl \in Nat /\ Ttl > 0
    BY UpdateConstants DEF UpdateConstants
  <2>5. row'[u] \in Row
    BY <2>2, <2>3, <2>4 DEF Row
  <2>6. HandlerAt(h)'
    BY <1>2, <1>3, <2>1, <2>2, <2>4 DEF HandlerAt, Busy
  <2>7. RowAt(u)'
    BY <1>2, <1>3, <2>2, <2>3 DEF RowAt, Settled
  <2> QED
    BY <1>2, <1>3, <1>4, <2>1, <2>2, <2>5, <2>6, <2>7, WorkStep
<1> QED
  BY <1>3, <1>5, <1>6

\* sendMessage: what is sent is what is staged.
LEMMA ReplyInv ==
    ASSUME Inv, NEW h \in Handler, Reply(h)
    PROVE  Inv'
<1>1. Busy(h) /\ handler[h].pc = "reply"
  BY DEF Reply, At, Busy
<1>2. PICK u \in Update : /\ u = handler[h].update /\ telegram[u] # "unsent"
                          /\ HandlerAt(h) /\ RowAt(u) /\ Free(h, u)
                          /\ TypeOK /\ row[u] \in Row /\ handler[h] \in HandlerState
  BY <1>1, AtWork
<1> DEFINE told == [replies EXCEPT ![u] = @ \cup {handler[h].text}]
<1>3. /\ UNCHANGED <<telegram, kind, run, cache, sent, quiet, seen>>
      /\ NoFault \/ Fault
      /\ replies' \in {replies, told}
      /\ \/ /\ Goto(h, "finish") /\ row' = row
            /\ replies' = told \/ kind[u] = "send"
         \/ /\ Respond(h, FALSE)
            /\ row' = row \/ row' = [row EXCEPT ![u] = Released(@)]
  BY <1>2 DEF Reply, Messages, Agent, AckOnly
<1>4. /\ row[u].status = "pending_send" /\ row[u].text = handler[h].text
      /\ handler[h].text \in Text
  BY <1>1, <1>2 DEF HandlerAt, RowAt
<1>5. /\ replies' = [replies EXCEPT ![u] = replies'[u]] /\ replies'[u] \in SUBSET Text
      /\ replies[u] \subseteq replies'[u] /\ replies'[u] \subseteq {row[u].text}
      /\ replies' = told => replies'[u] # {}
  <2>1. replies'[u] \in {replies[u], replies[u] \cup {handler[h].text}}
    BY <1>2, <1>3 DEF TypeOK
  <2>2. replies' = [replies EXCEPT ![u] = replies'[u]]
    BY <1>2, <1>3 DEF TypeOK
  <2>3. replies' = told => replies'[u] = replies[u] \cup {handler[h].text}
    BY <1>2 DEF TypeOK
  <2>4. replies[u] \subseteq {row[u].text} /\ replies[u] \subseteq Text
    BY <1>2 DEF RowAt, TypeOK
  <2> HIDE DEF told
  <2> QED
    BY <1>4, <2>1, <2>2, <2>3, <2>4
<1> HIDE DEF told
<1>6. run' \in [Run -> RunState] /\ \A q \in Run : RunAt(q)'
  BY <1>2, <1>3 DEF Inv, TypeOK, RunAt
<1>7. /\ row' = [row EXCEPT ![u] = row'[u]] /\ row'[u] \in Row
      /\ row'[u].status = "pending_send" /\ row'[u].text = row[u].text
  <2>1. row'[u] \in {row[u], Released(row[u])} /\ row' = [row EXCEPT ![u] = row'[u]]
    BY <1>2, <1>3 DEF TypeOK
  <2> QED
    BY <1>2, <1>4, <2>1, RowTypes
<1>8. RowAt(u)'
  <2>1. u \in seen \/ telegram[u] = "acked" => Settled(u)
    BY <1>2 DEF RowAt
  <2>2. Settled(u) => Settled(u)'
    BY <1>3, <1>5 DEF Settled
  <2> QED
    BY <1>2, <1>3, <1>4, <1>5, <1>7, <2>1, <2>2 DEF RowAt
<1>9. /\ handler' = [handler EXCEPT ![h] = handler'[h]] /\ handler'[h] \in HandlerState
      /\ handler'[h].update = u /\ HandlerAt(h)'
  <2>1. CASE Respond(h, FALSE)
    BY <1>2, <1>3, <2>1, RespondFacts
  <2>2. CASE Goto(h, "finish") /\ row' = row /\ (replies' = told \/ kind[u] = "send")
    <3>1. /\ handler' = [handler EXCEPT ![h] = handler'[h]] /\ handler'[h] \in HandlerState
          /\ handler'[h].pc = "finish" /\ handler'[h].update = u
          /\ handler'[h].text = handler[h].text
      BY <1>2, <2>2 DEF TypeOK, HandlerState, Goto
    <3>2. Settled(u)'
      BY <1>3, <1>5, <2>2 DEF Settled
    <3>3. row'[u].lockIn > 0
      BY <1>1, <1>2, <2>2 DEF HandlerAt
    <3> QED
      BY <1>2, <1>3, <1>4, <1>7, <3>1, <3>2, <3>3 DEF HandlerAt, Busy
  <2> QED
    BY <1>3, <2>1, <2>2
<1> QED
  BY <1>2, <1>3, <1>5, <1>6, <1>7, <1>8, <1>9, WorkStep

\* mark_completed.
LEMMA FinishInv ==
    ASSUME Inv, NEW h \in Handler, Finish(h)
    PROVE  Inv'
<1>1. Busy(h) /\ handler[h].pc = "finish"
  BY DEF Finish, At, Busy
<1>2. PICK u \in Update : /\ u = handler[h].update /\ telegram[u] # "unsent"
                          /\ HandlerAt(h) /\ RowAt(u) /\ Free(h, u)
                          /\ TypeOK /\ row[u] \in Row /\ handler[h] \in HandlerState
  BY <1>1, AtWork
<1>3. /\ UNCHANGED <<telegram, kind, run, cache, sent, replies, quiet>>
      /\ (NoFault \/ Fault) /\ Respond(h, TRUE)
      /\ seen' \in {seen, seen \cup {u}}
      /\ row' = row \/ row' = [row EXCEPT ![u] = Completed(@)]
  BY <1>2 DEF Finish, Messages, Agent
<1>4. Settled(u) /\ Settled(u)'
  BY <1>1, <1>2, <1>3 DEF HandlerAt, Settled
<1>5. /\ row' = [row EXCEPT ![u] = row'[u]] /\ row'[u] \in {row[u], Completed(row[u])}
  BY <1>2, <1>3 DEF TypeOK
<1>6. row'[u] \in Row /\ RowAt(u)'
  <2>1. row[u].status = "pending_send"
    BY <1>1, <1>2 DEF HandlerAt
  <2> QED
    BY <1>2, <1>3, <1>4, <1>5, <2>1, RowTypes DEF RowAt
<1>7. /\ handler' = [handler EXCEPT ![h] = handler'[h]] /\ handler'[h] \in HandlerState
      /\ handler'[h].update = u /\ HandlerAt(h)'
  BY <1>2, <1>3, <1>4, RespondFacts
<1>8. /\ run' \in [Run -> RunState] /\ \A q \in Run : RunAt(q)'
      /\ replies' = [replies EXCEPT ![u] = replies'[u]] /\ replies'[u] \in SUBSET Text
      /\ replies[u] \subseteq replies'[u]
  BY <1>2, <1>3 DEF Inv, TypeOK, RunAt
<1> QED
  BY <1>2, <1>3, <1>5, <1>6, <1>7, <1>8, WorkStep

\* agent-api works by itself: nothing it does touches a row.
LEMMA RunInv ==
    ASSUME Inv, NEW r \in Run, Complete(r) \/ RunFails(r)
    PROVE  Inv'
<1>1. /\ TypeOK /\ RunAt(r) /\ run[r] \in RunState
      /\ UNCHANGED <<telegram, kind, row, seen, handler, replies, quiet>>
      /\ NoFault \/ Fault \/ faults' = faults
  BY DEF Inv, Complete, Load, Work, Store, RunFails, Messages, TypeOK
<1>2. faults' \in 0..MaxFaults
  BY <1>1, FaultType DEF TypeOK, NoFault
<1>3. run[r].pc # "idle" /\ run[r].update \in Update
  BY <1>1 DEF RunAt, Complete, Load, Work, Store, RunFails
<1>4. sent' \in [Update -> Nat] /\ cache' \in [Update -> Text \cup {None}]
  <2>1. CASE Work(r)
    BY <1>1, <1>3, <2>1 DEF Work, TypeOK
  <2>2. CASE Store(r)
    BY <1>1, <1>3, <2>2 DEF Store, TypeOK, RunAt, Kept, RunState
  <2> QED
    BY <1>1, <2>1, <2>2 DEF Complete, Load, RunFails, TypeOK
<1>5. /\ run' = [run EXCEPT ![r] = run'[r]] /\ run'[r] \in RunState
      /\ run'[r].update = run[r].update
      /\ run'[r].pc \in {"store", "answered"} => run'[r].text \in Text
  <2>1. CASE Load(r)
    <3>1. cache[run[r].update] \in Text \cup {None}
      BY <1>1, <1>3 DEF TypeOK
    <3>2. CASE cache[run[r].update] = None
      BY <1>1, <2>1, <3>1, <3>2 DEF Load, Cached, TypeOK, RunState
    <3>3. CASE cache[run[r].update] # None
      BY <1>1, <2>1, <3>1, <3>3 DEF Load, Cached, TypeOK, RunState
    <3> QED
      BY <3>2, <3>3
  <2>2. CASE Work(r)
    BY <1>1, <2>2 DEF Work, TypeOK, RunState, Text
  <2>3. CASE Store(r)
    BY <1>1, <2>3 DEF Store, TypeOK, RunState, RunAt
  <2>4. CASE RunFails(r)
    BY <1>1, <2>4 DEF RunFails, TypeOK, RunState
  <2> QED
    BY <2>1, <2>2, <2>3, <2>4 DEF Complete
<1>6. run' \in [Run -> RunState] /\ \A q \in Run : RunAt(q)'
  BY <1>1, <1>3, <1>5 DEF Inv, RunAt, TypeOK
<1>7. TypeOK'
  BY <1>1, <1>2, <1>4, <1>6 DEF TypeOK
<1>8. Grows
  BY <1>1 DEF Grows
<1>9. \A h \in Handler : HandlerAt(h)'
  BY <1>1, <1>8, HandlerStays DEF Inv
<1>10. \A u \in Update : RowAt(u)'
  BY <1>1, <1>8, RowStays DEF Inv
<1> QED
  BY <1>1, <1>6, <1>7, <1>9, <1>10 DEF Inv, OneHandlerPerUpdate, Busy

\* telegram-ingress restarts: nobody holds anything, and what was open may be
\* forgotten.
LEMMA CrashInv ==
    ASSUME Inv, Crash
    PROVE  Inv'
<1>1. /\ TypeOK
      /\ NoFault \/ Fault
      /\ UNCHANGED <<kind, row, run, cache, sent, replies, quiet>>
      /\ handler' = [h \in Handler |-> Idle] /\ seen' = {}
      /\ telegram' = [u \in Update |-> IF Webhook /\ telegram[u] = "open" THEN "dropped"
                                       ELSE telegram[u]]
  BY DEF Inv, Crash, Agent
<1>2. Idle \in HandlerState /\ Idle.pc = "idle"
  BY DEF Idle, HandlerState
<1>3. TypeOK'
  <2>1. ASSUME NEW u \in Update
        PROVE  (IF Webhook /\ telegram[u] = "open" THEN "dropped" ELSE telegram[u])
                 \in {"unsent", "open", "acked", "dropped"}
    <3>1. telegram[u] \in {"unsent", "open", "acked", "dropped"}
      BY <1>1 DEF TypeOK
    <3>2. CASE Webhook /\ telegram[u] = "open"
      BY <3>2
    <3>3. CASE ~(Webhook /\ telegram[u] = "open")
      BY <3>1, <3>3
    <3> QED
      BY <3>2, <3>3
  <2>2. telegram' \in [Update -> {"unsent", "open", "acked", "dropped"}]
    BY <1>1, <2>1
  <2>3. handler' \in [Handler -> HandlerState] /\ seen' \subseteq Update
    BY <1>1, <1>2
  <2>4. faults' \in 0..MaxFaults
    BY <1>1, FaultType
  <2> QED
    BY <1>1, <2>2, <2>3, <2>4 DEF TypeOK
<1>4. \A u \in Update : RowAt(u)'
  BY <1>1 DEF Inv, RowAt, Settled
<1> QED
  BY <1>1, <1>2, <1>3, <1>4 DEF Inv, HandlerAt, OneHandlerPerUpdate, Busy, RunAt

LEMMA EvictInv ==
    ASSUME Inv, NEW u \in Update, Evict(u)
    PROVE  Inv'
<1>1. /\ TypeOK /\ seen' = seen \ {u}
      /\ UNCHANGED <<telegram, kind, row, handler, run, cache, sent, replies, quiet, faults>>
  BY DEF Inv, Evict, Messages, Agent
<1>2. TypeOK' /\ Grows
  BY <1>1 DEF TypeOK, Grows
<1>3. \A h \in Handler : HandlerAt(h)'
  BY <1>1, <1>2, HandlerStays DEF Inv
<1>4. \A v \in Update : RowAt(v)'
  BY <1>1, <1>2, RowStays DEF Inv
<1> QED
  BY <1>1, <1>2, <1>3, <1>4 DEF Inv, OneHandlerPerUpdate, Busy, RunAt

\* Time does not end the claim of a handler at work.
LEMMA TickInv ==
    ASSUME Inv, Tick
    PROVE  Inv'
<1>1. /\ TypeOK
      /\ UNCHANGED <<telegram, kind, seen, handler, run, cache, sent, replies, quiet, faults>>
      /\ \A h \in Handler : Busy(h) => row[handler[h].update].lockIn # 1
      /\ row' = [u \in Update |-> [row[u] EXCEPT !.lockIn = Sooner(@)]]
  BY DEF Inv, Tick, Messages, Agent
<1>2. /\ Sooner(0) = 0
      /\ \A n \in Nat : Sooner(n) \in Nat /\ (n > 0 /\ n # 1 => Sooner(n) > 0)
  BY DEF Sooner
<1>3. ASSUME NEW u \in Update
      PROVE  /\ row'[u] \in Row /\ row[u].lockIn \in Nat
             /\ row'[u].status = row[u].status /\ row'[u].text = row[u].text
             /\ row'[u].lockIn = Sooner(row[u].lockIn)
  <2>1. row[u] \in Row /\ row'[u] = [row[u] EXCEPT !.lockIn = Sooner(@)]
    BY <1>1 DEF TypeOK
  <2> QED
    BY <1>2, <2>1 DEF Row
<1>4. TypeOK'
  BY <1>1, <1>3 DEF TypeOK
<1>5. ASSUME NEW h \in Handler
      PROVE  HandlerAt(h)'
  <2>1. HandlerAt(h)
    BY DEF Inv
  <2>2. CASE handler[h].pc = "idle"
    BY <1>1, <2>2 DEF HandlerAt, Busy
  <2>3. CASE handler[h].pc # "idle"
    <3>1. PICK u \in Update : u = handler[h].update
      BY <2>1, <2>3 DEF HandlerAt
    <3>2. Busy(h) => row'[u].lockIn > 0
      BY <1>1, <1>2, <1>3, <2>1, <3>1 DEF HandlerAt
    <3>3. Settled(u)' <=> Settled(u)
      BY <1>1 DEF Settled
    <3> QED
      BY <1>1, <1>3, <2>1, <3>1, <3>2, <3>3 DEF HandlerAt, Busy
  <2> QED
    BY <2>2, <2>3
<1>6. \A u \in Update : RowAt(u)'
  BY <1>1, <1>2, <1>3 DEF Inv, RowAt, Settled
<1> QED
  BY <1>1, <1>4, <1>5, <1>6 DEF Inv, OneHandlerPerUpdate, Busy, RunAt

LEMMA NextInv ==
    ASSUME Inv, [Next]_vars
    PROVE  Inv'
<1>1. ASSUME NEW h \in Handler, Handle(h)
      PROVE  Inv'
  BY <1>1, AskInv, HearInv, AbandonInv, StageInv, ReplyInv, FinishInv, AnswerInv DEF Handle
<1>2. CASE Next
  BY <1>1, <1>2, PostInv, ReceiveInv, RunInv, CrashInv, EvictInv, TickInv DEF Next
<1>3. CASE UNCHANGED vars
  BY <1>3 DEF vars, Inv, TypeOK, OneHandlerPerUpdate, HandlerAt, RowAt, RunAt, Busy, Settled
<1> QED
  BY <1>2, <1>3

-----------------------------------------------------------------------------
(* Theorems. *)

\* The invariant holds in every state of every behaviour, polling or not.
THEOREM Invariance == Spec => []Inv
BY InitInv, NextInv, PTL DEF Spec

\* Every variable keeps its type.
THEOREM TypeCorrect == Spec => []TypeOK
BY Invariance, PTL DEF Inv

\* Two deliveries of one update are never worked on at the same time.
THEOREM OneHandler == Spec => []OneHandlerPerUpdate
BY Invariance, PTL DEF Inv

\* A user never reads two different answers to one message.
THEOREM OneReply == Spec => []OneReplyText
<1>1. Inv => OneReplyText
  <2>1. ASSUME Inv, NEW u \in Update
        PROVE  Cardinality(replies[u]) <= 1
    <3>1. replies[u] = {} \/ replies[u] = {row[u].text}
      BY <2>1 DEF Inv, RowAt
    <3>2. CASE replies[u] = {}
      <4>1. Cardinality({}) = 0
        BY FS_EmptySet
      <4> QED
        BY <3>2, <4>1
    <3>3. CASE replies[u] = {row[u].text}
      <4>1. Cardinality({row[u].text}) = 1
        BY FS_Singleton
      <4> QED
        BY <3>3, <4>1
    <3> QED
      BY <3>1, <3>2, <3>3
  <2> QED
    BY <2>1 DEF OneReplyText
<1> QED
  BY <1>1, Invariance, PTL

\* What Telegram forgets has its reply, or was ignored on purpose.
THEOREM AckedAnswered == Spec => []AckedMeansAnswered
<1>1. Inv => AckedMeansAnswered
  BY DEF Inv, RowAt, Settled, AckedMeansAnswered
<1> QED
  BY <1>1, Invariance, PTL

-----------------------------------------------------------------------------
(* Action properties. *)

\* A completed update is over: no handler works on it and its row stays.
THEOREM Over == Spec => CompletedIsOver
<1>1. Inv /\ [Next]_vars =>
        [\A u \in Update : row[u].status = "completed" =>
           /\ row'[u] = row[u]
           /\ \A h \in Handler : handler[h].update = u => ~Busy(h)]_vars
  <2>1. ASSUME Inv, [Next]_vars, NEW u \in Update, row[u].status = "completed"
        PROVE  row'[u] = row[u] /\ \A h \in Handler : handler[h].update = u => ~Busy(h)
    <3>1. \A h \in Handler : handler[h].update = u => ~Busy(h)
      BY <2>1 DEF Inv, HandlerAt, Busy, TypeOK, HandlerState
    <3>2. TypeOK /\ row[u].lockIn = 0 /\ row[u] \in Row
      BY <2>1 DEF Inv, RowAt, TypeOK
    <3>3. ASSUME NEW h \in Handler, NEW v \in Update, Receive(h, v)
          PROVE  row'[u] = row[u]
      <4>1. row' = row \/ \E r : row' = [row EXCEPT ![v] = r]
        BY <3>3 DEF Receive, Route, Ignore
      <4>2. row' = row \/ ~Duplicate(row[v])
        BY <3>3 DEF Receive
      <4> QED
        BY <2>1, <3>2, <4>1, <4>2 DEF TypeOK, Duplicate
    <3>4. ASSUME NEW h \in Handler, Handle(h)
          PROVE  row'[u] = row[u]
      <4>1. row' = row \/ (Busy(h) /\ \E r : row' = [row EXCEPT ![handler[h].update] = r])
        BY <3>4 DEF Handle, Ask, Hear, Abandon, Stage, Reply, Finish, Answer, At, Busy
      <4> QED
        BY <3>1, <3>2, <4>1 DEF TypeOK
    <3>5. ASSUME Tick
          PROVE  row'[u] = row[u]
      BY <3>2, <3>5 DEF Tick, Sooner, Row
    <3>6. ASSUME NEW r \in Run, Complete(r) \/ RunFails(r)
          PROVE  row'[u] = row[u]
      BY <3>6 DEF Complete, Load, Work, Store, RunFails
    <3>7. ASSUME Next
          PROVE  row'[u] = row[u]
      BY <3>3, <3>4, <3>5, <3>6, <3>7 DEF Next, Post, Evict, Crash
    <3> QED
      BY <2>1, <3>1, <3>7 DEF vars
  <2> QED
    BY <2>1
<1> QED
  BY <1>1, Invariance, PTL DEF Spec, CompletedIsOver

\* Once an answer is cached, only runs that were past the lookup can send.
THEOREM CacheHolds == Spec => CachedIsNotSentAgain
<1>1. Inv /\ [Next]_vars =>
        [\A u \in Update :
           /\ cache[u] # None
           /\ \A r \in Run : run[r].update = u => run[r].pc # "work"
           => \A r \in Run : run'[r].update = u => run'[r].pc # "work"]_vars
  <2>1. ASSUME Inv, [Next]_vars, NEW u \in Update, NEW r \in Run, cache[u] # None,
               \A q \in Run : run[q].update = u => run[q].pc # "work", run'[r].update = u
        PROVE  run'[r].pc # "work"
    <3>1. TypeOK
      BY <2>1 DEF Inv
    <3>2. ASSUME NEW q \in Run, Complete(q) \/ RunFails(q)
          PROVE  run'[r].pc # "work"
      <4>1. CASE Load(q)
        BY <2>1, <3>1, <4>1 DEF Load, Cached, TypeOK, RunState
      <4>2. CASE Work(q) \/ Store(q) \/ RunFails(q)
        BY <2>1, <3>1, <4>2 DEF Work, Store, RunFails, TypeOK, RunState
      <4> QED
        BY <3>2, <4>1, <4>2 DEF Complete
    <3>3. ASSUME NEW h \in Handler, Handle(h)
          PROVE  run'[r].pc # "work"
      <4>1. ASSUME NEW q \in Run, Ask(h, q)
            PROVE  run'[r].pc # "work"
        BY <2>1, <3>1, <4>1 DEF Ask, IdleRun, TypeOK
      <4>2. CASE run' = run
        BY <2>1, <4>2
      <4> QED
        BY <3>3, <4>1, <4>2 DEF Handle, Hear, Abandon, Stage, Reply, Finish, Answer, Agent
    <3>4. ASSUME run' = run
          PROVE  run'[r].pc # "work"
      BY <2>1, <3>4
    <3>5. ASSUME Next
          PROVE  run'[r].pc # "work"
      BY <3>2, <3>3, <3>4, <3>5 DEF Next, Post, Receive, Evict, Crash, Tick, Agent
    <3> QED
      BY <2>1, <3>4, <3>5 DEF vars
  <2> QED
    BY <2>1
<1> QED
  BY <1>1, Invariance, PTL DEF Spec, CachedIsNotSentAgain
=============================================================================
