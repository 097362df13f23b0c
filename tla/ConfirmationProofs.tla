-------------------------- MODULE ConfirmationProofs --------------------------
(***************************************************************************)
(* Proofs about Confirmation for any set of requests, any sources and any  *)
(* timeout.  The argument is the inductive invariant Inv: a request names  *)
(* its row until it is done (Rows), a confirming request repeats what its  *)
(* row says (Readers), and the row in "executing" belongs to one request   *)
(* (Holders), which is the only one that can send for it (Sent).           *)
(***************************************************************************)
EXTENDS Confirmation, TLAPS

\* The request that took a confirmation and is executing or settling it.
Holds(r, c) == req[r].pc \in {"execute", "settle"} /\ req[r].pending = c

\* The pcs at which a request acts on the row it has read.
Acting == {"expire", "cancel", "interrupt", "giveup", "clarify", "confirm",
           "execute", "settle"}

Used == {"executing", "executed", "failed"}

\* A request creates its row in its last step.
Rows ==
    \A r \in Request : req[r].pc # "done" => conf[r].status = "absent"

\* A row that has been read exists and is not the reader's own.
Readers ==
    \A r \in Request :
        /\ req[r].pc = "idle" => req[r].pending = None
        /\ req[r].pc \in Acting => req[r].pending \in Request
        /\ req[r].pending # None => /\ req[r].pending # r
                                    /\ conf[req[r].pending].status # "absent"
        /\ req[r].pc \in {"confirm", "execute", "settle"}
             => /\ req[r].words = "confirm"
                /\ req[r].source = conf[req[r].pending].source

\* A request that executes has the row to itself.
Holders ==
    \A r \in Request :
        /\ req[r].pc \in {"execute", "settle"} => conf[req[r].pending].status = "executing"
        /\ req[r].pc = "execute" => sends[req[r].pending] = 0
        /\ \A q \in Request, c \in Request : Holds(r, c) /\ Holds(q, c) => r = q

\* Messages have gone out only for rows that have been taken.
Sent ==
    \A c \in Request : sends[c] > 0 => conf[c].status \in Used

Inv ==
    /\ TypeOK
    /\ Rows
    /\ Readers
    /\ Holders
    /\ Sent
    /\ SentAtMostOnce
    /\ SentOnlyIfConfirmed

-----------------------------------------------------------------------------
(* The repository's statements keep the rows well typed and existing. *)

\* Every status an operation asks Resolve for is a status of a row.
LEMMA ResolveType ==
    ASSUME TypeOK, NEW c \in Request, NEW from \in {"pending", "executing"},
           NEW to \in {"executing"} \cup Resolved
    PROVE  /\ Resolve(c, from, to) \in [Request -> Confirmation]
           /\ \A d \in Request :
                /\ Resolve(c, from, to)[d].source = conf[d].source
                /\ Resolve(c, from, to)[d].status =
                     IF d = c /\ conf[d].status = from THEN to ELSE conf[d].status
BY DEF TypeOK, Resolve, Confirmation, Resolved

\* A new row supersedes the pending one and leaves the others alone.
LEMMA ReplacedType ==
    ASSUME TypeOK, NEW r \in Request,
           NEW source \in {"agent_api", "telegram", "telegram_command"}
    PROVE  /\ Replaced(r, source) \in [Request -> Confirmation]
           /\ Replaced(r, source)[r].status = "pending"
           /\ \A d \in Request \ {r} :
                /\ Replaced(r, source)[d].source = conf[d].source
                /\ Replaced(r, source)[d].status =
                     IF conf[d].status = "pending" THEN "superseded" ELSE conf[d].status
BY ConfirmationConstants DEF TypeOK, Replaced, Confirmation, Resolved, ConfirmationConstants

\* A request that goes on or answers stays well typed.
LEMMA GotoType ==
    ASSUME TypeOK, NEW r \in Request, NEW pc \in Step, Goto(r, pc)
    PROVE  req' \in [Request -> RequestState]
BY DEF TypeOK, Goto, RequestState

LEMMA AnswerType ==
    ASSUME TypeOK, NEW r \in Request, NEW told \in Told, Answer(r, told)
    PROVE  req' \in [Request -> RequestState]
<1>1. [req[r] EXCEPT !.pc = "done", !.outcome = None, !.told = told] \in RequestState
  BY DEF TypeOK, RequestState, Step
<1> QED
  BY <1>1 DEF TypeOK, Answer

\* A verdict is acted on, and only the words of the source that asked confirm.
LEMMA VerdictType ==
    ASSUME NEW p \in Confirmation, NEW words \in Words, NEW source
    PROVE  /\ Verdict(p, words, source)
                 \in {"expire", "cancel", "reject", "confirm", "clarify", "giveup", "interrupt"}
           /\ Verdict(p, words, source) = "confirm"
                => words = "confirm" /\ source = p.source
<1>1. CASE words = "cancel"
  BY <1>1 DEF Verdict
<1>2. CASE words = "confirm" /\ source # p.source
  BY <1>2 DEF Verdict
<1>3. CASE words = "confirm" /\ source = p.source
  BY <1>3 DEF Verdict
<1>4. CASE words = "unclear"
  BY <1>4 DEF Verdict
<1>5. CASE words = "other"
  BY <1>5 DEF Verdict
<1> QED
  BY <1>1, <1>2, <1>3, <1>4, <1>5 DEF Words

-----------------------------------------------------------------------------
(* The invariant is inductive. *)

LEMMA InitInv == Init => Inv
BY ConfirmationConstants
   DEF Init, Inv, TypeOK, Rows, Readers, Holders, Sent, SentAtMostOnce,
       SentOnlyIfConfirmed, Holds, NoConfirmation, Idle, Confirmation, RequestState,
       Words, Step, Acting, Used, Resolved, ConfirmationConstants

LEMMA NextType ==
    ASSUME TypeOK, Readers, Next
    PROVE  TypeOK'
<1>1. ASSUME NEW r \in Request, NEW words \in Words, NEW source \in Source,
             NEW looks \in BOOLEAN,
             Lookup(r, words, source, looks)
      PROVE  TypeOK'
  <2>1. source \in {"agent_api", "telegram", "telegram_command"}
    BY ConfirmationConstants DEF ConfirmationConstants
  <2>2. CASE req' = [req EXCEPT ![r].pc = "plan", ![r].source = source]
    BY <1>1, <2>1, <2>2 DEF Lookup, TypeOK, RequestState, Step
  <2>3. ASSUME NEW c \in Active,
               LET verdict == Verdict(conf[c], words, source)
               IN  req' = [req EXCEPT ![r] =
                      [pc      |-> IF verdict = "reject" THEN "done" ELSE verdict,
                       words   |-> words,
                       source  |-> source,
                       pending |-> c,
                       outcome |-> None,
                       told    |-> IF verdict = "reject" THEN "rejected" ELSE None]]
        PROVE  TypeOK'
    <3>1. c \in Request /\ conf[c] \in Confirmation
      BY DEF Active, TypeOK
    <3> QED
      BY <1>1, <2>1, <2>3, <3>1, VerdictType
         DEF Lookup, TypeOK, RequestState, Step, Told
  <2> QED
    BY <1>1, <2>2, <2>3 DEF Lookup
<1>2. ASSUME NEW r \in Request, Expire(r)
      PROVE  TypeOK'
  <2>1. conf' \in [Request -> Confirmation]
    BY <1>2, ResolveType DEF Expire, At, Readers, Acting, Resolved
  <2>2. req' \in [Request -> RequestState]
    BY <1>2, GotoType, AnswerType DEF Expire, Step, Told
  <2> QED
    BY <1>2, <2>1, <2>2 DEF Expire, TypeOK
<1>3. ASSUME NEW r \in Request, Cancel(r)
      PROVE  TypeOK'
  <2>1. conf' \in [Request -> Confirmation]
    BY <1>3, ResolveType DEF Cancel, Readers, Acting, Resolved
  <2> QED
    BY <1>3, <2>1, AnswerType DEF Cancel, TypeOK, Told
<1>4. ASSUME NEW r \in Request, Interrupt(r)
      PROVE  TypeOK'
  <2>1. conf' \in [Request -> Confirmation]
    BY <1>4, ResolveType DEF Interrupt, At, Readers, Acting, Resolved
  <2> QED
    BY <1>4, <2>1, GotoType DEF Interrupt, TypeOK, Step
<1>5. ASSUME NEW r \in Request, Clarify(r)
      PROVE  TypeOK'
  <2>1. conf' \in [Request -> Confirmation]
    BY <1>5 DEF Clarify, TypeOK, Confirmation, At, Readers, Acting
  <2> QED
    BY <1>5, <2>1, AnswerType DEF Clarify, TypeOK, Told
<1>6. ASSUME NEW r \in Request, Confirm(r)
      PROVE  TypeOK'
  <2>1. conf' \in [Request -> Confirmation]
    BY <1>6, ResolveType DEF Confirm, At, Readers, Acting
  <2>2. req' \in [Request -> RequestState]
    BY <1>6, GotoType DEF Confirm, Step
  <2> QED
    BY <1>6, <2>1, <2>2 DEF Confirm, TypeOK
<1>7. ASSUME NEW r \in Request, Execute(r)
      PROVE  TypeOK'
  <2>1. req[r].pending \in Request
    BY <1>7 DEF Execute, At, Readers, Acting
  <2>2. sends' \in [Request -> Nat]
    BY <1>7, <2>1 DEF Execute, TypeOK
  <2>3. req' \in [Request -> RequestState]
    BY <1>7 DEF Execute, TypeOK, RequestState, Step
  <2> QED
    BY <1>7, <2>2, <2>3 DEF Execute, TypeOK
<1>8. ASSUME NEW r \in Request, Settle(r)
      PROVE  TypeOK'
  <2>1. conf' \in [Request -> Confirmation]
    BY <1>8, ResolveType DEF Settle, At, Readers, Acting, Resolved
  <2>2. req' \in [Request -> RequestState]
    BY <1>8, AnswerType DEF Settle, Told
  <2> QED
    BY <1>8, <2>1, <2>2 DEF Settle, TypeOK
<1>9. ASSUME NEW r \in Request, Plan(r) \/ Fail(r)
      PROVE  TypeOK'
  BY <1>9, GotoType, AnswerType DEF Plan, Fail, TypeOK, Step, Told
<1>10. ASSUME NEW r \in Request, Create(r)
       PROVE  TypeOK'
  <2>1. req[r].source \in {"agent_api", "telegram", "telegram_command"}
    BY DEF TypeOK, RequestState
  <2>2. conf' \in [Request -> Confirmation]
    BY <1>10, <2>1, ReplacedType DEF Create
  <2> QED
    BY <1>10, <2>2, AnswerType DEF Create, TypeOK, Told
<1>11. ASSUME Tick
       PROVE  TypeOK'
  <2>1. \A n \in Nat : Sooner(n) \in Nat
    BY DEF Sooner
  <2>2. conf' \in [Request -> Confirmation]
    BY <1>11, <2>1 DEF Tick, TypeOK, Confirmation
  <2> QED
    BY <1>11, <2>2 DEF Tick, TypeOK
<1> QED
  BY <1>1, <1>2, <1>3, <1>4, <1>5, <1>6, <1>7, <1>8, <1>9, <1>10, <1>11 DEF Next

\* The steps of a request that has read the rows.
RequestStep(r) ==
    \/ Expire(r) \/ Cancel(r) \/ Interrupt(r) \/ Clarify(r) \/ Confirm(r)
    \/ Execute(r) \/ Settle(r) \/ Plan(r) \/ Create(r) \/ Fail(r)

\* A request moves alone, forward, and keeps what it said and what it read.
LEMMA StepMoves ==
    ASSUME TypeOK, NEW r \in Request, RequestStep(r)
    PROVE  /\ \A q \in Request \ {r} : req'[q] = req[q]
           /\ req[r].pc \notin {"idle", "done"} /\ req'[r].pc # "idle"
           /\ req'[r].pending = req[r].pending
           /\ req'[r].words = req[r].words
           /\ req'[r].source = req[r].source
           /\ req'[r].pc \in Acting => req[r].pc \in {"confirm", "execute"}
BY DEF TypeOK, RequestState, RequestStep, Expire, Cancel, Interrupt, Clarify, Confirm, Execute,
       Settle, Plan, Create, Fail, At, Goto, Answer, Acting

\* Rows keep their source class and never vanish; a new one is the request's own.
LEMMA StepRows ==
    ASSUME TypeOK, Rows, Readers, NEW r \in Request, RequestStep(r)
    PROVE  /\ \A c \in Request : conf[c].status # "absent" =>
                conf'[c].status # "absent" /\ conf'[c].source = conf[c].source
           /\ \A c \in Request : conf[c].status = "absent" /\ conf'[c].status # "absent"
                => c = r /\ req'[r].pc = "done"
<1>1. ASSUME NEW from \in {"pending", "executing"}, NEW to \in {"executing"} \cup Resolved,
             conf' = Resolve(req[r].pending, from, to), req[r].pending \in Request
      PROVE  \A c \in Request :
               /\ conf'[c].source = conf[c].source
               /\ conf'[c].status = "absent" <=> conf[c].status = "absent"
  <2>1. \A c \in Request :
          /\ Resolve(req[r].pending, from, to)[c].source = conf[c].source
          /\ Resolve(req[r].pending, from, to)[c].status =
               IF c = req[r].pending /\ conf[c].status = from THEN to ELSE conf[c].status
    BY <1>1, ResolveType
  <2>2. from # "absent" /\ to # "absent"
    BY DEF Resolved
  <2> QED
    BY <1>1, <2>1, <2>2
<1>2. CASE Expire(r) \/ Cancel(r) \/ Interrupt(r) \/ Confirm(r) \/ Settle(r)
  <2>1. req[r].pending \in Request
    BY <1>2 DEF Expire, Cancel, Interrupt, Confirm, Settle, At, Readers, Acting
  <2>2. PICK from \in {"pending", "executing"}, to \in {"executing"} \cup Resolved :
          conf' = Resolve(req[r].pending, from, to)
    BY <1>2 DEF Expire, Cancel, Interrupt, Confirm, Settle, Resolved
  <2>3. \A c \in Request :
          /\ conf'[c].source = conf[c].source
          /\ conf'[c].status = "absent" <=> conf[c].status = "absent"
    BY <1>1, <2>1, <2>2
  <2> QED
    BY <2>3
<1>3. CASE Clarify(r)
  BY <1>3 DEF Clarify, At, Confirmation, TypeOK
<1>4. CASE Execute(r) \/ Plan(r) \/ Fail(r)
  BY <1>4 DEF Execute, Plan, Fail
<1>5. CASE Create(r)
  <2>1. req[r].source \in {"agent_api", "telegram", "telegram_command"}
    BY DEF TypeOK, RequestState
  <2>2. conf[r].status = "absent" /\ req'[r].pc = "done"
    BY <1>5 DEF Create, At, Rows, Answer, TypeOK, RequestState
  <2>3. \A c \in Request \ {r} :
          /\ Replaced(r, req[r].source)[c].source = conf[c].source
          /\ Replaced(r, req[r].source)[c].status =
               IF conf[c].status = "pending" THEN "superseded" ELSE conf[c].status
    BY <2>1, ReplacedType
  <2> QED
    BY <1>5, <2>2, <2>3 DEF Create
<1> QED
  BY <1>2, <1>3, <1>4, <1>5 DEF RequestStep

LEMMA NextRows ==
    ASSUME TypeOK, Rows, Readers, Next
    PROVE  Rows'
<1>1. ASSUME NEW r \in Request, NEW words \in Words, NEW source \in Source,
             NEW looks \in BOOLEAN,
             Lookup(r, words, source, looks)
      PROVE  Rows'
  BY <1>1 DEF Lookup, At, Rows, TypeOK
<1>2. ASSUME NEW r \in Request, RequestStep(r)
      PROVE  Rows'
  BY <1>2, StepMoves, StepRows DEF Rows
<1>3. ASSUME Tick
      PROVE  Rows'
  BY <1>3 DEF Tick, Confirmation, Rows, TypeOK
<1> QED
  BY <1>1, <1>2, <1>3 DEF Next, RequestStep

LEMMA NextReaders ==
    ASSUME TypeOK, Rows, Readers, Next
    PROVE  Readers'
<1> USE DEF TypeOK
<1>1. ASSUME NEW r \in Request, NEW words \in Words, NEW source \in Source,
             NEW looks \in BOOLEAN,
             Lookup(r, words, source, looks)
      PROVE  Readers'
  <2>1. CASE req' = [req EXCEPT ![r].pc = "plan", ![r].source = source]
    BY <1>1, <2>1 DEF Lookup, At, RequestState, Acting, Readers
  <2>2. ASSUME NEW c \in Active,
               LET verdict == Verdict(conf[c], words, source)
               IN  req' = [req EXCEPT ![r] =
                      [pc      |-> IF verdict = "reject" THEN "done" ELSE verdict,
                       words   |-> words,
                       source  |-> source,
                       pending |-> c,
                       outcome |-> None,
                       told    |-> IF verdict = "reject" THEN "rejected" ELSE None]]
        PROVE  Readers'
    <3>1. c \in Request /\ conf[c].status = "pending" /\ c # r
      BY <1>1 DEF Active, Lookup, At, Rows
    <3>2. /\ req'[r].pending = c
          /\ req'[r].pc \notin {"idle", "execute", "settle"}
          /\ req'[r].pc = "confirm" => req'[r].words = "confirm" /\ req'[r].source = conf[c].source
      BY <2>2, <3>1, VerdictType
    <3>3. conf' = conf /\ \A q \in Request \ {r} : req'[q] = req[q]
      BY <1>1, <2>2 DEF Lookup
    <3> QED
      BY <3>1, <3>2, <3>3, ConfirmationConstants
         DEF ConfirmationConstants, Acting, Readers
  <2> QED
    BY <1>1, <2>1, <2>2 DEF Lookup, Active
<1>2. \A q \in Request :
        /\ req[q].pending \in Request \cup {None}
        /\ req[q].pc \in Acting => req[q].pending # None
  BY ConfirmationConstants DEF ConfirmationConstants, RequestState, Readers
<1>3. ASSUME NEW r \in Request, RequestStep(r)
      PROVE  Readers'
  BY <1>2, <1>3, StepMoves, StepRows DEF Readers, Acting
<1>4. ASSUME Tick
      PROVE  Readers'
  BY <1>2, <1>4 DEF Tick, Readers, Acting, Confirmation
<1> QED
  BY <1>1, <1>3, <1>4 DEF Next, RequestStep

\* A confirmation is taken by compare-and-set and executed by its taker, once.
LEMMA NextHolders ==
    ASSUME TypeOK, Rows, Readers, Holders, Sent, Next
    PROVE  Holders'
<1>1. ASSUME NEW r \in Request, NEW words \in Words, NEW source \in Source,
             NEW looks \in BOOLEAN,
             Lookup(r, words, source, looks)
      PROVE  Holders'
  <2>1. /\ req'[r].pc \notin {"execute", "settle"}
        /\ \A q \in Request \ {r} : req'[q] = req[q]
    BY <1>1, VerdictType DEF Lookup, Active, TypeOK, RequestState
  <2> QED
    BY <1>1, <2>1 DEF Lookup, Holders, Holds
<1>2. ASSUME NEW r \in Request, RequestStep(r), conf' = conf, sends' = sends,
             req'[r].pc \notin {"execute", "settle"}
      PROVE  Holders'
  BY <1>2, StepMoves DEF Holders, Holds
<1>3. ASSUME NEW r \in Request, Expire(r) \/ Cancel(r) \/ Interrupt(r) \/ Clarify(r)
      PROVE  Holders'
  <2>1. /\ req[r].pending \in Request
        /\ req'[r].pc \notin {"execute", "settle"}
        /\ sends' = sends
    BY <1>3 DEF Expire, Cancel, Interrupt, Clarify, At, Goto, Answer, Readers, Acting,
                TypeOK, RequestState
  <2>2. \A c \in Request : conf[c].status = "executing" => conf'[c].status = "executing"
    BY <1>3, <2>1 DEF Expire, Cancel, Interrupt, Clarify, Resolve, TypeOK, Confirmation
  <2>3. \A q \in Request \ {r} : req'[q] = req[q]
    BY <1>3, StepMoves DEF RequestStep
  <2> QED
    BY <2>1, <2>2, <2>3 DEF Holders, Holds, Readers, Acting
<1>4. ASSUME NEW r \in Request, Confirm(r)
      PROVE  Holders'
  <2> DEFINE c == req[r].pending
  <2>1. c \in Request /\ sends' = sends
    BY <1>4 DEF Confirm, At, Readers, Acting
  <2>2. CASE conf[c].status = "pending"
    <3>1. /\ sends[c] = 0
          /\ \A q \in Request : ~Holds(q, c)
      BY <2>1, <2>2 DEF Sent, Used, Holders, Holds, TypeOK
    <3>2. /\ conf'[c].status = "executing"
          /\ \A d \in Request \ {c} : conf'[d] = conf[d]
      BY <1>4, <2>1, <2>2 DEF Confirm, Resolve, TypeOK, Confirmation
    <3>3. /\ req'[r].pending = c
          /\ \A q \in Request \ {r} : req'[q] = req[q]
      BY <1>4, StepMoves DEF RequestStep
    <3>4. req[r].pc \notin {"execute", "settle"}
      BY <1>4 DEF Confirm, At
    <3> QED
      BY <2>1, <3>1, <3>2, <3>3, <3>4 DEF Holders, Holds, Readers, Acting
  <2>3. CASE conf[c].status # "pending"
    <3>1. conf' = conf /\ req'[r].pc = "plan"
      BY <1>4, <2>3 DEF Confirm, Resolve, Goto, TypeOK, RequestState
    <3> QED
      BY <1>2, <1>4, <2>1, <3>1 DEF RequestStep
  <2> QED
    BY <2>2, <2>3
<1>5. ASSUME NEW r \in Request, Execute(r)
      PROVE  Holders'
  <2>1. /\ req'[r].pc = "settle" /\ req[r].pc = "execute" /\ conf' = conf
        /\ req'[r].pending = req[r].pending
        /\ \A q \in Request \ {r} : req'[q] = req[q]
        /\ \A d \in Request \ {req[r].pending} : sends'[d] = sends[d]
    BY <1>5 DEF Execute, At, TypeOK, RequestState
  <2> QED
    BY <2>1 DEF Holders, Holds, Readers, Acting
<1>6. ASSUME NEW r \in Request, Settle(r)
      PROVE  Holders'
  <2>1. /\ req'[r].pc = "done" /\ req[r].pc = "settle" /\ sends' = sends
        /\ \A q \in Request \ {r} : req'[q] = req[q]
        /\ \A d \in Request \ {req[r].pending} : conf'[d] = conf[d]
    BY <1>6 DEF Settle, At, Answer, Resolve, TypeOK, RequestState
  <2> QED
    BY <2>1 DEF Holders, Holds, Readers, Acting
<1>7. ASSUME NEW r \in Request, Plan(r) \/ Fail(r)
      PROVE  Holders'
  <2>1. conf' = conf /\ sends' = sends /\ req'[r].pc \notin {"execute", "settle"}
    BY <1>7 DEF Plan, Fail, Goto, Answer, TypeOK, RequestState
  <2> QED
    BY <1>2, <1>7, <2>1 DEF RequestStep
<1>8. ASSUME NEW r \in Request, Create(r)
      PROVE  Holders'
  <2>1. /\ req'[r].pc = "done" /\ sends' = sends /\ conf[r].status = "absent"
        /\ \A q \in Request \ {r} : req'[q] = req[q]
    BY <1>8 DEF Create, At, Answer, Rows, TypeOK, RequestState
  <2>2. \A d \in Request : conf[d].status = "executing" => conf'[d].status = "executing"
    BY <1>8, <2>1 DEF Create, Replaced
  <2> QED
    BY <2>1, <2>2 DEF Holders, Holds, Readers, Acting
<1>9. ASSUME Tick
      PROVE  Holders'
  BY <1>9 DEF Tick, Holders, Holds, Readers, Acting, TypeOK, Confirmation
<1> QED
  BY <1>1, <1>3, <1>4, <1>5, <1>6, <1>7, <1>8, <1>9 DEF Next

\* Sending is a step of the request that holds the row.
LEMMA NextSent ==
    ASSUME TypeOK, Rows, Readers, Holders, Sent, SentAtMostOnce, Next
    PROVE  Sent' /\ SentAtMostOnce'
<1>1. ASSUME NEW r \in Request, Execute(r)
      PROVE  Sent' /\ SentAtMostOnce'
  <2> DEFINE c == req[r].pending
  <2>1. /\ c \in Request /\ sends[c] = 0 /\ conf[c].status = "executing" /\ conf' = conf
        /\ sends'[c] \in {0, 1}
        /\ \A d \in Request \ {c} : sends'[d] = sends[d]
    BY <1>1 DEF Execute, At, Readers, Acting, Holders, TypeOK
  <2> QED
    BY <2>1 DEF Sent, SentAtMostOnce, Used
<1>2. ASSUME sends' = sends,
             \A c \in Request : conf[c].status \in Used => conf'[c].status \in Used
      PROVE  Sent' /\ SentAtMostOnce'
  BY <1>2 DEF Sent, SentAtMostOnce
<1>3. ASSUME NEW r \in Request, NEW words \in Words, NEW source \in Source,
             NEW looks \in BOOLEAN,
             Lookup(r, words, source, looks)
      PROVE  Sent' /\ SentAtMostOnce'
  BY <1>2, <1>3 DEF Lookup
<1>4. ASSUME NEW r \in Request,
             Expire(r) \/ Cancel(r) \/ Interrupt(r) \/ Clarify(r) \/ Confirm(r) \/ Settle(r)
      PROVE  Sent' /\ SentAtMostOnce'
  <2>1. sends' = sends /\ req[r].pending \in Request
    BY <1>4 DEF Expire, Cancel, Interrupt, Clarify, Confirm, Settle, At, Readers, Acting
  <2>2. \A c \in Request : conf[c].status \in Used => conf'[c].status \in Used
    BY <1>4, <2>1 DEF Expire, Cancel, Interrupt, Clarify, Confirm, Settle, Resolve, Used,
                      TypeOK, Confirmation
  <2> QED
    BY <1>2, <2>1, <2>2
<1>5. ASSUME NEW r \in Request, Plan(r) \/ Fail(r)
      PROVE  Sent' /\ SentAtMostOnce'
  BY <1>2, <1>5 DEF Plan, Fail
<1>6. ASSUME NEW r \in Request, Create(r)
      PROVE  Sent' /\ SentAtMostOnce'
  <2>1. sends' = sends /\ conf[r].status = "absent"
    BY <1>6 DEF Create, At, Rows
  <2>2. \A c \in Request : conf[c].status \in Used => conf'[c].status \in Used
    BY <1>6, <2>1 DEF Create, Replaced, Used
  <2> QED
    BY <1>2, <2>1, <2>2
<1>7. ASSUME Tick
      PROVE  Sent' /\ SentAtMostOnce'
  <2>1. \A c \in Request : conf'[c].status = conf[c].status
    BY <1>7 DEF Tick, TypeOK, Confirmation
  <2> QED
    BY <1>2, <1>7, <2>1 DEF Tick
<1> QED
  BY <1>1, <1>3, <1>4, <1>5, <1>6, <1>7 DEF Next

\* The request that has sent keeps saying so, and so does the row.
LEMMA NextConfirmed ==
    ASSUME TypeOK, Rows, Readers, Sent, SentOnlyIfConfirmed, Next
    PROVE  SentOnlyIfConfirmed'
<1>1. \A c \in Request : sends[c] > 0 => conf[c].status # "absent"
  BY DEF Sent, Used
<1>2. \A r \in Request : req[r].pending # None => req[r].pc # "idle"
  BY DEF Readers
<1>3. ASSUME NEW r \in Request, NEW words \in Words, NEW source \in Source,
             NEW looks \in BOOLEAN,
             Lookup(r, words, source, looks)
      PROVE  SentOnlyIfConfirmed'
  <2>1. /\ conf' = conf /\ sends' = sends /\ req[r].pc = "idle"
        /\ \A q \in Request \ {r} : req'[q] = req[q]
    BY <1>3 DEF Lookup, At, TypeOK
  <2> QED
    BY <1>2, <2>1, ConfirmationConstants DEF SentOnlyIfConfirmed, ConfirmationConstants
<1>4. ASSUME NEW r \in Request, RequestStep(r), sends' = sends
      PROVE  SentOnlyIfConfirmed'
  <2>1. \A q \in Request : /\ req'[q].words = req[q].words
                           /\ req'[q].pending = req[q].pending
                           /\ req'[q].source = req[q].source
    BY <1>4, StepMoves
  <2>2. \A c \in Request : sends[c] > 0 => conf'[c].source = conf[c].source
    BY <1>1, <1>4, StepRows
  <2> QED
    BY <1>4, <2>1, <2>2 DEF SentOnlyIfConfirmed
<1>5. ASSUME NEW r \in Request, Execute(r)
      PROVE  SentOnlyIfConfirmed'
  <2> DEFINE c == req[r].pending
  <2>1. /\ c \in Request /\ c # r /\ req[r].words = "confirm" /\ req[r].source = conf[c].source
        /\ conf' = conf
        /\ \A d \in Request \ {c} : sends'[d] = sends[d]
    BY <1>5, ConfirmationConstants
       DEF Execute, At, Readers, Acting, TypeOK, ConfirmationConstants
  <2>2. \A q \in Request : /\ req'[q].words = req[q].words
                           /\ req'[q].pending = req[q].pending
                           /\ req'[q].source = req[q].source
    BY <1>5, StepMoves DEF RequestStep
  <2> QED
    BY <2>1, <2>2 DEF SentOnlyIfConfirmed
<1>6. ASSUME Tick
      PROVE  SentOnlyIfConfirmed'
  BY <1>6 DEF Tick, SentOnlyIfConfirmed, TypeOK, Confirmation
<1>7. ASSUME NEW r \in Request, RequestStep(r), ~Execute(r)
      PROVE  sends' = sends
  BY <1>7 DEF RequestStep, Expire, Cancel, Interrupt, Clarify, Confirm, Settle, Plan, Create,
              Fail
<1> QED
  BY <1>3, <1>4, <1>5, <1>6, <1>7 DEF Next, RequestStep

-----------------------------------------------------------------------------
(* Theorems. *)

\* The invariant holds in every state of every behaviour.
THEOREM Invariance == Spec => []Inv
<1>1. Inv /\ [Next]_vars => Inv'
  <2>1. CASE Next
    BY <2>1, NextType, NextRows, NextReaders, NextHolders, NextSent, NextConfirmed DEF Inv
  <2>2. CASE UNCHANGED vars
    BY <2>2 DEF vars, Inv, TypeOK, Rows, Readers, Holders, Holds, Sent, SentAtMostOnce,
                SentOnlyIfConfirmed
  <2> QED
    BY <2>1, <2>2
<1> QED
  BY InitInv, <1>1, PTL DEF Spec

\* Every variable keeps its type.
THEOREM TypeCorrect == Spec => []TypeOK
BY Invariance, PTL DEF Inv

\* However many requests of a conversation race, a confirmation sends at most
\* one message.
THEOREM AtMostOnce == Spec => []SentAtMostOnce
BY Invariance, PTL DEF Inv

\* A message goes out only after another request of the same source class has
\* confirmed exactly that row.
THEOREM OnlyIfConfirmed == Spec => []SentOnlyIfConfirmed
BY Invariance, PTL DEF Inv

\* A superseded, expired, cancelled or interrupted row has sent nothing.
THEOREM PutAside == Spec => []PutAsideNeverSent
<1>1. Inv => PutAsideNeverSent
  BY DEF Inv, Sent, Used, PutAsideNeverSent, TypeOK
<1> QED
  BY <1>1, Invariance, PTL

-----------------------------------------------------------------------------
(* Refinement: what the requests do to the rows is what SendToken allows.  *)

\* What TokenState makes of each status.
LEMMA TokenStates ==
    /\ TokenState("absent") = "none"
    /\ TokenState("pending") = "armed"
    /\ \A s \in Used : TokenState(s) = "used"
    /\ \A s \in Resolved \ Used : TokenState(s) = "void"
<1>1. TokenState("absent") = "none"
  BY DEF TokenState
<1>2. TokenState("pending") = "armed"
  BY DEF TokenState
<1>3. ASSUME NEW s \in Used
      PROVE  TokenState(s) = "used"
  BY DEF TokenState, Used
<1>4. ASSUME NEW s \in Resolved \ Used
      PROVE  TokenState(s) = "void"
  BY DEF TokenState, Used, Resolved
<1> QED
  BY <1>1, <1>2, <1>3, <1>4

\* A step that leaves every status and the number of sends alone is invisible.
LEMMA Invisible ==
    ASSUME sends' = sends, \A c \in Request : conf'[c].status = conf[c].status
    PROVE  UNCHANGED Tokens!tokenVars
<1>1. [c \in Request |-> TokenState(conf[c].status)]'
        = [c \in Request |-> TokenState(conf[c].status)]
  OBVIOUS
<1>2. [c \in Request |-> sends[c] > 0]' = [c \in Request |-> sends[c] > 0]
  OBVIOUS
<1> QED
  BY <1>1, <1>2 DEF Tokens!tokenVars

\* Compare-and-set from pending arms nothing: it uses or voids an armed token,
\* or leaves things as they are.
LEMMA ResolvePending ==
    ASSUME TypeOK, NEW c \in Request, NEW to \in {"executing"} \cup (Resolved \ Used),
           conf' = Resolve(c, "pending", to), sends' = sends
    PROVE  [Tokens!Next]_(Tokens!tokenVars)
<1>1. CASE conf[c].status # "pending"
  BY <1>1, Invisible DEF Resolve
<1>2. CASE conf[c].status = "pending"
  <2> DEFINE before == [d \in Request |-> TokenState(conf[d].status)]
             after  == [d \in Request |-> TokenState(conf'[d].status)]
  <2>1. /\ conf'[c].status = to
        /\ \A d \in Request \ {c} : conf'[d].status = conf[d].status
    BY <1>2 DEF Resolve, TypeOK, Confirmation
  <2>2. before[c] = "armed"
    BY <1>2, TokenStates
  <2>3. after = [before EXCEPT ![c] = TokenState(to)]
    BY <2>1
  <2>4. TokenState(to) \in {"used", "void"}
    BY TokenStates DEF Used
  <2>5. [d \in Request |-> sends[d] > 0]' = [d \in Request |-> sends[d] > 0]
    OBVIOUS
  <2>6. Tokens!Use(c) \/ Tokens!Void(c)
    BY <2>2, <2>3, <2>4, <2>5 DEF Tokens!Use, Tokens!Void
  <2> QED
    BY <2>6 DEF Tokens!Next
<1> QED
  BY <1>1, <1>2

\* Every step of the requests is a step of the tokens or invisible.
LEMMA NextTokens ==
    ASSUME Inv, Next
    PROVE  [Tokens!Next]_(Tokens!tokenVars)
<1> USE DEF Inv
<1>1. ASSUME NEW r \in Request, NEW words \in Words, NEW source \in Source,
             NEW looks \in BOOLEAN,
             Lookup(r, words, source, looks)
      PROVE  [Tokens!Next]_(Tokens!tokenVars)
  BY <1>1, Invisible DEF Lookup
<1>2. ASSUME NEW r \in Request, Expire(r) \/ Cancel(r) \/ Interrupt(r) \/ Confirm(r)
      PROVE  [Tokens!Next]_(Tokens!tokenVars)
  <2>1. req[r].pending \in Request /\ sends' = sends
    BY <1>2 DEF Expire, Cancel, Interrupt, Confirm, At, Readers, Acting
  <2>2. PICK to \in {"executing"} \cup (Resolved \ Used) :
          conf' = Resolve(req[r].pending, "pending", to)
    BY <1>2 DEF Expire, Cancel, Interrupt, Confirm, Resolved, Used
  <2> QED
    BY <2>1, <2>2, ResolvePending
<1>3. ASSUME NEW r \in Request, Clarify(r)
      PROVE  [Tokens!Next]_(Tokens!tokenVars)
  <2>1. \A c \in Request : conf'[c].status = conf[c].status
    BY <1>3 DEF Clarify, TypeOK, Confirmation
  <2> QED
    BY <1>3, <2>1, Invisible DEF Clarify
<1>4. ASSUME NEW r \in Request, Execute(r)
      PROVE  [Tokens!Next]_(Tokens!tokenVars)
  <2>1. PICK c \in Request : c = req[r].pending
    BY <1>4 DEF Execute, At, Readers, Acting
  <2>2. /\ sends[c] = 0 /\ conf[c].status = "executing" /\ conf' = conf
        /\ sends' = sends \/ sends' = [sends EXCEPT ![c] = @ + 1]
    BY <1>4, <2>1 DEF Execute, At, Holders
  <2>3. CASE sends' = sends
    BY <2>2, <2>3, Invisible
  <2>4. CASE sends' = [sends EXCEPT ![c] = @ + 1]
    <3>1. \A d \in Request : sends'[d] = IF d = c THEN 1 ELSE sends[d]
      BY <2>2, <2>4 DEF TypeOK
    <3>2. [d \in Request |-> sends'[d] > 0]
            = [[d \in Request |-> sends[d] > 0] EXCEPT ![c] = TRUE]
      <4>1. \A d \in Request \ {c} : (sends'[d] > 0) = (sends[d] > 0)
        BY <3>1
      <4>2. (sends'[c] > 0) = TRUE
        BY <3>1
      <4> QED
        BY <4>1, <4>2
    <3>3. ~[d \in Request |-> sends[d] > 0][c]
      <4>1. ~(sends[c] > 0)
        BY <2>2
      <4> QED
        BY <4>1
    <3>4. [d \in Request |-> TokenState(conf[d].status)][c] = "used"
      BY <2>2, TokenStates DEF Used
    <3>5. [d \in Request |-> TokenState(conf[d].status)]'
            = [d \in Request |-> TokenState(conf[d].status)]
      BY <2>2
    <3>6. Tokens!Send(c)
      BY <3>2, <3>3, <3>4, <3>5 DEF Tokens!Send
    <3> QED
      BY <3>6 DEF Tokens!Next
  <2> QED
    BY <2>2, <2>3, <2>4
<1>5. ASSUME NEW r \in Request, Settle(r)
      PROVE  [Tokens!Next]_(Tokens!tokenVars)
  <2> DEFINE c == req[r].pending
  <2>1. /\ c \in Request /\ conf[c].status = "executing" /\ sends' = sends
        /\ conf'[c].status \in Used
        /\ \A d \in Request \ {c} : conf'[d] = conf[d]
    BY <1>5 DEF Settle, At, Readers, Acting, Holders, Resolve, Used, TypeOK, Confirmation
  <2>2. \A d \in Request : TokenState(conf'[d].status) = TokenState(conf[d].status)
    BY <2>1, TokenStates DEF Used
  <2>3. [d \in Request |-> TokenState(conf[d].status)]'
          = [d \in Request |-> TokenState(conf[d].status)]
    BY <2>2
  <2> QED
    BY <2>1, <2>3 DEF Tokens!tokenVars
<1>6. ASSUME NEW r \in Request, Plan(r) \/ Fail(r)
      PROVE  [Tokens!Next]_(Tokens!tokenVars)
  BY <1>6, Invisible DEF Plan, Fail
<1>7. ASSUME NEW r \in Request, Create(r)
      PROVE  [Tokens!Next]_(Tokens!tokenVars)
  <2> DEFINE before == [d \in Request |-> TokenState(conf[d].status)]
  <2>1. conf[r].status = "absent" /\ sends' = sends /\ conf' = Replaced(r, req[r].source)
    BY <1>7 DEF Create, At, Rows
  <2>2. before[r] = "none"
    BY <2>1, TokenStates
  <2>3. ASSUME NEW d \in Request
        PROVE  TokenState(conf'[d].status) = IF d = r THEN "armed"
                                             ELSE IF before[d] = "armed" THEN "void"
                                             ELSE before[d]
    <3>1. conf[d].status \in {"absent", "pending"} \cup Used \cup (Resolved \ Used)
      BY DEF TypeOK, Confirmation, Used
    <3>2. before[d] = "armed" <=> conf[d].status = "pending"
      BY <3>1, TokenStates
    <3>3. conf'[d].status = IF d = r THEN "pending"
                            ELSE IF conf[d].status = "pending" THEN "superseded"
                            ELSE conf[d].status
      BY <2>1 DEF Replaced, TypeOK, Confirmation
    <3>4. TokenState("superseded") = "void"
      BY TokenStates DEF Resolved, Used
    <3> QED
      BY <3>2, <3>3, <3>4, TokenStates
  <2>4. [d \in Request |-> TokenState(conf[d].status)]'
          = [u \in Request |-> IF u = r THEN "armed"
                               ELSE IF before[u] = "armed" THEN "void"
                               ELSE before[u]]
    BY <2>3
  <2>5. Tokens!Arm(r)
    BY <2>1, <2>2, <2>4 DEF Tokens!Arm
  <2> QED
    BY <2>5 DEF Tokens!Next
<1>8. ASSUME Tick
      PROVE  [Tokens!Next]_(Tokens!tokenVars)
  <2>1. \A c \in Request : conf'[c].status = conf[c].status
    BY <1>8 DEF Tick, TypeOK, Confirmation
  <2> QED
    BY <1>8, <2>1, Invisible DEF Tick
<1> QED
  BY <1>1, <1>2, <1>3, <1>4, <1>5, <1>6, <1>7, <1>8 DEF Next

\* The confirmation rows implement single-use tokens, one armed at a time.
THEOREM Refinement == Spec => ImplementsTokens
<1>1. ASSUME Init
      PROVE  Tokens!Init
  <2>1. [c \in Request |-> TokenState(conf[c].status)] = [t \in Request |-> "none"]
    BY <1>1, TokenStates DEF Init, NoConfirmation
  <2>2. \A c \in Request : (sends[c] > 0) = FALSE
    BY <1>1 DEF Init
  <2>3. [c \in Request |-> sends[c] > 0] = [t \in Request |-> FALSE]
    BY <2>2
  <2> QED
    BY <2>1, <2>3 DEF Tokens!Init
<1>2. Inv /\ [Next]_vars => [Tokens!Next]_(Tokens!tokenVars)
  <2>1. CASE UNCHANGED vars
    BY <2>1, Invisible DEF vars
  <2> QED
    BY <2>1, NextTokens
<1> QED
  BY <1>1, <1>2, Invariance, PTL DEF Spec, ImplementsTokens, Tokens!Spec

=============================================================================
