----------------------------- MODULE Confirmation -----------------------------
(***************************************************************************)
(* agent-api's confirmation of a model-planned telegram-send within one    *)
(* conversation: services/chat.py (_maybe_handle_pending_confirmation,     *)
(* _create_pending_telegram_send_confirmation) over                        *)
(* persistence/pending_confirmation_repo.py.                               *)
(*                                                                         *)
(* Requests of the conversation run concurrently (one thread each) and a   *)
(* confirmation row is named by the request that created it.  Every        *)
(* repository transaction and the tool call are steps of their own, so a   *)
(* request acts on a row it has read earlier.  A row's expiresIn counts    *)
(* the ticks until its expires_at has passed.                              *)
(***************************************************************************)
EXTENDS Naturals, FiniteSets

CONSTANTS
    Request,  \* POST /v1/chat/completions requests of one conversation
    Source,   \* the source classes that send them
    None,     \* no confirmation
    Timeout   \* _PENDING_CONFIRMATION_TIMEOUT, in ticks

ASSUME ConfirmationConstants ==
    /\ Source \subseteq {"agent_api", "telegram", "telegram_command"}
    /\ None \notin Request
    /\ Timeout \in Nat \ {0}

VARIABLES
    conf,  \* pending_tool_confirmations of the conversation
    req,   \* what each request is doing
    sends  \* history: telegram messages sent for each confirmation

vars == <<conf, req, sends>>

\* _CONFIRM_WORDS, _CANCEL_WORDS, _UNCLEAR_WORDS, and any other message.
Words == {"confirm", "cancel", "unclear", "other"}

Resolved == {"executed", "failed", "superseded", "expired", "cancelled", "interrupted"}

Confirmation == [status : {"absent", "pending", "executing"} \cup Resolved,
                 source : {"agent_api", "telegram", "telegram_command"},
                 repeats : Nat,
                 expiresIn : Nat]

Step == {"idle", "expire", "cancel", "interrupt", "giveup", "clarify", "confirm",
         "execute", "settle", "plan", "create", "done"}

Told == {"sent", "demo", "failed", "cancelled", "expired", "rejected", "repeat", "prompt",
         "chat", "error"}

RequestState == [pc      : Step,
                 words   : Words,
                 source  : {"agent_api", "telegram", "telegram_command"},
                 pending : Request \cup {None},
                 outcome : {None, "completed", "demo", "failed"},
                 told    : Told \cup {None}]

NoConfirmation == [status |-> "absent", source |-> "agent_api", repeats |-> 0,
                   expiresIn |-> 0]
Idle == [pc |-> "idle", words |-> "other", source |-> "agent_api", pending |-> None,
         outcome |-> None, told |-> None]

Init ==
    /\ conf  = [c \in Request |-> NoConfirmation]
    /\ req   = [r \in Request |-> Idle]
    /\ sends = [c \in Request |-> 0]

-----------------------------------------------------------------------------
(* The repository's statements. *)

Active == {c \in Request : conf[c].status = "pending"}

\* Mutant of Resolve: the expected status is not part of the WHERE clause.
ResolvedAnyway(c, expected, status) == [conf EXCEPT ![c].status = status]

\* resolve_pending_confirmation with an expected_status: compare and set.
Resolve(c, expected, status) ==
    IF conf[c].status = expected THEN [conf EXCEPT ![c].status = status] ELSE conf

\* Mutant of Replaced: a status that the table does not know.
ReplacedByActive(r, source) ==
    [conf EXCEPT ![r] = [status |-> "active", source |-> source, repeats |-> 0,
                         expiresIn |-> Timeout]]

\* Mutant of Replaced: the insert alone.
ReplacedKeepingOld(r, source) ==
    [conf EXCEPT ![r] = [status |-> "pending", source |-> source, repeats |-> 0,
                         expiresIn |-> Timeout]]

\* replace_pending_confirmation: supersede what is pending, insert a new row.
Replaced(r, source) ==
    [c \in Request |->
        IF c = r THEN [status |-> "pending", source |-> source, repeats |-> 0,
                       expiresIn |-> Timeout]
        ELSE IF conf[c].status = "pending" THEN [conf[c] EXCEPT !.status = "superseded"]
        ELSE conf[c]]

\* Mutant of Verdict: the source class is not compared.
VerdictFromAnySource(p, words, source) ==
    IF p.expiresIn = 0 THEN "expire"
    ELSE CASE words = "cancel"  -> "cancel"
           [] words = "confirm" -> "confirm"
           [] words = "unclear" -> IF p.repeats < 1 THEN "clarify" ELSE "giveup"
           [] OTHER             -> "interrupt"

\* What a request does with the pending row p it has just read.
Verdict(p, words, source) ==
    IF p.expiresIn = 0 THEN "expire"
    ELSE CASE words = "cancel" -> "cancel"
           [] words = "confirm" /\ source # p.source -> "reject"
           [] words = "confirm" /\ source = p.source -> "confirm"
           [] words = "unclear" -> IF p.repeats < 1 THEN "clarify" ELSE "giveup"
           [] OTHER -> "interrupt"

At(r, pc)     == req[r].pc = pc
Goto(r, pc)   == req' = [req EXCEPT ![r].pc = pc]
Answer(r, told) ==
    req' = [req EXCEPT ![r].pc = "done", ![r].outcome = None, ![r].told = told]

-----------------------------------------------------------------------------
(* _maybe_handle_pending_confirmation. *)

\* A request arrives and reads the pending row (get_active_...); what it says
\* matters only if there is one.  It looks for one only if it names its
\* conversation (by a hint or a binding, and not by repeating its history) and
\* there is a user's message in it.
Lookup(r, words, source, looks) ==
    /\ At(r, "idle")
    /\ \/ /\ Active = {} \/ ~looks
          /\ req' = [req EXCEPT ![r].pc = "plan", ![r].source = source]
       \/ /\ looks
          /\ \E c \in Active :
               LET verdict == Verdict(conf[c], words, source)
               IN  req' = [req EXCEPT ![r] =
                      [pc      |-> IF verdict = "reject" THEN "done" ELSE verdict,
                       words   |-> words,
                       source  |-> source,
                       pending |-> c,
                       outcome |-> None,
                       told    |-> IF verdict = "reject" THEN "rejected" ELSE None]]
    /\ UNCHANGED <<conf, sends>>

\* The pending row is put aside.  Whether the row still was pending is not
\* looked at: the answer is the same.
Expire(r) ==
    /\ At(r, "expire")
    /\ conf' = Resolve(req[r].pending, "pending", "expired")
    /\ IF req[r].words = "other" THEN Goto(r, "plan") ELSE Answer(r, "expired")
    /\ UNCHANGED sends

Cancel(r) ==
    /\ req[r].pc \in {"cancel", "giveup"}
    /\ conf' = Resolve(req[r].pending, "pending", "cancelled")
    /\ Answer(r, "cancelled")
    /\ UNCHANGED sends

Interrupt(r) ==
    /\ At(r, "interrupt")
    /\ conf' = Resolve(req[r].pending, "pending", "interrupted")
    /\ Goto(r, "plan")
    /\ UNCHANGED sends

\* increment_pending_confirmation_clarification and the repeated question.
Clarify(r) ==
    LET c == req[r].pending
    IN  /\ At(r, "clarify")
        /\ conf' = IF conf[c].status = "pending"
                   THEN [conf EXCEPT ![c].repeats = @ + 1] ELSE conf
        /\ Answer(r, "repeat")
        /\ UNCHANGED sends

\* The confirmation is taken, or the request goes on as ordinary chat.
Confirm(r) ==
    LET c == req[r].pending
    IN  /\ At(r, "confirm")
        /\ conf' = Resolve(c, "pending", "executing")
        /\ Goto(r, IF conf' = conf THEN "plan" ELSE "execute")
        /\ UNCHANGED sends

\* ToolExecutor.execute: the message goes out, or fails to, or goes out while
\* the answer of Telegram is lost and a failure is reported, or it is a demo.
Execute(r) ==
    LET c == req[r].pending
    IN  /\ At(r, "execute")
        /\ \/ sends' = [sends EXCEPT ![c] = @ + 1]
              /\ \E outcome \in {"completed", "failed"} :
                   req' = [req EXCEPT ![r].pc = "settle", ![r].outcome = outcome]
           \/ sends' = sends
              /\ \E outcome \in {"demo", "failed"} :
                   req' = [req EXCEPT ![r].pc = "settle", ![r].outcome = outcome]
        /\ UNCHANGED conf

Settle(r) ==
    LET outcome == req[r].outcome
    IN  /\ At(r, "settle")
        /\ conf' = Resolve(req[r].pending, "executing",
                           IF outcome \in {"completed", "demo"} THEN "executed"
                           ELSE "failed")
        /\ Answer(r, CASE outcome = "completed" -> "sent"
                       [] outcome = "demo"      -> "demo"
                       [] OTHER                 -> "failed")
        /\ UNCHANGED sends

-----------------------------------------------------------------------------
(* The rest of create_chat_completion. *)

\* The planning pass either asks for a telegram-send, which needs a
\* confirmation, or the request is answered without one.  A request that came
\* through Telegram never gets a confirmation: the policy refuses the tools of
\* plain messages, and the forced tools of /send and /aliases are answered
\* before any of this.
Plan(r) ==
    /\ At(r, "plan")
    /\ \/ req[r].source \notin {"telegram", "telegram_command"} /\ Goto(r, "create")
       \/ Answer(r, "chat")
    /\ UNCHANGED <<conf, sends>>

Create(r) ==
    /\ At(r, "create")
    /\ conf' = Replaced(r, req[r].source)
    /\ Answer(r, "prompt")
    /\ UNCHANGED sends

\* A storage error (503) or the end of the process, at any point.
Fail(r) ==
    /\ req[r].pc \notin {"idle", "done"}
    /\ Answer(r, "error")
    /\ UNCHANGED <<conf, sends>>

Sooner(n) == IF n = 0 THEN 0 ELSE n - 1

Tick ==
    /\ conf' = [c \in Request |-> [conf[c] EXCEPT !.expiresIn = Sooner(@)]]
    /\ UNCHANGED <<req, sends>>

Next ==
    \/ \E r \in Request, words \in Words, source \in Source, looks \in BOOLEAN :
          Lookup(r, words, source, looks)
    \/ \E r \in Request :
          \/ Expire(r) \/ Cancel(r) \/ Interrupt(r) \/ Clarify(r)
          \/ Confirm(r) \/ Execute(r) \/ Settle(r)
          \/ Plan(r) \/ Create(r) \/ Fail(r)
    \/ Tick

Spec == Init /\ [][Next]_vars

-----------------------------------------------------------------------------
(* Properties. *)

TypeOK ==
    /\ conf  \in [Request -> Confirmation]
    /\ req   \in [Request -> RequestState]
    /\ sends \in [Request -> Nat]

\* However many requests say "yes" at once, one confirmation sends one message.
SentAtMostOnce == \A c \in Request : sends[c] <= 1

\* A message goes out only for a confirmation that some request, of the source
\* class that asked for it, has confirmed.
SentOnlyIfConfirmed ==
    \A c \in Request : sends[c] > 0 =>
        \E r \in Request \ {c} : /\ req[r].words = "confirm"
                                 /\ req[r].pending = c
                                 /\ req[r].source = conf[c].source

\* Whatever put a confirmation aside, it never sends: not even by a request
\* that had read it while it was pending.
PutAsideNeverSent ==
    \A c \in Request :
        conf[c].status \in {"superseded", "expired", "cancelled", "interrupted"}
            => sends[c] = 0

\* Who is told that a send is cancelled can rely on it.
CancelledAnswerHolds ==
    \A r \in Request : req[r].told = "cancelled" => sends[req[r].pending] = 0

\* The confirmation rows implement single-use tokens, one armed at a time.
TokenState(status) ==
    CASE status = "absent"  -> "none"
      [] status = "pending" -> "armed"
      [] status \in {"executing", "executed", "failed"} -> "used"
      [] OTHER -> "void"

Tokens == INSTANCE SendToken WITH
    Token <- Request,
    state <- [c \in Request |-> TokenState(conf[c].status)],
    sent  <- [c \in Request |-> sends[c] > 0]

ImplementsTokens == Tokens!Spec

=============================================================================
