------------------------------ MODULE ChatTurns ------------------------------
(***************************************************************************)
(* Where agent-api stores the turns of a chat: the resolution of a         *)
(* conversation (persistence/conversations_repo.py) and the transcript     *)
(* that a turn leaves in it (repositories/postgres.py,                     *)
(* persistence/transcript_repo.py), as services/chat.py and the audio      *)
(* routes call them.                                                       *)
(*                                                                         *)
(* The chat clients are of two sorts.  A bound client (a Telegram chat)    *)
(* sends its newest message and names its own chat; the others send all    *)
(* that is on their screen, with or without the X-Conversation-ID that the *)
(* last answer carried.  A transaction reads a conversation (Look) and     *)
(* writes to it later (Commit), without a lock in between.                 *)
(***************************************************************************)
EXTENDS Naturals, SequencesExt

CONSTANTS
    Client,       \* chat clients
    Bound,        \* those with metadata.source and metadata.client_conversation_id
    Patient,      \* those that await an answer before they send more
    Turn,         \* calls that agent-api serves at the same time
    Conversation, \* bound on conversations: the identifiers that _new_id makes up
    Text,         \* what users say
    None,         \* NULL
    MaxRequest,   \* bound on the messages of one request
    MaxMessages   \* bound on the messages stored before the last turn

ASSUME TurnConstants ==
    /\ Bound \subseteq Client
    /\ Patient \subseteq Client
    /\ None \notin Conversation
    /\ MaxRequest \in Nat \ {0}
    /\ MaxMessages \in Nat

VARIABLES
    recent,   \* conversations, the most recently updated first
    messages, \* messages of each conversation, in the order of insertion
    binding,  \* client_conversation_bindings
    screen,   \* what each unbound client has on its screen
    header,   \* the X-Conversation-ID that each unbound client got last
    turn,     \* what each call is doing
    mixed     \* history: conversations written to by a bound client or blindly

vars == <<recent, messages, binding, screen, header, turn, mixed>>

\* A message as clients and transcripts see it.
User(w)   == [role |-> "user", text |-> w]
Assistant == [role |-> "assistant", text |-> "answer"]

Said == [role : {"user"}, text : Text] \cup {Assistant}

\* The kinds of calls.  pinned: streams, and the answers of /send and of
\* confirmations, which are stored under the conversation prepared for them.
Kind == {"plain", "pinned", "dictation"}

NoContext == [conversation |-> None, existing |-> 0, matched |-> 0]

Idle == [pc |-> "idle", client |-> None, kind |-> "plain", hint |-> None,
         request |-> <<>>, answered |-> FALSE, context |-> NoContext]

Context == [conversation : Conversation \cup {None}, existing : Nat, matched : Nat]

TurnState == [pc       : {"idle", "prepare", "run", "failed", "commit"},
              client   : Client \cup {None},
              kind     : Kind,
              hint     : Conversation \cup {None},
              request  : Seq(Said),
              answered : BOOLEAN,   \* the runtime answered, or failed
              context  : Context]

Init ==
    /\ recent   = <<>>
    /\ messages = [v \in Conversation |-> <<>>]
    /\ binding  = [c \in Client |-> None]
    /\ screen   = [c \in Client |-> <<>>]
    /\ header   = [c \in Client |-> None]
    /\ turn     = [t \in Turn |-> Idle]
    /\ mixed    = {}

Made    == ToSet(recent)
Storage == <<recent, messages, binding, mixed>>
Screens == <<screen, header>>

-----------------------------------------------------------------------------
(* Transcripts. *)

\* ORDER BY message_index; messages of equal index come in the order of their
\* insertion.
Place(list, i) ==
    LET before(j) == \/ list[j].index < list[i].index
                     \/ list[j].index = list[i].index /\ j < i
    IN  1 + Cardinality({j \in DOMAIN list : before(j)})

\* The columns that load_transcript selects.
Seen(m) == [role |-> m.role, text |-> m.text]

Ordered(list) ==
    LET row(k) == list[CHOOSE i \in DOMAIN list : Place(list, i) = k]
    IN  [k \in DOMAIN list |-> Seen(row(k))]

\* load_transcript.
Transcript(v) == Ordered(messages[v])

\* insert_message.
At(m, i) == [index |-> i, role |-> m.role, text |-> m.text]

\* insert_request_messages: what the request has beyond the matched messages,
\* numbered from the existing ones on.
Appended(request, context) ==
    [i \in 1..Len(request) - context.matched |->
        At(request[context.matched + i], context.existing + i - 1)]

\* message_index=len(request_messages).
AnswerIndex(request) == Len(request)

\* The messages of a turn.
Stored(request, context, answered) ==
    Appended(request, context)
        \o IF answered THEN <<At(Assistant, AnswerIndex(request))>> ELSE <<>>

\* Mutant of Touched: the old place is kept as well.
TouchedAgain(list, v) == <<v>> \o list

\* touch_conversation: first in ORDER BY updated_at DESC.
Touched(list, v) == <<v>> \o RemoveFirst(list, v)

-----------------------------------------------------------------------------
(* resolve_conversation and resolve_append_target. *)

\* Mutant of Matches: the stored transcript need not be covered.
MatchesRoles(v, request) == messages[v] # <<>> /\ Len(messages[v]) <= Len(request)

\* matching_prefix_length is not None.
Matches(v, request) == IsPrefix(Transcript(v), request)

\* Conversations without a transcript are ignored.
Matching(request) == {v \in Made : messages[v] # <<>> /\ Matches(v, request)}

\* _resolve_by_transcript_prefix: the longest match, the most recent of these.
Best(request) ==
    LET found == Matching(request)
        longest(v) == v \in found /\ \A w \in found : Len(messages[w]) <= Len(messages[v])
        place == SelectInSeq(recent, longest)
    IN  IF place = 0 THEN None ELSE recent[place]

Found(v, matched) == [conversation |-> v, existing |-> Len(messages[v]),
                      matched |-> matched]

\* What a call finds: a set of at most one context, empty for a 409.  NoContext
\* asks for a new conversation.
Resolved(c, request, hint) ==
    LET bound == IF c \in Bound THEN binding[c] ELSE None
        best  == Best(request)
    IN  CASE bound # None ->
               IF hint \in {None, bound} THEN {Found(bound, 0)} ELSE {}
          [] bound = None /\ hint # None ->
               IF hint \in Made /\ Matches(hint, request)
               THEN {Found(hint, Len(messages[hint]))} ELSE {}
          [] bound = None /\ hint = None /\ best # None ->
               {Found(best, Len(messages[best]))}
          [] OTHER -> {NoContext}

\* A transcription is appended to the conversation it names, whatever it says.
AppendTarget(hint) ==
    IF hint = None THEN {NoContext} ELSE IF hint \in Made THEN {Found(hint, 0)} ELSE {}

\* Mutant of Rebound: the last binding wins.
ReboundAlways(c, v) == [binding EXCEPT ![c] = v]

\* ON CONFLICT DO UPDATE SET updated_at = ...: the first binding stays.
Rebound(c, v) == IF binding[c] = None THEN [binding EXCEPT ![c] = v] ELSE binding

\* The model holds no more messages: the transaction can only fail.
Crowded == SumFunction([v \in Conversation |-> Len(messages[v])]) > MaxMessages

\* _create_client_bound_conversation, or an insert for a client without a binding:
\* a new conversation v, and where the client's turns now go.  A client that is
\* found bound by then keeps its conversation, and v is deleted again.
Bindings(c, v) == IF c \in Bound THEN Rebound(c, v) ELSE binding
Into(c, v)     == IF c \in Bound THEN Bindings(c, v)[c] ELSE v

-----------------------------------------------------------------------------
(* Clients. *)

\* A call with one more message; it may name the conversation it belongs to.  If
\* it is prepared, the transaction of prepare_conversation begins: it reads.
Begin(t, c, w, kind) ==
    LET request == IF c \in Bound THEN <<User(w)>> ELSE Append(screen[c], User(w))
        prepared(hint) == kind = "pinned" \/ c \in Bound \/ (kind = "plain" /\ hint # None)
    IN  /\ turn[t].pc = "idle"
        /\ Len(request) <= MaxRequest
        /\ c \in Bound => kind # "dictation"
        /\ c \in Patient => \A u \in Turn : turn[u].client # c
        /\ \E hint \in {None, header[c]} :
             \E x \in IF prepared(hint) THEN Resolved(c, request, hint) ELSE {NoContext} :
                 turn' = [turn EXCEPT ![t] =
                   [Idle EXCEPT !.client = c, !.kind = kind, !.request = request,
                                !.hint = hint, !.context = x,
                                !.pc = IF prepared(hint) THEN "prepare" ELSE "run"]]
        /\ UNCHANGED <<Storage, Screens>>

\* The user opens a new chat.
NewChat(c) ==
    /\ c \notin Bound
    /\ screen[c] # <<>> \/ header[c] # None
    /\ screen' = [screen EXCEPT ![c] = <<>>]
    /\ header' = [header EXCEPT ![c] = None]
    /\ UNCHANGED <<Storage, turn>>

\* The call ends with an error, and its message is to be sent again.
Refused(t) == turn' = [turn EXCEPT ![t] = Idle] /\ UNCHANGED Screens

-----------------------------------------------------------------------------
(* Calls. *)

\* prepare_conversation makes a conversation where it found none, and commits or
\* fails.
Prepare(t) ==
    LET c == turn[t].client
        x == turn[t].context
        ready(v) == turn' = [turn EXCEPT ![t].pc = "run", ![t].context = NoContext,
                       ![t].hint = IF turn[t].kind = "plain" THEN @ ELSE v]
    IN  /\ turn[t].pc = "prepare"
        /\ \/ Refused(t) /\ UNCHANGED Storage
           \/ /\ x # NoContext
              /\ ready(x.conversation)
              /\ UNCHANGED <<Storage, Screens>>
           \/ /\ x = NoContext
              /\ \E v \in Conversation \ Made :
                   /\ binding' = Bindings(c, v)
                   /\ recent' = IF Into(c, v) = v THEN <<v>> \o recent ELSE recent
                   /\ ready(Into(c, v))
              /\ UNCHANGED <<messages, mixed, Screens>>

\* A stream has shown an answer, or a part of it, and its X-Conversation-ID, and
\* ends without the answer in the transcript.
Streamed(t) ==
    LET c == turn[t].client
    IN  /\ turn[t].kind = "pinned" /\ c \notin Bound
        /\ screen' = [screen EXCEPT ![c] = Append(turn[t].request, Assistant)]
        /\ header' = [header EXCEPT ![c] = turn[t].hint]

\* A turn could not be stored.  A stream records that as a failed turn, and so
\* does an answer of the planning pass; the failure of that is logged only.
NotStored(t, answered) ==
    \/ Refused(t)
    \/ turn' = [turn EXCEPT ![t] = Idle] /\ Streamed(t)
    \/ /\ turn[t].kind # "dictation"
       /\ answered
       /\ turn' = [turn EXCEPT ![t].pc = "failed", ![t].answered = FALSE,
                               ![t].context = NoContext]
       /\ UNCHANGED Screens

\* The runtime has answered or failed, and the transaction of
\* record_successful_completion, record_failed_completion or record_transcription
\* begins: it reads.
Look(t) ==
    LET r     == turn[t]
        found == IF r.kind = "dictation" THEN AppendTarget(r.hint)
                 ELSE Resolved(r.client, r.request, r.hint)
    IN  /\ r.pc \in {"run", "failed"}
        /\ \E ok \in IF r.pc = "run" /\ r.kind # "dictation" THEN BOOLEAN ELSE {FALSE} :
             \/ /\ \E x \in found :
                     turn' = [turn EXCEPT ![t].pc = "commit", ![t].answered = ok,
                                          ![t].context = x]
                /\ UNCHANGED Screens
             \/ NotStored(t, ok)
        /\ UNCHANGED Storage

\* What the client gets to see of a stored turn.  The message of a failed one may
\* stay on the screen.
Shown(t, v) ==
    LET r == turn[t]
        c == r.client
        said == IF r.answered THEN Append(r.request, Assistant) ELSE r.request
    IN  /\ turn' = [turn EXCEPT ![t] = Idle]
        /\ IF c \in Bound \/ (r.kind # "dictation" /\ ~r.answered)
           THEN \/ UNCHANGED Screens
                \/ Streamed(t)
                \/ /\ c \notin Bound
                   /\ screen' = [screen EXCEPT ![c] = said]
                   /\ header' = header
           ELSE /\ screen' = [screen EXCEPT ![c] = said]
                /\ header' = [header EXCEPT ![c] = v]

\* Write the messages of turn t to v, by the view x of its transcript.
Write(t, v, x) ==
    LET r == turn[t]
        wrote == IF r.kind = "dictation"
                 THEN <<At(r.request[Len(r.request)], x.existing)>>
                 ELSE Stored(r.request, x, r.answered)
    IN  /\ messages' = [messages EXCEPT ![v] = @ \o wrote]
        /\ recent' = Touched(recent, v)
        /\ mixed' = IF r.client \in Bound \/ x.existing # Len(messages[v])
                    THEN mixed \cup {v} ELSE mixed
        /\ Shown(t, v)

\* It writes, and commits or fails.
Commit(t) ==
    LET c == turn[t].client
        x == turn[t].context
    IN  /\ turn[t].pc = "commit"
        /\ \/ /\ x # NoContext /\ ~Crowded
              /\ Write(t, x.conversation, x)
              /\ UNCHANGED binding
           \/ /\ x = NoContext /\ ~Crowded
              /\ \E v \in Conversation \ Made :
                   /\ binding' = Bindings(c, v)
                   /\ Write(t, Into(c, v),
                            IF Into(c, v) = v THEN x ELSE Found(Into(c, v), 0))
           \/ NotStored(t, turn[t].answered) /\ UNCHANGED Storage

Next ==
    \/ \E t \in Turn, c \in Client, w \in Text, k \in Kind : Begin(t, c, w, k)
    \/ \E c \in Client : NewChat(c)
    \/ \E t \in Turn : Prepare(t) \/ Look(t) \/ Commit(t)

Spec == Init /\ [][Next]_vars

-----------------------------------------------------------------------------
(* Invariants. *)

Message == [index : Nat, role : {"user", "assistant"}, text : Text \cup {"answer"}]

TypeOK ==
    /\ recent   \in Seq(Conversation)
    /\ IsInjective(recent)
    /\ messages \in [Conversation -> Seq(Message)]
    /\ binding  \in [Client -> Conversation \cup {None}]
    /\ screen   \in [Client -> Seq(Said)]
    /\ header   \in [Client -> Conversation \cup {None}]
    /\ turn     \in [Turn -> TurnState]
    /\ mixed    \subseteq Conversation

\* No two messages of a conversation have the same place in it
\* (docs/data-model.md:192).
IndicesUnique ==
    \A v \in Conversation : \A i, j \in DOMAIN messages[v] :
        messages[v][i].index = messages[v][j].index => i = j

-----------------------------------------------------------------------------
(* Action properties. *)

Writes(t, v) == turn'[t] # turn[t] /\ turn[t].pc = "commit" /\ messages'[v] # messages[v]

\* A turn of a client that sends the whole history, stored on top of what it had
\* read, makes the transcript what that client has on its screen, whichever
\* conversation it was matched to.
TurnExtendsTranscript ==
    [][\A t \in Turn, v \in Conversation :
         /\ Writes(t, v)
         /\ v \notin mixed'
         /\ turn[t].kind # "dictation"
         => Transcript(v)' = IF turn[t].answered THEN Append(turn[t].request, Assistant)
                             ELSE turn[t].request]_vars

\* The first binding of a client is its last, however many first messages of it
\* race, and its conversation stays.
BindingIsKept ==
    [][\A c \in Client : binding[c] # None =>
         binding'[c] = binding[c] /\ binding[c] \in ToSet(recent')]_vars

=============================================================================
