---------------------------- MODULE AlertPlanner ----------------------------
(***************************************************************************)
(* Whom an alert goes to (telegram-ingress, modules/alerts/planner.py) and *)
(* whether the relay takes it at all (main.py, modules/alerts/facade.py),  *)
(* as functions of the settings and of the payload.                        *)
(*                                                                         *)
(* Strings are stripped and in lower case; a payload's field is "absent"   *)
(* (or no string), "blank" or its content.  What an alert's labels and     *)
(* annotations say, besides its severity, is one value.  The text for a    *)
(* chat is the set of its lines, and what is no object in a payload's      *)
(* alerts is left out.                                                     *)
(***************************************************************************)
EXTENDS Integers, FiniteSets, TLAPS

(* Settings: the three groups of chats; the sending of resolved alerts;    *)
(* the bot's and the callers' tokens.                                      *)
Settings == [chats : SUBSET Int, warning : SUBSET Int, critical : SUBSET Int,
             resolved : BOOLEAN, bot : BOOLEAN, auth : BOOLEAN]

Configured(s) == s.chats \union s.warning \union s.critical

RelayReady(s) == s.bot /\ s.auth /\ Configured(s) # {}

Rank == [info |-> 10, warning |-> 20, critical |-> 30]

Alias == [informational |-> "info", warn |-> "warning",
          error |-> "critical", fatal |-> "critical"]

(* _normalize_alert_severity, "none" for a severity that is not known.     *)
Severity(raw) ==
  CASE raw \in DOMAIN Alias -> Alias[raw]
    [] raw \in DOMAIN Rank  -> raw
    [] OTHER                -> "none"

(* _extract_field("text", "message"): the first that is a string decides,  *)
(* also when it is blank.                                                  *)
DirectText(payload) == IF payload.text = "absent" THEN payload.message ELSE payload.text

IsDirect(payload) == DirectText(payload) \notin {"absent", "blank"}

(* The status of an alert, or that of its payload if it has none.          *)
StatusOf(payload, alert) ==
  IF alert.status \in {"absent", "blank"} THEN payload.status ELSE alert.status

(* _alert_line finds nothing to object to.                                 *)
Matches(s, payload, alert) ==
  /\ StatusOf(payload, alert) \in {"firing"} \union {r \in {"resolved"} : s.resolved}
  /\ Severity(alert.severity) # "none"

Line(payload, alert) == [status   |-> StatusOf(payload, alert),
                         severity |-> Severity(alert.severity),
                         says     |-> alert.says]

(* _route_chat_ids_for_severity.                                           *)
Routed(s, severity) ==
  s.chats
    \union {c \in s.warning : Rank[severity] >= Rank["warning"]}
    \union {c \in s.critical : Rank[severity] >= Rank["critical"]}

(* _manual_alert_chat_ids.                                                 *)
Manual(s) == IF s.chats # {} THEN s.chats ELSE s.warning \union s.critical

Matched(s, payload) ==
  {i \in DOMAIN payload.alerts : Matches(s, payload, payload.alerts[i])}

(* The lines of the matched alerts that are routed to a chat.              *)
LinesFor(s, payload, chat) ==
  {Line(payload, payload.alerts[i]) :
     i \in {j \in Matched(s, payload) :
              chat \in Routed(s, Severity(payload.alerts[j].severity))}}

(* plan_delivery: the text for each chat that gets one, and matched_alerts.*)
Deliveries(s, payload) ==
  IF IsDirect(payload)
  THEN [c \in Manual(s) |-> {DirectText(payload)}]
  ELSE [c \in {chat \in Configured(s) : LinesFor(s, payload, chat) # {}}
          |-> LinesFor(s, payload, c)]

MatchedAlerts(s, payload) ==
  IF IsDirect(payload) THEN 1 ELSE Cardinality(Matched(s, payload))

(* POST /telegram/alerts: 503, 401, an alert that is ignored, or a         *)
(* delivery handed to the outbox.  A ready relay has a token to compare    *)
(* the caller's with; known: they are the same.                            *)
Response(s, known, payload) ==
  CASE ~RelayReady(s)            -> "unavailable"
    [] RelayReady(s) /\ ~known   -> "unauthorized"
    [] RelayReady(s) /\ known /\ DOMAIN Deliveries(s, payload) = {} -> "ignored"
    [] OTHER                     -> "submitted"

-----------------------------------------------------------------------------
(* What the planner does with an alert, whatever the settings and the      *)
(* payload.                                                                *)

LEMMA SeverityIsRanked ==
  ASSUME NEW raw
  PROVE  Severity(raw) \in {"info", "warning", "critical", "none"}
  BY DEF Severity, Alias, Rank

LEMMA RoutedIsConfigured ==
  ASSUME NEW s, NEW severity
  PROVE  Routed(s, severity) \subseteq Configured(s)
  BY DEF Routed, Configured

(* A graver alert reaches everybody whom a lesser one reaches: no chat is  *)
(* told of the warning and not of the outage (_route_chat_ids_for_severity *)
(* adds groups and never drops one).                                       *)
THEOREM SeverityOnlyAdds ==
  ASSUME NEW s \in Settings, NEW a \in DOMAIN Rank, NEW b \in DOMAIN Rank,
         Rank[a] <= Rank[b]
  PROVE  Routed(s, a) \subseteq Routed(s, b)
<1>1. Rank[a] \in Int /\ Rank[b] \in Int /\ Rank["warning"] = 20 /\ Rank["critical"] = 30
  BY DEF Rank
<1>2. Rank[a] >= Rank["warning"] => Rank[b] >= Rank["warning"]
  BY <1>1
<1>3. Rank[a] >= Rank["critical"] => Rank[b] >= Rank["critical"]
  BY <1>1
<1> QED BY <1>2, <1>3 DEF Routed

(* What a chat is sent is exactly what concerns it: the direct text, or a  *)
(* line for each matched alert that is routed to it and for no other one;  *)
(* a chat with such a line is left out of no plan (plan_delivery).         *)
THEOREM TextsAreExact ==
  ASSUME NEW s \in Settings, NEW payload, NEW chat, NEW i \in DOMAIN payload.alerts,
         ~IsDirect(payload)
  PROVE  /\ Matches(s, payload, payload.alerts[i])
              /\ chat \in Routed(s, Severity(payload.alerts[i].severity))
            => /\ chat \in DOMAIN Deliveries(s, payload)
               /\ Line(payload, payload.alerts[i]) \in Deliveries(s, payload)[chat]
         /\ chat \in DOMAIN Deliveries(s, payload) =>
              /\ Deliveries(s, payload)[chat] # {}
              /\ \A line \in Deliveries(s, payload)[chat] :
                   \E j \in DOMAIN payload.alerts :
                     /\ line = Line(payload, payload.alerts[j])
                     /\ Matches(s, payload, payload.alerts[j])
                     /\ chat \in Routed(s, Severity(payload.alerts[j].severity))
<1> DEFINE told == LinesFor(s, payload, chat)
           plan == Deliveries(s, payload)
<1>1. plan = [c \in {d \in Configured(s) : LinesFor(s, payload, d) # {}}
                |-> LinesFor(s, payload, c)]
  BY DEF Deliveries
<1>2. ASSUME chat \in DOMAIN plan
      PROVE  plan[chat] = told /\ told # {}
  BY <1>1, <1>2
<1>3. ASSUME NEW line \in told
      PROVE  \E j \in DOMAIN payload.alerts :
               /\ line = Line(payload, payload.alerts[j])
               /\ Matches(s, payload, payload.alerts[j])
               /\ chat \in Routed(s, Severity(payload.alerts[j].severity))
  BY <1>3 DEF LinesFor, Matched
<1>4. ASSUME Matches(s, payload, payload.alerts[i]),
             chat \in Routed(s, Severity(payload.alerts[i].severity))
      PROVE  chat \in DOMAIN plan /\ Line(payload, payload.alerts[i]) \in plan[chat]
  <2>1. Line(payload, payload.alerts[i]) \in told
    BY <1>4 DEF LinesFor, Matched
  <2>2. chat \in Configured(s)
    BY <1>4, RoutedIsConfigured
  <2> QED BY <1>1, <2>1, <2>2
<1> QED BY <1>2, <1>3, <1>4

(* A relay that is ready (main.py) drops an alert (facade.py's "ignored")  *)
(* only if its policy says so: never a direct text, never a critical alert *)
(* that matches, and none at all once there is a default group.            *)
THEOREM OnlyMinorAlertsAreDropped ==
  ASSUME NEW s \in Settings, NEW known \in BOOLEAN, NEW payload,
         Response(s, known, payload) = "ignored"
  PROVE  /\ ~IsDirect(payload)
         /\ \A i \in DOMAIN payload.alerts : Matches(s, payload, payload.alerts[i]) =>
              LET severity == Severity(payload.alerts[i].severity)
              IN  /\ s.chats = {}
                  /\ severity # "critical"
                  /\ severity = "warning" => s.warning = {}
<1>1. RelayReady(s) /\ DOMAIN Deliveries(s, payload) = {}
  BY DEF Response
<1>2. Configured(s) # {}
  BY <1>1 DEF RelayReady
<1>3. ~IsDirect(payload)
  <2>1. SUFFICES ASSUME IsDirect(payload) PROVE FALSE
    OBVIOUS
  <2>2. DOMAIN Deliveries(s, payload) = Manual(s)
    BY <2>1 DEF Deliveries
  <2>3. Manual(s) # {}
    BY <1>2 DEF Manual, Configured
  <2> QED BY <1>1, <2>2, <2>3
<1>4. ASSUME NEW i \in DOMAIN payload.alerts, Matches(s, payload, payload.alerts[i])
      PROVE  LET severity == Severity(payload.alerts[i].severity)
             IN  /\ s.chats = {}
                 /\ severity # "critical"
                 /\ severity = "warning" => s.warning = {}
  <2> DEFINE severity == Severity(payload.alerts[i].severity)
  <2>1. Routed(s, severity) = {}
    BY <1>1, <1>3, <1>4, TextsAreExact
  <2>2. s.chats = {}
    BY <2>1 DEF Routed
  <2>3. severity = "critical" => s.warning = {} /\ s.critical = {}
    BY <2>1 DEF Routed, Rank
  <2>4. severity = "warning" => s.warning = {}
    BY <2>1 DEF Routed, Rank
  <2> HIDE DEF severity
  <2>5. severity # "critical"
    BY <1>2, <2>2, <2>3 DEF Configured
  <2> QED BY <2>2, <2>4, <2>5 DEF severity
<1> QED BY <1>3, <1>4

=============================================================================
