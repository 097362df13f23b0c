---------------------------- MODULE MemoryItems ----------------------------
(***************************************************************************)
(* The rules of agent-api's memory (modules/chat/memory.py) and of its     *)
(* table memory_items (persistence/memory_repo.py), as operators: which    *)
(* message becomes an item, which items a question may recall, and how an  *)
(* item's status may change.                                               *)
(***************************************************************************)
EXTENDS FiniteSets, Naturals

CONSTANT TopK  \* memory_top_k

ASSUME MemoryAssumption == TopK \in Nat

Status == {"active", "invalidated", "deleted"}

(* Mutant: dictated facts are no candidates.                               *)
CandidateTyped(message) == message.source = "request_transcript" /\ message.durable

(* _evaluate_memory_candidate of a user message: where it comes from, and  *)
(* whether it is a statement that matches a durable pattern.               *)
Candidate(message) ==
  message.source \in {"request_transcript", "audio_transcription"}
    /\ message.durable

(* Mutant: forgotten items are searched as well.                           *)
RetrievableAlways(items) == {i \in DOMAIN items : items[i] # "none"}

(* retrieve_memory: WHERE status = 'active'.                               *)
Retrievable(items) == {i \in DOMAIN items : items[i] = "active"}

(* ... ORDER BY similarity LIMIT top_k, above a least score: any few.      *)
Retrievals(items) == {hits \in SUBSET Retrievable(items) : Cardinality(hits) <= TopK}

(* store_memory_items: the row of a message that has none yet.             *)
Remembered(items, i) == [items EXCEPT ![i] = "active"]

(* _is_allowed_lifecycle_transition.                                       *)
MayBecome(from, to) ==
  \/ from = "active" /\ to \in {"invalidated", "deleted"}
  \/ from = "invalidated" /\ to = "deleted"

(* transition_memory_item_status, under FOR UPDATE.                        *)
Transitioned(items, i, to) ==
  IF MayBecome(items[i], to) THEN [items EXCEPT ![i] = to] ELSE items
=============================================================================
