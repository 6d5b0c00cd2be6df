--------------------------- MODULE AttemptRecords ---------------------------
(***************************************************************************)
(* The two durable receipts of one automatic attempt and what the          *)
(* admission gate reads off them.  The Writer (root) keeps one record per  *)
(* admitted run; the runner keeps one journal per run.  Neither side can   *)
(* write the other's receipt, so every decision about a runner slot or     *)
(* about a lifecycle drain is a predicate on the pair.                     *)
(*                                                                         *)
(* Data abstracted: envelopes, digests, heads, comment bodies and ids.     *)
(* One attempt has one native Outcome comment, so comparing status, head,  *)
(* PR number and id of two receipts is comparing their status.             *)
(***************************************************************************)
CONSTANTS Runs,     \* the GitHub workflow run ids that may be admitted
          Slots     \* the execution slots (physical runners)

NoSlot == "no slot"

Outcomes == {"BLOCKED", "IMPLEMENTED"}

(* What the Writer reserves before it acts on GitHub: publicationIntent,    *)
(* commentIntent or an unresolved prIntent, successOutcomeIntent, and        *)
(* lifecycleIntent (a Draft/Ready mutation).                               *)
Effects == {"push", "note", "success", "lifecycle"}

(* publication-v2/<run>.json.  life: "absent" is no record, "blocked" is a  *)
(* record with admissionBlock, the others are controllerLifecycle.status.  *)
WriterRecords ==
  [life        : {"absent", "blocked", "active", "complete"},
   slot        : Slots \cup {NoSlot},
   ready       : BOOLEAN,                      \* readyConsumed
   republished : BOOLEAN,                      \* an owner-authorised recovery pushed the head
   pending     : SUBSET Effects,               \* intents without a receipt
   outcome     : Outcomes \cup {"none"},
   handoff     : {"unset", "open", "done"},    \* handoffComplete undefined/false/true
   recovery    : {"none", "reserved", "published", "complete"}]  \* prepublicationRecovery

(* attempts/<run>.json.  exec: "absent" is no journal, "null" is            *)
(* execution === null, "reserved" is reserved and not returned; a returned *)
(* execution is "reaped", "refused" (not_started and not_required) or      *)
(* "unproven" (any other child or containment).                            *)
Journals ==
  [exec        : {"absent", "null", "reserved", "reaped", "refused", "unproven"},
   success     : BOOLEAN,                           \* execution.result.status = success
   collected   : BOOLEAN,                           \* collection.preserved
   diagnostic  : BOOLEAN,                           \* diagnostic is not null
   outcome     : Outcomes \cup {"none"}]

NoRecord ==
  [life |-> "absent", slot |-> NoSlot, ready |-> FALSE, republished |-> FALSE,
   pending |-> {}, outcome |-> "none", handoff |-> "unset", recovery |-> "none"]

NoJournal ==
  [exec |-> "absent", success |-> FALSE, collected |-> FALSE,
   diagnostic |-> FALSE, outcome |-> "none"]

(* terminalMatches: both sides hold the same terminal Outcome.              *)
TerminalMatches(rec, jrn) == rec.outcome # "none" /\ rec.outcome = jrn.outcome

(* The containment proof of a returned execution.                          *)
ProvenExecution(jrn) == jrn.exec \in {"reaped", "refused"}

(* contained(record): the evidence admission.complete demands.              *)
Contained(rec, jrn) ==
  /\ jrn.exec # "absent"
  /\ TerminalMatches(rec, jrn)
  /\ rec.pending \cap {"push", "note"} = {}
  /\ jrn.exec = "null" \/ ProvenExecution(jrn)

(* Mutant: any returned execution frees the slot, proven or not.           *)
ResourceReturned(rec, jrn) ==
  rec.life = "complete" \/ jrn.exec \in {"reaped", "refused", "unproven"}

(* resourceReleased(record): this attempt no longer occupies its slot.      *)
ResourceReleased(rec, jrn) ==
  \/ rec.life = "complete"
  \/ ProvenExecution(jrn) /\ jrn.collected
  \/ Contained(rec, jrn)

(* What assertSlotComplete counts against the slot it is asked about.       *)
Occupies(rec, jrn, s) ==
  /\ rec.life \in {"active", "complete"}
  /\ rec.slot = s
  /\ ~ResourceReleased(rec, jrn)

(* Mutant: a finished reservation is still waited for.                      *)
CountsActiveAlways(rec, jrn) ==
  /\ rec.life \in {"active", "complete"}
  /\ rec.recovery = "none"
  /\ rec.outcome = "none" \/ Contained(rec, jrn)

(* The two lists of currentInventory for a lifecycle drain.                 *)
CountsActive(rec, jrn) ==
  /\ rec.life = "active"
  /\ rec.recovery = "none"
  /\ rec.outcome = "none" \/ Contained(rec, jrn)

(* Mutant: an Outcome alone settles an attempt that is still active.       *)
CountsUnknownTrusting(rec, jrn) ==
  \/ /\ rec.life \in {"active", "complete"}
     /\ rec.recovery # "none"
     /\ rec.recovery # "complete" \/ rec.pending \cap {"note", "lifecycle"} # {}
  \/ /\ rec.life = "complete"
     /\ rec.recovery = "none"
     /\ \/ rec.outcome = "none"
        \/ rec.pending \cap {"push", "note", "lifecycle"} # {}
        \/ rec.handoff = "open"

(* Mutant: a complete attempt with an Outcome is settled.                  *)
CountsUnknownUnlessFinal(rec, jrn) ==
  \/ /\ rec.life \in {"active", "complete"}
     /\ rec.recovery \notin {"none", "complete"}
  \/ rec.life = "complete" /\ rec.recovery = "none" /\ rec.outcome = "none"
  \/ /\ rec.life = "active"
     /\ rec.recovery = "none"
     /\ rec.outcome # "none"
     /\ ~Contained(rec, jrn)

CountsUnknown(rec, jrn) ==
  \/ /\ rec.life \in {"active", "complete"}
     /\ rec.recovery # "none"
     /\ \/ rec.recovery # "complete"
        \/ rec.pending \cap {"note", "lifecycle"} # {}
  \/ /\ rec.life = "complete"
     /\ rec.recovery = "none"
     /\ \/ rec.outcome = "none"
        \/ rec.pending \cap {"push", "note", "lifecycle"} # {}
        \/ rec.handoff = "open"
  \/ /\ rec.life = "active"
     /\ rec.recovery = "none"
     /\ rec.outcome # "none"
     /\ ~Contained(rec, jrn)
=============================================================================
