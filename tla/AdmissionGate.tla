---------------------------- MODULE AdmissionGate ----------------------------
(***************************************************************************)
(* The root admission gate (controller/src/admission-control.mjs) and the  *)
(* automatic attempts it admits.  Every gate operation and every Writer    *)
(* operation runs under one kernel lock, so each is one action; between    *)
(* two of them anything else may happen: the runner's own journal writes,  *)
(* the worker process, a controller crash, a second lifecycle operation.   *)
(*                                                                         *)
(* Here the gate has no disciplined caller: any root command may come at   *)
(* any time for the operation that holds the gate.  What is true in this   *)
(* module is what the gate guarantees alone.  LifecycleOperation restricts *)
(* the callers to the deployment coordinator and gets more.                *)
(*                                                                         *)
(* An attempt is modelled at the grain of its receipts: a Writer operation *)
(* is one action with every outcome a failure inside it can leave.  The    *)
(* calls inside the operations are the subject of PublicationBroker.       *)
(***************************************************************************)
EXTENDS AttemptRecords, Naturals

CONSTANTS Operations,   \* lifecycle operation UUIDs
          Targets,      \* exact source revisions an operation may select
          Snapshots,    \* service activity snapshots a backend may observe
          MaxFaults     \* bound: failures the environment injects in a behaviour

ASSUME SlotsAssumption == NoSlot \notin Slots
ASSUME FaultsAssumption == MaxFaults \in Nat

VARIABLES gate,      \* admission-v1.json
          rec,       \* Writer record of each run
          jrn,       \* runner journal of each run
          pc,        \* where the controller process of each run is
          worker,    \* the worker process of each run
          launches,  \* how often a worker was started for the run
          faults     \* failures injected so far

gateVars == <<gate>>
runVars  == <<rec, jrn, pc, worker, launches>>
vars     == <<gate, rec, jrn, pc, worker, launches, faults>>

Phases == {"open", "quiesced", "drained", "applying", "verified", "recovery-required"}

NoOperation == "no operation"
NoTarget    == "no target"
NoSnapshot  == "no snapshot"

ControllerSteps ==
  {"off", "begin", "resume", "preflight", "prepare", "launch", "await", "collect",
   "publish", "finish", "saveOutcome", "fail", "terminal", "saveTerminal",
   "handoff", "release", "recover", "recoverFinish", "recoverSave", "recoverHandoff"}

GateStates ==
  [phase    : Phases,
   op       : Operations \cup {NoOperation},
   target   : Targets \cup {NoTarget},
   previous : Snapshots \cup {NoSnapshot},      \* previousActive
   verified : Targets \cup {NoTarget}]          \* verifiedRevision

OpenGate == [phase |-> "open", op |-> NoOperation, target |-> NoTarget,
             previous |-> NoSnapshot, verified |-> NoTarget]

Init ==
  /\ gate = OpenGate
  /\ rec = [r \in Runs |-> NoRecord]
  /\ jrn = [r \in Runs |-> NoJournal]
  /\ pc = [r \in Runs |-> "off"]
  /\ worker = [r \in Runs |-> "none"]
  /\ launches = [r \in Runs |-> 0]
  /\ faults = 0

(* A failure of the environment: a lost response, an unavailable API, a    *)
(* killed process.  Bounded so that TLC's instances are finite.             *)
Fault == faults < MaxFaults /\ faults' = faults + 1

Active  == {r \in Runs : CountsActive(rec[r], jrn[r])}
Unknown == {r \in Runs : CountsUnknown(rec[r], jrn[r])}

(* No attempt is active or unknown: the condition of drained, resume and   *)
(* recovery-target.                                                        *)
InventoryEmpty == Active = {} /\ Unknown = {}

SlotComplete(s) == \A r \in Runs : ~Occupies(rec[r], jrn[r], s)

-----------------------------------------------------------------------------
(* Gate operations *)

Bound(o) == gate.phase # "open" /\ gate.op = o

(* quiesce: closes an open gate; a repetition by its owner changes nothing. *)
Quiesce(o, t) ==
  /\ gate.phase = "open"
  /\ gate' = [gate EXCEPT !.phase = "quiesced", !.op = o, !.target = t, !.previous = NoSnapshot]
  /\ UNCHANGED <<runVars, faults>>

(* drained: one snapshot of the drain poll that finds nothing pending.      *)
Drained(o) ==
  /\ Bound(o)
  /\ gate.phase \in {"quiesced", "drained"}
  /\ InventoryEmpty
  /\ gate' = [gate EXCEPT !.phase = "drained"]
  /\ UNCHANGED <<runVars, faults>>

MarkApplying(o) ==
  /\ Bound(o)
  /\ gate.phase \in {"drained", "recovery-required"}
  /\ gate' = [gate EXCEPT !.phase = "applying", !.verified = NoTarget]
  /\ UNCHANGED <<runVars, faults>>

(* phase verified --revision R: R must be the bound target.                 *)
MarkVerified(o, revision) ==
  /\ Bound(o)
  /\ revision = gate.target
  /\ gate.phase \in {"applying", "drained"}
  /\ gate' = [gate EXCEPT !.phase = "verified", !.verified = revision]
  /\ UNCHANGED <<runVars, faults>>

MarkRecoveryRequired(o) ==
  /\ Bound(o)
  /\ gate' = [gate EXCEPT !.phase = "recovery-required", !.verified = NoTarget]
  /\ UNCHANGED <<runVars, faults>>

(* Mutant: every snapshot replaces the one before.                         *)
SnapshotLatest(o, services) ==
  /\ Bound(o)
  /\ gate.phase = "applying"
  /\ gate' = [gate EXCEPT !.previous = services]
  /\ UNCHANGED <<runVars, faults>>

(* snapshot: the first complete activity snapshot of the operation is kept; *)
(* later observations return it.                                           *)
Snapshot(o, services) ==
  /\ Bound(o)
  /\ gate.phase = "applying"
  /\ gate.previous = NoSnapshot
  /\ gate' = [gate EXCEPT !.previous = services]
  /\ UNCHANGED <<runVars, faults>>

RecoveryTarget(o, t) ==
  /\ Bound(o)
  /\ gate.phase = "recovery-required"
  /\ InventoryEmpty
  /\ gate' = [gate EXCEPT !.target = t]
  /\ UNCHANGED <<runVars, faults>>

Resume(o) ==
  /\ Bound(o)
  /\ gate.phase = "verified"
  /\ InventoryEmpty
  /\ gate' = OpenGate
  /\ UNCHANGED <<runVars, faults>>

(* The abort of a prepared installation writes the old open gate back while *)
(* the operation has recorded nothing: no service intent, no verification.  *)
RestoreOpen(o) ==
  /\ Bound(o)
  /\ gate.phase \in {"quiesced", "drained", "applying"}
  /\ gate.previous = NoSnapshot
  /\ gate.verified = NoTarget
  /\ gate' = OpenGate
  /\ UNCHANGED <<runVars, faults>>

GateOperation ==
  \E o \in Operations :
    \/ \E t \in Targets : Quiesce(o, t) \/ MarkVerified(o, t) \/ RecoveryTarget(o, t)
    \/ Drained(o)
    \/ RestoreOpen(o)
    \/ MarkApplying(o)
    \/ MarkRecoveryRequired(o)
    \/ \E services \in Snapshots : Snapshot(o, services)
    \/ Resume(o)

-----------------------------------------------------------------------------
(* The attempt: admission by the Writer *)

At(r, step) == pc[r] = step
Goto(r, step) == pc' = [pc EXCEPT ![r] = step]
KeepWorker == UNCHANGED <<worker, launches>>

(* admit of a new run: the gate is open and nothing occupies the slot.  The *)
(* ready command is consumed after the record is durable.                  *)
Admissible(r, s) ==
  /\ rec[r].life = "absent"
  /\ At(r, "off")
  /\ gate.phase = "open"
  /\ SlotComplete(s)

Reserved(s) == [NoRecord EXCEPT !.life = "active", !.slot = s]

Admit(r, s) ==
  /\ Admissible(r, s)
  /\ rec' = [rec EXCEPT ![r] = [Reserved(s) EXCEPT !.ready = TRUE]]
  /\ Goto(r, "begin")
  /\ KeepWorker /\ UNCHANGED <<gate, jrn, faults>>

(* A refused authority is recorded with its BLOCKED Outcome, never launched. *)
Refused(s) == [NoRecord EXCEPT !.life = "blocked", !.slot = s]

AdmitBlocked(r, s) ==
  /\ Admissible(r, s)
  /\ rec' = [rec EXCEPT ![r] = [Refused(s) EXCEPT !.outcome = "BLOCKED"]]
  /\ KeepWorker /\ UNCHANGED <<gate, jrn, pc, faults>>

(* What a BLOCKED Outcome that is not published may leave behind: its       *)
(* comment, or before it the Draft mutation of an admitted attempt's PR.    *)
Unsent(life) ==
  {{}, {"note"}} \cup (IF life = "blocked" THEN {} ELSE {{"lifecycle"}})

(* The Writer stops between the refusal's record and its Outcome.           *)
AdmitBlockedInterrupted(r, s) ==
  /\ Admissible(r, s)
  /\ Fault
  /\ \E left \in Unsent("blocked") :
       rec' = [rec EXCEPT ![r] = [Refused(s) EXCEPT !.pending = left]]
  /\ KeepWorker /\ UNCHANGED <<gate, jrn, pc>>

(* The Writer stops after the reservation and before the consumption.       *)
AdmitInterrupted(r, s) ==
  /\ Admissible(r, s)
  /\ Fault
  /\ rec' = [rec EXCEPT ![r] = Reserved(s)]
  /\ KeepWorker /\ UNCHANGED <<gate, jrn, pc>>

(* readyConsumptionFailure: the command was replaced or its DELETE is       *)
(* uncertain; the reservation is released without a launch.                *)
Released(x, published, left) ==
  [x EXCEPT !.life = "complete", !.outcome = IF published THEN "BLOCKED" ELSE @,
            !.pending = IF published THEN {} ELSE left]

AdmitUnconsumed(r, s) ==
  /\ Admissible(r, s)
  /\ Fault
  /\ \E published \in BOOLEAN, left \in Unsent("complete") :
       rec' = [rec EXCEPT ![r] = Released(Reserved(s), published, left)]
  /\ KeepWorker /\ UNCHANGED <<gate, jrn, pc>>

(* admit of a known run: a re-run of the same workflow run.  The gate is    *)
(* not asked again.                                                        *)
Replay(r) ==
  /\ At(r, "off")
  /\ rec[r].life \in {"active", "complete"}
  /\ rec[r].ready \/ rec[r].life = "active"
  /\ rec' = [rec EXCEPT ![r].ready = TRUE]
  /\ Goto(r, "resume")
  /\ KeepWorker /\ UNCHANGED <<gate, jrn, faults>>

(* The Draft mutation that precedes an Outcome is resolved with it, unless  *)
(* a newer Step owns the branch: then the intent is left as it is.          *)
DraftIntent(superseded) == IF superseded THEN {} ELSE {"lifecycle"}

(* terminalOutcome: an uncertain comment or PR creation is adopted when it  *)
(* is found on GitHub under this attempt's marker.                         *)
Blocked(x, superseded) ==
  [x EXCEPT !.outcome = "BLOCKED", !.pending = @ \ ({"note"} \cup DraftIntent(superseded))]

(* A re-run of a refused run, or of one whose ready command was lost,       *)
(* publishes the BLOCKED Outcome it still owes.                            *)
OwesRefusal(r) ==
  /\ At(r, "off")
  /\ \/ rec[r].life = "blocked"
     \/ rec[r].life = "complete" /\ ~rec[r].ready
  /\ rec[r].outcome = "none"

ReplayRefused(r) ==
  /\ OwesRefusal(r)
  /\ \E superseded \in BOOLEAN : rec' = [rec EXCEPT ![r] = Blocked(@, superseded)]
  /\ KeepWorker /\ UNCHANGED <<gate, jrn, pc, faults>>

ReplayRefusedInterrupted(r) ==
  /\ OwesRefusal(r)
  /\ Fault
  /\ \E left \in Unsent(rec[r].life) : rec' = [rec EXCEPT ![r].pending = @ \cup left]
  /\ KeepWorker /\ UNCHANGED <<gate, jrn, pc>>

ReplayUnconsumed(r) ==
  /\ At(r, "off")
  /\ rec[r].life = "active"
  /\ ~rec[r].ready
  /\ Fault
  /\ \E published \in BOOLEAN, left \in Unsent("complete") :
       rec' = [rec EXCEPT ![r] = Released(@, published, left)]
  /\ KeepWorker /\ UNCHANGED <<gate, jrn, pc>>

-----------------------------------------------------------------------------
(* The attempt: controller, runner journal and worker (attempt.mjs) *)

(* A fresh admission creates its journal; a resumed one must find it.       *)
Begin(r) ==
  /\ At(r, "begin")
  /\ jrn' = [jrn EXCEPT ![r].exec = "null"]
  /\ Goto(r, "preflight")
  /\ KeepWorker /\ UNCHANGED <<gate, rec, faults>>

MissingJournal(r) ==
  /\ At(r, "resume")
  /\ jrn[r].exec = "absent"
  /\ Goto(r, "release")
  /\ KeepWorker /\ UNCHANGED <<gate, rec, jrn, faults>>

(* A saved Outcome is only replayed; a success goes on to its handoff.      *)
ReplayOutcome(r) ==
  /\ At(r, "resume")
  /\ jrn[r].outcome # "none"
  /\ Goto(r, IF jrn[r].outcome = "IMPLEMENTED" /\ ~jrn[r].diagnostic THEN "handoff" ELSE "release")
  /\ KeepWorker /\ UNCHANGED <<gate, rec, jrn, faults>>

Continue(r) ==
  /\ At(r, "resume")
  /\ jrn[r].exec # "absent"
  /\ jrn[r].outcome = "none"
  /\ Goto(r, "preflight")
  /\ KeepWorker /\ UNCHANGED <<gate, rec, jrn, faults>>

(* Execution that was reserved and did not return is never repeated.        *)
ReexecutionRefused(r) ==
  /\ At(r, "preflight")
  /\ jrn[r].exec = "reserved"
  /\ Goto(r, "fail")
  /\ KeepWorker /\ UNCHANGED <<gate, rec, jrn, faults>>

(* The Writer finished before the runner saved its receipt.                 *)
RestoreOutcome(r) ==
  /\ At(r, "preflight")
  /\ jrn[r].exec # "reserved"
  /\ rec[r].outcome = "IMPLEMENTED"
  /\ jrn' = [jrn EXCEPT ![r].outcome = "IMPLEMENTED", ![r].diagnostic = FALSE]
  /\ Goto(r, "handoff")
  /\ KeepWorker /\ UNCHANGED <<gate, rec, faults>>

(* Mutant: an execution without a result is taken for one not yet started. *)
PreflightRelaunches(r) ==
  /\ At(r, "preflight")
  /\ rec[r].outcome # "IMPLEMENTED"
  /\ Goto(r, IF jrn[r].exec \in {"null", "reserved"} THEN "prepare" ELSE "collect")
  /\ KeepWorker /\ UNCHANGED <<gate, rec, jrn, faults>>

PreflightPassed(r) ==
  /\ At(r, "preflight")
  /\ jrn[r].exec # "reserved"
  /\ rec[r].outcome # "IMPLEMENTED"
  /\ Goto(r, IF jrn[r].exec = "null" THEN "prepare" ELSE "collect")
  /\ KeepWorker /\ UNCHANGED <<gate, rec, jrn, faults>>

(* Live authority, head or Draft state no longer allows the attempt.        *)
PreflightRejected(r) ==
  /\ At(r, "preflight")
  /\ jrn[r].exec # "reserved"
  /\ Fault
  /\ \E left \in SUBSET {"lifecycle"} : rec' = [rec EXCEPT ![r].pending = @ \cup left]
  /\ Goto(r, "fail")
  /\ KeepWorker /\ UNCHANGED <<gate, jrn>>

Prepare(r) ==
  /\ At(r, "prepare")
  /\ jrn' = [jrn EXCEPT ![r].exec = "reserved"]
  /\ Goto(r, "launch")
  /\ KeepWorker /\ UNCHANGED <<gate, rec, faults>>

StartWorker(r) ==
  /\ At(r, "launch")
  /\ worker' = [worker EXCEPT ![r] = "running"]
  /\ launches' = [launches EXCEPT ![r] = @ + 1]
  /\ Goto(r, "await")
  /\ UNCHANGED <<gate, rec, jrn, faults>>

(* The dispatcher proves that no child was started.                         *)
DispatchRefused(r) ==
  /\ At(r, "launch")
  /\ Fault
  /\ jrn' = [jrn EXCEPT ![r].exec = "refused"]
  /\ Goto(r, "collect")
  /\ KeepWorker /\ UNCHANGED <<gate, rec>>

(* The worker is reaped; its semantic result is success or not.             *)
WorkerReturns(r) ==
  /\ At(r, "await")
  /\ worker' = [worker EXCEPT ![r] = "gone"]
  /\ \E success \in BOOLEAN :
       jrn' = [jrn EXCEPT ![r].exec = "reaped", ![r].success = success]
  /\ Goto(r, "collect")
  /\ UNCHANGED <<gate, rec, launches, faults>>

(* The dispatch returns without proof: the worker may still be running.     *)
ReturnUnproven(r) ==
  /\ At(r, "await")
  /\ Fault
  /\ jrn' = [jrn EXCEPT ![r].exec = "unproven"]
  /\ Goto(r, "collect")
  /\ KeepWorker /\ UNCHANGED <<gate, rec>>

(* A worker nobody waits for ends on its own.                              *)
WorkerExits(r) ==
  /\ worker[r] = "running"
  /\ ~At(r, "await")
  /\ worker' = [worker EXCEPT ![r] = "gone"]
  /\ UNCHANGED <<gate, rec, jrn, pc, launches, faults>>

(* Collection needs a contained child, no Outcome and no earlier failure.   *)
Collectable(r) ==
  /\ ProvenExecution(jrn[r])
  /\ rec[r].outcome = "none"
  /\ ~jrn[r].diagnostic
  /\ jrn[r].outcome = "none"

Collect(r) ==
  /\ At(r, "collect")
  /\ Collectable(r)
  /\ jrn' = [jrn EXCEPT ![r].collected = TRUE]
  /\ Goto(r, "publish")
  /\ KeepWorker /\ UNCHANGED <<gate, rec, faults>>

CollectRejected(r) ==
  /\ At(r, "collect")
  /\ \/ ~Collectable(r) /\ UNCHANGED faults
     \/ Collectable(r) /\ Fault
  /\ Goto(r, "fail")
  /\ KeepWorker /\ UNCHANGED <<gate, rec, jrn>>

(* publish-progress: the intent is durable before the push.  A pending one  *)
(* is only ever resolved by observing its head on the branch.              *)
Publish(r) ==
  /\ At(r, "publish")
  /\ rec' = [rec EXCEPT ![r].pending = @ \ {"push", "note"}]
  /\ Goto(r, IF jrn[r].success THEN "finish" ELSE "fail")
  /\ KeepWorker /\ UNCHANGED <<gate, jrn, faults>>

PublishUncertain(r) ==
  /\ At(r, "publish")
  /\ Fault
  /\ \/ rec' = [rec EXCEPT ![r].pending = @ \cup {"push"}]
     \/ rec' = [rec EXCEPT ![r].pending = (@ \ {"push"}) \cup {"note"}]
  /\ Goto(r, "fail")
  /\ KeepWorker /\ UNCHANGED <<gate, jrn>>

(* finish, finish-no-change: the single success Outcome.                    *)
Implemented(x, superseded) ==
  [x EXCEPT !.outcome = "IMPLEMENTED", !.handoff = "open",
            !.pending = @ \ ({"success", "note"} \cup DraftIntent(superseded))]

Finish(r) ==
  /\ At(r, "finish")
  /\ \E superseded \in BOOLEAN : rec' = [rec EXCEPT ![r] = Implemented(@, superseded)]
  /\ Goto(r, "saveOutcome")
  /\ KeepWorker /\ UNCHANGED <<gate, jrn, faults>>

(* finish stops after some of its reservations (the PR, Draft, the success  *)
(* body, its comment), or only its answer is lost.                         *)
Unfinished == {{}, {"note"}, {"lifecycle"}, {"success"}, {"success", "note"}}

FinishInterrupted(r) ==
  /\ At(r, "finish")
  /\ Fault
  /\ \/ \E left \in Unfinished : rec' = [rec EXCEPT ![r].pending = @ \cup left]
     \/ \E superseded \in BOOLEAN : rec' = [rec EXCEPT ![r] = Implemented(@, superseded)]
  /\ Goto(r, "fail")
  /\ KeepWorker /\ UNCHANGED <<gate, jrn>>

SaveOutcome(r) ==
  /\ At(r, "saveOutcome")
  /\ jrn' = [jrn EXCEPT ![r].outcome = "IMPLEMENTED", ![r].diagnostic = FALSE]
  /\ Goto(r, "handoff")
  /\ KeepWorker /\ UNCHANGED <<gate, rec, faults>>

(* The catch path: a durable diagnostic, then one terminal Outcome.         *)
Fail(r) ==
  /\ At(r, "fail")
  /\ jrn' = [jrn EXCEPT ![r].diagnostic = TRUE]
  /\ Goto(r, "terminal")
  /\ KeepWorker /\ UNCHANGED <<gate, rec, faults>>

(* terminal-outcome returns an existing Outcome and never overrides a       *)
(* pending success.                                                        *)
TerminalOutcome(r) ==
  /\ At(r, "terminal")
  /\ rec[r].outcome = "none" => "success" \notin rec[r].pending
  /\ \E superseded \in BOOLEAN :
       rec' = [rec EXCEPT ![r] = IF @.outcome = "none" THEN Blocked(@, superseded) ELSE @]
  /\ Goto(r, "saveTerminal")
  /\ KeepWorker /\ UNCHANGED <<gate, jrn, faults>>

TerminalRefused(r) ==
  /\ At(r, "terminal")
  /\ rec[r].outcome = "none"
  /\ rec[r].pending \cap {"success", "note"} # {}
  /\ Goto(r, "release")
  /\ KeepWorker /\ UNCHANGED <<gate, rec, jrn, faults>>

TerminalInterrupted(r) ==
  /\ At(r, "terminal")
  /\ Fault
  /\ \/ UNCHANGED rec
     \/ /\ rec[r].outcome = "none"
        /\ "success" \notin rec[r].pending
        /\ \/ \E left \in Unsent("active") : rec' = [rec EXCEPT ![r].pending = @ \cup left]
           \/ \E superseded \in BOOLEAN : rec' = [rec EXCEPT ![r] = Blocked(@, superseded)]
  /\ Goto(r, "release")
  /\ KeepWorker /\ UNCHANGED <<gate, jrn>>

SaveTerminal(r) ==
  /\ At(r, "saveTerminal")
  /\ jrn' = [jrn EXCEPT ![r].outcome = rec[r].outcome]
  /\ Goto(r, "release")
  /\ KeepWorker /\ UNCHANGED <<gate, rec, faults>>

-----------------------------------------------------------------------------
(* Completion: Ready, and the end of the reservation *)

(* complete-handoff reads the journal itself: a reaped successful worker,   *)
(* no diagnostic, the same Outcome on both sides and no pending intent.     *)
HandoffProven(r) ==
  /\ jrn[r].exec = "reaped"
  /\ jrn[r].success
  /\ ~jrn[r].diagnostic
  /\ rec[r].outcome = "IMPLEMENTED"
  /\ jrn[r].outcome = "IMPLEMENTED"
  /\ rec[r].pending \cap {"push", "note"} = {}
  /\ rec[r].recovery = "none"

InHandoff(r) == pc[r] \in {"handoff", "recoverHandoff"}
AfterHandoff(r) == IF At(r, "handoff") THEN "release" ELSE "off"

(* admission.complete, then Ready unless a newer Step owns the branch.      *)
HandedOff(x, superseded) ==
  [x EXCEPT !.life = "complete", !.handoff = "done", !.pending = @ \ DraftIntent(superseded)]

Handoff(r) ==
  /\ InHandoff(r)
  /\ \/ rec[r].handoff = "done" /\ UNCHANGED rec
     \/ /\ rec[r].handoff # "done"
        /\ HandoffProven(r)
        /\ \E superseded \in BOOLEAN : rec' = [rec EXCEPT ![r] = HandedOff(@, superseded)]
  /\ Goto(r, AfterHandoff(r))
  /\ KeepWorker /\ UNCHANGED <<gate, jrn, faults>>

HandoffRefused(r) ==
  /\ InHandoff(r)
  /\ ~HandoffProven(r)
  /\ rec[r].handoff # "done"
  /\ Goto(r, AfterHandoff(r))
  /\ KeepWorker /\ UNCHANGED <<gate, rec, jrn, faults>>

(* admission.complete is durable before the Ready mutation that then fails. *)
HandoffInterrupted(r) ==
  /\ InHandoff(r)
  /\ HandoffProven(r)
  /\ rec[r].handoff = "open"
  /\ Fault
  /\ \E left \in SUBSET {"lifecycle"} :
       rec' = [rec EXCEPT ![r].life = "complete", ![r].pending = @ \cup left]
  /\ Goto(r, AfterHandoff(r))
  /\ KeepWorker /\ UNCHANGED <<gate, jrn>>

(* complete-execution, the last call of every controller: the reservation   *)
(* ends only on the containment evidence root reads itself.                *)
Release(r) ==
  /\ At(r, "release")
  /\ \/ Contained(rec[r], jrn[r]) /\ rec' = [rec EXCEPT ![r].life = "complete"]
     \/ ~Contained(rec[r], jrn[r]) /\ UNCHANGED rec
  /\ Goto(r, "off")
  /\ KeepWorker /\ UNCHANGED <<gate, jrn, faults>>

(* The controller process dies anywhere; its worker does not die with it.   *)
Crash(r) ==
  /\ ~At(r, "off")
  /\ Fault
  /\ Goto(r, "off")
  /\ KeepWorker /\ UNCHANGED <<gate, rec, jrn>>

-----------------------------------------------------------------------------
(* Owner-authorised recovery.  Neither route asks the gate. *)

(* recover-attempt-publication: one more push of the same candidate.        *)
Recoverable(r) ==
  /\ rec[r].recovery = "none"
  /\ jrn[r].exec = "reaped"
  /\ \/ "push" \in rec[r].pending /\ rec[r].outcome # "IMPLEMENTED"
     \/ rec[r].republished

BeginRecovery(r) ==
  /\ At(r, "off")
  /\ Recoverable(r)
  /\ Goto(r, "recover")
  /\ KeepWorker /\ UNCHANGED <<gate, rec, jrn, faults>>

RecoverPush(r) ==
  /\ At(r, "recover")
  /\ rec' = [rec EXCEPT ![r].pending = @ \ {"push"}, ![r].republished = TRUE]
  /\ Goto(r, IF jrn[r].outcome = "IMPLEMENTED" THEN "recoverHandoff" ELSE "recoverFinish")
  /\ KeepWorker /\ UNCHANGED <<gate, jrn, faults>>

RecoverFinish(r) ==
  /\ At(r, "recoverFinish")
  /\ jrn[r].success
  /\ \E superseded \in BOOLEAN :
       rec' = [rec EXCEPT ![r] = IF @.outcome = "IMPLEMENTED" THEN @ ELSE Implemented(@, superseded)]
  /\ Goto(r, "recoverSave")
  /\ KeepWorker /\ UNCHANGED <<gate, jrn, faults>>

(* The new collection receipt carries no preservation proof.                *)
RecoverSave(r) ==
  /\ At(r, "recoverSave")
  /\ jrn' = [jrn EXCEPT ![r].outcome = "IMPLEMENTED", ![r].diagnostic = FALSE, ![r].collected = FALSE]
  /\ Goto(r, "recoverHandoff")
  /\ KeepWorker /\ UNCHANGED <<gate, rec, faults>>

RecoverPushFails(r) ==
  /\ At(r, "recover")
  /\ Fault
  /\ jrn' = [jrn EXCEPT ![r].diagnostic = TRUE]
  /\ Goto(r, "off")
  /\ KeepWorker /\ UNCHANGED <<gate, rec>>

RecoverFinishFails(r) ==
  /\ At(r, "recoverFinish")
  /\ \/ ~jrn[r].success /\ UNCHANGED <<rec, faults>>
     \/ jrn[r].success /\ Fault /\ UNCHANGED rec
     \/ /\ jrn[r].success /\ Fault
        /\ rec[r].outcome # "IMPLEMENTED"
        /\ \E left \in Unfinished : rec' = [rec EXCEPT ![r].pending = @ \cup left]
  /\ jrn' = [jrn EXCEPT ![r].diagnostic = TRUE, ![r].collected = FALSE]
  /\ Goto(r, "off")
  /\ KeepWorker /\ UNCHANGED gate

(* recover-prepublication: a successful worker whose collection failed.     *)
Prepublication(r) ==
  /\ At(r, "off")
  /\ rec[r].life = "complete"
  /\ rec[r].outcome = "BLOCKED"
  /\ ~rec[r].republished
  /\ rec[r].pending \cap {"push", "success"} = {}
  /\ rec[r].recovery = "none" => rec[r].pending = {}
  /\ jrn[r].exec = "reaped" /\ jrn[r].success
  /\ ~jrn[r].collected
  /\ jrn[r].outcome = "BLOCKED"

RecoverPrepublication(r) ==
  /\ Prepublication(r)
  /\ rec[r].recovery \in {"none", "published"}
  /\ rec' = [rec EXCEPT ![r].recovery = "complete", ![r].pending = {}]
  /\ KeepWorker /\ UNCHANGED <<gate, jrn, pc, faults>>

(* Interrupted: the push stays unproven, or the rest of the handoff is open. *)
PrepublicationInterrupted(r) ==
  /\ Prepublication(r)
  /\ rec[r].recovery \in {"none", "published"}
  /\ Fault
  /\ \/ /\ rec[r].recovery = "none"
        /\ rec' = [rec EXCEPT ![r].recovery = "reserved"]
     \/ \E left \in SUBSET {"note", "lifecycle"} :
          rec' = [rec EXCEPT ![r].recovery = "published", ![r].pending = left]
  /\ KeepWorker /\ UNCHANGED <<gate, jrn, pc>>

-----------------------------------------------------------------------------
Admission(r) ==
  \/ \E s \in Slots : \/ Admit(r, s) \/ AdmitBlocked(r, s)
                      \/ AdmitInterrupted(r, s) \/ AdmitUnconsumed(r, s)
                      \/ AdmitBlockedInterrupted(r, s)
  \/ Replay(r)
  \/ ReplayRefused(r) \/ ReplayRefusedInterrupted(r)
  \/ ReplayUnconsumed(r)

(* The steps the controller process takes by itself.                        *)
Controller(r) ==
  \/ Begin(r) \/ MissingJournal(r) \/ ReplayOutcome(r) \/ Continue(r)
  \/ ReexecutionRefused(r) \/ RestoreOutcome(r) \/ PreflightPassed(r)
  \/ Prepare(r) \/ StartWorker(r) \/ WorkerReturns(r)
  \/ Collect(r) \/ CollectRejected(r)
  \/ Publish(r) \/ Finish(r) \/ SaveOutcome(r)
  \/ Fail(r) \/ TerminalOutcome(r) \/ TerminalRefused(r) \/ SaveTerminal(r)
  \/ Handoff(r) \/ HandoffRefused(r) \/ Release(r)

Failure(r) ==
  \/ PreflightRejected(r) \/ DispatchRefused(r) \/ ReturnUnproven(r)
  \/ PublishUncertain(r) \/ FinishInterrupted(r) \/ TerminalInterrupted(r)
  \/ HandoffInterrupted(r) \/ Crash(r) \/ PrepublicationInterrupted(r)

Recovery(r) ==
  \/ BeginRecovery(r) \/ RecoverPush(r) \/ RecoverFinish(r) \/ RecoverSave(r)
  \/ RecoverPushFails(r) \/ RecoverFinishFails(r) \/ RecoverPrepublication(r)

Attempt(r) == Admission(r) \/ Controller(r) \/ Failure(r) \/ Recovery(r) \/ WorkerExits(r)

Next == GateOperation \/ \E r \in Runs : Attempt(r)

Spec == Init /\ [][Next]_vars

-----------------------------------------------------------------------------
(* Properties *)

(* Every variable keeps the shape the protected files and processes have.   *)
TypeOK ==
  /\ gate \in GateStates
  /\ rec \in [Runs -> WriterRecords]
  /\ jrn \in [Runs -> Journals]
  /\ pc \in [Runs -> ControllerSteps]
  /\ worker \in [Runs -> {"none", "running", "gone"}]
  /\ launches \in [Runs -> Nat]
  /\ faults \in 0 .. MaxFaults

Running(r) == worker[r] = "running"

(* Two workers never run on one slot: the broker admits on the evidence of  *)
(* another run's Writer record and journal, across crashes of controllers   *)
(* whose worker lives on, re-runs and recoveries (assertSlotComplete).      *)
SlotExclusive ==
  \A q, r \in Runs : q # r /\ Running(q) /\ Running(r) => rec[q].slot # rec[r].slot

(* The paid execution of a run happens at most once, whatever controllers   *)
(* crash, are re-run or lose answers (the reservation of attempt.mjs).      *)
LaunchedOnce == \A r \in Runs : launches[r] <= 1

(* A drained gate has no worker left, not even one whose controller died or *)
(* whose containment was never proven (drained, currentInventory).          *)
DrainedQuiet == gate.phase = "drained" => \A r \in Runs : ~Running(r)

(* A reservation ends only with the worker: complete records, which a drain *)
(* and a slot check no longer question, have no process (admission.complete).*)
CompleteContained == \A r \in Runs : rec[r].life = "complete" => ~Running(r)

(* Admission reopens only through the verified revision of the operation's  *)
(* own target, with no worker, no pending effect and no unfinished handoff, *)
(* or untouched, before the operation recorded anything; no crash, retry or *)
(* other operation opens it (resume, and the abort of a prepared install).  *)
ReopenedProven ==
  [][gate.phase # "open" /\ gate'.phase = "open" =>
       \/ /\ gate.phase = "verified" /\ gate.verified = gate.target
          /\ \A r \in Runs : ~Running(r) /\ rec'[r].handoff # "open"
       \/ gate.previous = NoSnapshot /\ gate.verified = NoTarget]_vars

(* The service intent of an operation is the first one observed and outlives *)
(* every failure, recovery target and repeated snapshot until the gate      *)
(* reopens (snapshot, recoveryTarget).                                     *)
IntentRetained ==
  [][gate.previous # NoSnapshot /\ gate'.phase # "open" => gate'.previous = gate.previous]_vars

(* A target changes under an operation only while it is in declared         *)
(* recovery with nothing running; an applying or verified operation keeps   *)
(* the target it was drained for (quiesce, recoveryTarget).                *)
TargetBound ==
  [][gate.phase # "open" /\ gate'.phase # "open" /\ gate'.target # gate.target =>
       /\ gate.phase = "recovery-required"
       /\ gate'.op = gate.op
       /\ \A r \in Runs : ~Running(r)]_vars

(* The paid call belongs to an admission that is still open: on a closed    *)
(* gate only an active record can start a worker, whatever is replayed or   *)
(* recovered, so draining the active ones is enough (assertOpen, admit).    *)
NoLaunchAfterDrain ==
  [][gate.phase # "open" /\ (\A r \in Runs : rec[r].life # "active") => launches' = launches]_vars

(* Draining accepts a run only with every effect it reserved accounted for: *)
(* no push, comment, PR, lifecycle mutation or handoff is left open, and a   *)
(* success Outcome only where a recovery replaces a BLOCKED one             *)
(* (currentInventory).                                                     *)
DrainedResolved ==
  [][gate.phase = "quiesced" /\ gate'.phase = "drained" =>
       \A r \in Runs : rec[r].life # "blocked" =>
         /\ rec[r].pending \subseteq {"success"}
         /\ "success" \in rec[r].pending => rec[r].outcome = "BLOCKED" /\ rec[r].republished
         /\ rec[r].handoff # "open"]_vars

(* What attempt.mjs says of a durable terminal receipt: it ends the          *)
(* attempt.  The code asks the journal only, so a re-run after a controller *)
(* died between the Writer's Outcome and its own receipt starts the worker.  *)
TerminalEndsAttempt ==
  [][\A r \in Runs : rec[r].outcome # "none" => launches'[r] = launches[r]]_vars

(* What attempt.mjs says of a Writer that finished before the runner saved  *)
(* its receipt: that exact receipt is restored.  A lost answer takes the     *)
(* catch path instead and the handoff is refused for ever after.            *)
RestoredExactly ==
  \A r \in Runs : rec[r].outcome = "IMPLEMENTED" /\ jrn[r].outcome = "IMPLEMENTED" => ~jrn[r].diagnostic

-----------------------------------------------------------------------------
(* The inductive invariant behind the properties above *)

(* The controller holds the attempt's execution: nothing has ended it yet.  *)
Executing(r) ==
  pc[r] \in {"begin", "preflight", "prepare", "launch", "await", "collect", "publish",
            "finish", "saveOutcome", "fail", "terminal", "saveTerminal"}

Recovering(r) == pc[r] \in {"recover", "recoverFinish", "recoverSave", "recoverHandoff"}

(* The run holds the right to a worker: it has one or may still start one.  *)
MayRun(r) ==
  /\ rec[r].life = "active"
  /\ \/ jrn[r].exec \in {"reserved", "unproven"}
     \/ jrn[r].exec \in {"absent", "null"} /\ jrn[r].outcome = "none"

(* The journal tells where the worker can be.                              *)
JournalTracksWorker(r) ==
  /\ worker[r] = "running" => jrn[r].exec \in {"reserved", "unproven"} /\ rec[r].life = "active"
  /\ jrn[r].exec \in {"absent", "null"} => launches[r] = 0
  /\ launches[r] <= 1
  /\ pc[r] = "launch" => launches[r] = 0 /\ worker[r] # "running"

(* The controller's place agrees with its journal.                         *)
JournalTracksController(r) ==
  /\ pc[r] = "begin" => jrn[r].exec = "absent"
  /\ pc[r] = "prepare" => jrn[r].exec = "null"
  /\ pc[r] \in {"launch", "await"} => jrn[r].exec = "reserved"
  /\ Recovering(r) => jrn[r].exec = "reaped"
  /\ Executing(r) => rec[r].life = "active" /\ jrn[r].outcome = "none"
  /\ pc[r] \in {"publish", "finish"} => rec[r].outcome = "none"
  /\ pc[r] \in {"recoverFinish", "recoverSave"} => rec[r].republished

(* Before the ready command is consumed the attempt has done nothing.       *)
NothingBeforeReady(r) ==
  /\ ~rec[r].ready => /\ pc[r] = "off"
                      /\ jrn[r].exec = "absent"
                      /\ jrn[r].outcome = "none"
                      /\ rec[r].handoff = "unset"
                      /\ "success" \notin rec[r].pending
  /\ rec[r].ready => rec[r].life \in {"active", "complete"}
  /\ rec[r].life = "absent" => rec[r] = NoRecord

(* The Writer's own receipts agree with each other and with the journal.    *)
ReceiptsAgree(r) ==
  /\ rec[r].life = "complete" /\ jrn[r].exec # "absent" =>
       jrn[r].outcome # "none" /\ jrn[r].exec \notin {"reserved", "unproven"}
  /\ rec[r].handoff = "done" => rec[r].life = "complete"
  /\ rec[r].handoff # "unset" => rec[r].outcome = "IMPLEMENTED"
  /\ rec[r].outcome # "none" /\ "success" \in rec[r].pending =>
       rec[r].outcome = "BLOCKED" /\ rec[r].republished
  /\ rec[r].recovery # "none" => /\ rec[r].life = "complete"
                                 /\ rec[r].outcome = "BLOCKED"
                                 /\ "push" \notin rec[r].pending
                                 /\ ~Recovering(r)

RunInv(r) ==
  /\ JournalTracksWorker(r)
  /\ JournalTracksController(r)
  /\ NothingBeforeReady(r)
  /\ ReceiptsAgree(r)

(* Rights to a worker on one slot are exclusive, however long they are held. *)
SlotsHeldOnce ==
  \A q, r \in Runs : q # r /\ MayRun(q) /\ MayRun(r) => rec[q].slot # rec[r].slot

GateInv ==
  /\ gate.phase = "open" => gate = OpenGate
  /\ gate.phase = "drained" => \A r \in Runs : rec[r].life # "active"
  /\ gate.phase = "verified" => gate.verified = gate.target

IInv ==
  /\ TypeOK
  /\ \A r \in Runs : RunInv(r)
  /\ SlotsHeldOnce
  /\ GateInv
=============================================================================
