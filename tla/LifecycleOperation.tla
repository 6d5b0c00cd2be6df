------------------------- MODULE LifecycleOperation -------------------------
(***************************************************************************)
(* A lifecycle operation around the admission gate: the coordinator        *)
(* (deploy/lifecycle.py, called by deploy/owner_lifecycle.py, and the same *)
(* sequence inside deploy/relay-deploy.py), the installation backend it    *)
(* starts (deploy/ansible/site.yml) and the durable evidence both leave.   *)
(*                                                                         *)
(* One coordinator at a time holds the host's deployment lock.  It talks   *)
(* to the gate through relay-admission, one command at a time: any command *)
(* may fail before it acts, or act and lose its answer.  The coordinator   *)
(* may die anywhere; the lock goes with it, the gate and the backend stay. *)
(*                                                                         *)
(* The attempts are those of AdmissionGate, step by step: every step here  *)
(* is a step of AdmissionGate or leaves the gate and the attempts alone,   *)
(* so its theorems hold here.                                              *)
(***************************************************************************)
EXTENDS AdmissionGate

ASSUME TargetsAssumption == NoTarget \notin Targets
ASSUME SnapshotsAssumption == NoSnapshot \notin Snapshots

VARIABLES coord,      \* the process that holds the deployment lock
          backend,    \* the installation backend; it may outlive coord
          installed,  \* the release `current` names, and whether it is complete
          evidence    \* the durable production operation record

lifeVars  == <<coord, backend, installed, evidence>>
allVars   == <<vars, lifeVars>>

Goals == {"stop", "apply", "upgrade", "install", "resume", "recover"}

CoordSteps == {"quiesce", "drain", "retarget", "applying", "launch", "await",
               "check", "verify", "resume", "failed", "aborting"}

Coordinators == [step : CoordSteps, goal : Goals, op : Operations, target : Targets]
NoCoord == [step |-> "off", goal |-> "none", op |-> NoOperation, target |-> NoTarget]

(* authorised: --authorize-lifecycle-recovery.                             *)
Backends == [step : {"snapshot", "begin", "change", "commit"}, op : Operations,
             target : Targets, authorised : BOOLEAN]
NoBackend == [step |-> "none", op |-> NoOperation, target |-> NoTarget, authorised |-> FALSE]

Releases == [target : Targets, whole : BOOLEAN]

LInit ==
  /\ Init
  /\ coord = NoCoord
  /\ backend = NoBackend
  /\ installed \in [target : Targets, whole : {TRUE}]
  /\ evidence = NoTarget

-----------------------------------------------------------------------------
(* The coordinator *)

InStep(step) == coord.step = step
KeepGate == UNCHANGED vars
KeepHost == UNCHANGED <<backend, installed, evidence>>

Enter(step, goal, o, t) ==
  /\ coord = NoCoord
  /\ coord' = [step |-> step, goal |-> goal, op |-> o, target |-> t]
  /\ KeepGate /\ KeepHost

(* A new operation draws a fresh UUID.                                      *)
StartStop(o) == gate.op # o /\ Enter("quiesce", "stop", o, installed.target)

StartApply(o, t) == gate.op # o /\ Enter("quiesce", "apply", o, t)

(* The expert upgrade: the sequence of relay-deploy.py, all inside its try. *)
StartUpgrade(o, t) == gate.op # o /\ Enter("quiesce", "upgrade", o, t)

(* A Git install captures the open gate before it quiesces.                 *)
StartInstall(o, t) ==
  /\ gate.phase = "open"
  /\ Enter("quiesce", "install", o, t)

(* Ordinary resume: a graceful stop of what is installed.                   *)
StartResume ==
  /\ gate.phase \in {"quiesced", "drained"}
  /\ gate.target = installed.target
  /\ Enter("drain", "resume", gate.op, gate.target)

(* Authorised recovery with the retained UUID.  The owner diagnoses first:  *)
(* no backend of an earlier coordinator is left.                           *)
StartRecover(t) ==
  /\ gate.phase # "open"
  /\ backend = NoBackend
  /\ Enter("retarget", "recover", gate.op, t)

Proceed(step) == coord' = [coord EXCEPT !.step = step]
Leave == coord' = NoCoord

(* Where an exception leads.  lifecycle.py quiesces and drains outside its  *)
(* try; a prepared install aborts as long as its cutover has not started.   *)
Outside == coord.goal \in {"stop", "apply", "resume"} /\ coord.step \in {"quiesce", "drain"}

(* Mutant: cutover_started is set by the backend's end.                     *)
BeforeCutoverEnds ==
  /\ coord.goal = "install"
  /\ coord.step \in {"quiesce", "drain", "applying", "launch", "await"}

BeforeCutover ==
  /\ coord.goal = "install"
  /\ coord.step \in {"quiesce", "drain", "applying", "launch"}

Raise ==
  \/ Outside /\ Leave
  \/ BeforeCutover /\ Proceed("aborting")
  \/ ~Outside /\ ~BeforeCutover /\ Proceed("failed")

(* The command acted; its answer arrives or is lost.                        *)
Answer(step) == Proceed(step) \/ Raise

QuiesceGate ==
  /\ InStep("quiesce")
  /\ Quiesce(coord.op, coord.target)
  /\ Answer("drain")
  /\ KeepHost

(* drain: returns on the first empty inventory.  A stop ends here.          *)
DrainGate ==
  /\ InStep("drain")
  /\ Drained(coord.op)
  /\ IF coord.goal = "stop" THEN Leave ELSE Answer("applying")
  /\ KeepHost

DrainRefused ==
  /\ InStep("drain")
  /\ Unknown # {}
  /\ Raise
  /\ KeepGate /\ KeepHost

Retarget ==
  /\ InStep("retarget")
  /\ RecoveryTarget(coord.op, coord.target)
  /\ Answer("applying")
  /\ KeepHost

Applying ==
  /\ InStep("applying")
  /\ MarkApplying(coord.op)
  /\ Answer(IF coord.goal = "resume" THEN "check" ELSE "launch")
  /\ KeepHost

(* The public apply or upgrade; it revalidates the gate it was started for. *)
LaunchBackend ==
  /\ InStep("launch")
  /\ gate.phase = "applying"
  /\ gate.target = coord.target
  /\ backend' = [step |-> "snapshot", op |-> coord.op, target |-> coord.target,
                 authorised |-> coord.goal = "recover"]
  /\ Proceed("await")
  /\ KeepGate /\ UNCHANGED <<installed, evidence>>

(* post-check of an ordinary resume: read-only.                             *)
PostCheck ==
  /\ InStep("check")
  /\ installed = [target |-> coord.target, whole |-> TRUE]
  /\ Proceed("verify")
  /\ KeepGate /\ KeepHost

(* verify: the installed identity, read again, is the target.               *)
Verify ==
  /\ InStep("verify")
  /\ installed = [target |-> coord.target, whole |-> TRUE]
  /\ MarkVerified(coord.op, coord.target)
  /\ Answer("resume")
  /\ KeepHost

ResumeGate ==
  /\ InStep("resume")
  /\ Resume(coord.op)
  /\ (Leave \/ Raise)
  /\ KeepHost

(* A command, a check or the wait for the backend fails without an effect.  *)
(* The wait may fail while the backend goes on.                            *)
CommandFails ==
  /\ coord.step \in CoordSteps \ {"failed", "aborting"}
  /\ Raise
  /\ KeepGate /\ KeepHost

(* The except clause; a state write that fails is swallowed.                *)
MarkFailed ==
  /\ InStep("failed")
  /\ MarkRecoveryRequired(coord.op)
  /\ Leave
  /\ KeepHost

MarkFailedSwallowed ==
  /\ InStep("failed")
  /\ Leave
  /\ KeepGate /\ KeepHost

(* The abort of a prepared install, proven or not.                          *)
Abort ==
  /\ InStep("aborting")
  /\ RestoreOpen(coord.op)
  /\ (Leave \/ Proceed("failed"))
  /\ KeepHost

AbortUnproven ==
  /\ InStep("aborting")
  /\ Proceed("failed")
  /\ KeepGate /\ KeepHost

CoordDies ==
  /\ coord # NoCoord
  /\ Leave
  /\ KeepGate /\ KeepHost

(* The owner marks a diagnosed operation by hand: relay-admission phase.    *)
DeclareRecovery ==
  /\ coord = NoCoord
  /\ backend = NoBackend
  /\ \E o \in Operations : MarkRecoveryRequired(o)
  /\ UNCHANGED lifeVars

-----------------------------------------------------------------------------
(* The backend *)

(* Mutant: the intent is observed, and kept only if there is time.          *)
TakeSnapshotLater ==
  /\ backend.step = "snapshot"
  /\ backend' = [backend EXCEPT !.step = "begin"]
  /\ KeepGate /\ UNCHANGED <<coord, installed, evidence>>

(* upgrade-lifecycle-snapshot: the service intent comes before everything.  *)
TakeSnapshot ==
  /\ backend.step = "snapshot"
  /\ \/ \E services \in Snapshots : Snapshot(backend.op, services)
     \/ Bound(backend.op) /\ gate.previous # NoSnapshot /\ KeepGate
  /\ backend' = [backend EXCEPT !.step = "begin"]
  /\ UNCHANGED <<coord, installed, evidence>>


(* production-operation-state-begin: a record of an earlier apply stops an   *)
(* upgrade that is not an authorised recovery, which retains it.            *)
BeginEvidence ==
  /\ backend.step = "begin"
  /\ evidence = NoTarget \/ backend.authorised
  /\ evidence' = IF evidence = NoTarget THEN backend.target ELSE evidence
  /\ backend' = [backend EXCEPT !.step = "change"]
  /\ KeepGate /\ UNCHANGED <<coord, installed>>

ChangeRelease ==
  /\ backend.step = "change"
  /\ installed' = [target |-> backend.target, whole |-> FALSE]
  /\ backend' = [backend EXCEPT !.step = "commit"]
  /\ KeepGate /\ UNCHANGED <<coord, evidence>>

(* The coordinator, when it still waits, learns of the backend's end.       *)
Informed(step) == IF InStep("await") THEN Proceed(step) ELSE UNCHANGED coord

(* Final validation, then production-operation-state-clear.                *)
CommitRelease ==
  /\ backend.step = "commit"
  /\ installed' = [installed EXCEPT !.whole = TRUE]
  /\ evidence' = NoTarget
  /\ backend' = NoBackend
  /\ Informed("verify")
  /\ KeepGate

BackendFails ==
  /\ backend # NoBackend
  /\ backend' = NoBackend
  /\ Informed("failed")
  /\ KeepGate /\ UNCHANGED <<installed, evidence>>

-----------------------------------------------------------------------------
Start ==
  \/ \E o \in Operations : \/ StartStop(o)
                           \/ \E t \in Targets : \/ StartApply(o, t)
                                                 \/ StartUpgrade(o, t)
                                                 \/ StartInstall(o, t)
  \/ StartResume
  \/ \E t \in Targets : StartRecover(t)

Coordinator ==
  \/ QuiesceGate \/ DrainGate \/ DrainRefused \/ Retarget \/ Applying \/ LaunchBackend
  \/ PostCheck \/ Verify \/ ResumeGate \/ CommandFails \/ MarkFailed \/ MarkFailedSwallowed
  \/ Abort \/ AbortUnproven \/ CoordDies

Backend == TakeSnapshot \/ BeginEvidence \/ ChangeRelease \/ CommitRelease \/ BackendFails

AttemptStep(r) == Attempt(r) /\ UNCHANGED lifeVars

LNext == Start \/ Coordinator \/ DeclareRecovery \/ Backend \/ \E r \in Runs : AttemptStep(r)

LSpec == LInit /\ [][LNext]_allVars

-----------------------------------------------------------------------------
(* Fairness: a controller process that lives takes its next step, and the    *)
(* dispatcher bounds the worker it waits for; an owner's recovery, once it   *)
(* runs, goes on; the drain command polls.  A coordinator and a backend go  *)
(* on, whatever their step comes to.  No new run, re-run, other command,    *)
(* crash or timeout of a drain is fair.                                     *)

RecoveryGoesOn(r) ==
  UNCHANGED lifeVars /\ (RecoverPush(r) \/ RecoverFinish(r) \/ RecoverFinishFails(r) \/ RecoverSave(r))

ControllerGoesOn(r) == UNCHANGED lifeVars /\ Controller(r)

(* Of a drain only the poll is fair.                                        *)
CoordinatorGoesOn ==
  \/ InStep("drain") /\ (DrainGate \/ DrainRefused)
  \/ ~InStep("drain") /\ Coordinator

(* The owner who finds the host idle behind a closed gate marks the operation*)
(* and then recovers it.                                                   *)
OwnerRetries ==
  \/ gate.phase # "recovery-required" /\ DeclareRecovery
  \/ gate.phase = "recovery-required" /\ \E t \in Targets : StartRecover(t)

(* A recovery dies, or fails or loses its answer at a step that could have   *)
(* succeeded.  For good, none does: the owner's retries are not in vain      *)
(* unless the gate, the release or the record stand in their way.           *)
BackendGoesOn == TakeSnapshot \/ BeginEvidence \/ ChangeRelease \/ CommitRelease

RecoveryFails ==
  /\ coord.goal = "recover" /\ ~InStep("failed")
  /\ InStep("retarget") => gate.phase = "recovery-required"
  /\ InStep("await") => ENABLED BackendGoesOn
  /\ coord'.step \in {"failed", "off"} /\ gate'.phase # "open"

Fairness ==
  /\ \A r \in Runs : WF_allVars(ControllerGoesOn(r) \/ RecoveryGoesOn(r))
  /\ WF_allVars(CoordinatorGoesOn) /\ WF_allVars(Backend)
  /\ SF_allVars(OwnerRetries)
  /\ <>[][~RecoveryFails]_allVars

FairSpec == LSpec /\ Fairness

-----------------------------------------------------------------------------
(* Properties *)

LTypeOK ==
  /\ coord \in Coordinators \cup {NoCoord}
  /\ backend \in Backends \cup {NoBackend}
  /\ installed \in Releases
  /\ evidence \in Targets \cup {NoTarget}

(* The installation changes only in silence: while a backend is at work, or  *)
(* what an interrupted one left is in place, no worker runs and no attempt  *)
(* still has the right to start one, whichever coordinator died, failed or  *)
(* recovered in between (drain, recovery-target).                          *)
QuietInstall ==
  backend # NoBackend \/ ~installed.whole => \A r \in Runs : ~Running(r) /\ ~MayRun(r)

(* An open gate stands before a complete release, with no backend left that *)
(* could still change it and no evidence of an unfinished change (verify,   *)
(* resume, and the abort of a prepared install).                           *)
OpenIsWhole ==
  gate.phase = "open" => installed.whole /\ backend = NoBackend /\ evidence = NoTarget

(* A change that is not finished is on record twice, in the production       *)
(* operation record and in the closed gate with the service intent to       *)
(* restore, whoever died (upgrade-lifecycle-snapshot before               *)
(* production-operation-state-begin before the first mutation).            *)
UnfinishedIsRecorded ==
  ~installed.whole =>
    /\ evidence # NoTarget
    /\ gate.previous # NoSnapshot
    /\ gate.phase \in {"applying", "recovery-required"}

(* The lifecycle implements what an installation promises.                  *)
Quiet == INSTANCE QuietUpgrade WITH
  Revisions <- Targets,
  admitting <- gate.phase = "open",
  busy      <- {r \in Runs : rec[r].life = "active"},
  working   <- {r \in Runs : worker[r] = "running"},
  release   <- installed

QuietSpec == Quiet!Spec

(* A drain comes to an end without its timeout, unless the controller of an  *)
(* admitted attempt has died or given up: whatever is replayed or recovered  *)
(* meanwhile, a live attempt ends active and becomes complete or unknown     *)
(* (drainAdmission, complete-execution).                                   *)
Abandoned(r) == rec[r].life = "active" /\ At(r, "off")

DrainSettles == []<>(~InStep("drain") \/ \E r \in Runs : Abandoned(r))


-----------------------------------------------------------------------------
(* The inductive invariant behind the safety properties *)

NoneActive == \A r \in Runs : rec[r].life # "active"

(* A closed gate belongs to an operation.                                  *)
Owned == gate.phase # "open" => gate.op \in Operations

(* A coordinator past its drain owns a closed gate with nobody inside; which *)
(* goals can be at which step.                                             *)
Held ==
  /\ coord.step \in {"applying", "launch", "await", "check", "verify", "resume"} =>
       Bound(coord.op) /\ NoneActive
  /\ coord.step = "applying" =>
       gate.phase = IF coord.goal = "recover" THEN "recovery-required" ELSE "drained"
  /\ coord.step \in {"quiesce", "drain"} => coord.goal # "recover"
  /\ coord.step = "retarget" => coord.goal = "recover"
  /\ coord.step \in {"quiesce", "launch", "await"} => coord.goal # "resume"

(* Only an attached or an orphaned coordinator shares the host with a        *)
(* backend, and the gate stays with the backend's operation.               *)
Attended ==
  backend # NoBackend =>
    /\ Bound(backend.op)
    /\ gate.phase \in {"applying", "recovery-required"}
    /\ NoneActive
    /\ coord.step \in {"off", "quiesce", "await", "failed"}
    /\ coord.step = "quiesce" => coord.goal # "install"

(* What the backend has written before it reached its step.                 *)
Prepared ==
  /\ backend.step \in {"begin", "change", "commit"} => gate.previous # NoSnapshot
  /\ backend.step \in {"change", "commit"} => evidence # NoTarget

(* What an unfinished change leaves behind, and what bars an ordinary resume *)
(* or verification from passing it over.                                   *)
UnfinishedChange ==
  /\ ~installed.whole => evidence # NoTarget
  /\ evidence # NoTarget =>
       /\ gate.previous # NoSnapshot
       /\ gate.phase \in {"applying", "recovery-required"}
       /\ NoneActive
       /\ coord.step \notin {"check", "verify", "resume"}
       /\ coord.goal = "resume" => coord.step \in {"off", "failed"}

LInv ==
  /\ LTypeOK
  /\ Owned
  /\ Held
  /\ Attended
  /\ Prepared
  /\ UnfinishedChange
=============================================================================
