------------------------ MODULE SerialPoolTransition ------------------------
(***************************************************************************)
(* One installation moves from its own SERIAL General Runner to the shared *)
(* pool (deploy/serial_pool_transition.py, serial_pool_installation.py,    *)
(* serial_pool_host.py, managed_pool_transport.py and the serial branch of *)
(* relay-deploy.py).  The owner's command runs under the deployment and    *)
(* pool locks; when it fails or dies the owner applies again and the state *)
(* file, the receipt and the two gates say where it goes on.               *)
(*                                                                         *)
(* Around it: jobs that arrive at the old runner, attempts of the original *)
(* admission, systemd, reboots of the host, GitHub dropping an offline     *)
(* runner, other installations that apply the same pool.                   *)
(***************************************************************************)
EXTENDS Naturals

CONSTANTS Targets,      \* prospective configurations and revisions of the owner
          MaxFaults     \* bound: deaths, failures, reboots, crashes, expiries

ASSUME TargetsAssumption == Targets \cap {"none", "original", "mixed"} = {}
ASSUME MaxFaultsAssumption == MaxFaults \in Nat

VARIABLES phase,     \* serial-pool-transition-v1.json: how far it is
          plan,      \* and the target it is bound to
          receipt,   \* serial-pool-compat-v1.json: the gate it seals
          copies,    \* serial-consumer-v1.json and serial-compat-v1/<revision>
          oldGate,   \* admission-v1.json
          newGate,   \* admission-pool-v1.json
          host,      \* /opt/<namespace>/current, /etc/<namespace>/consumer.json
          legacy,    \* the old runner: unit, enablement, job
          remote,    \* its registration at GitHub
          pool,      \* the listeners of the shared pool
          attempt,   \* an unfinished attempt in the original store
          coord,     \* the owner's command
          deletes,   \* DELETE requests for the old registration so far
          faults

vars == <<phase, plan, receipt, copies, oldGate, newGate, host, legacy, remote, pool,
          attempt, coord, deletes, faults>>
durable == <<phase, plan, receipt, copies>>
gates   == <<oldGate, newGate>>
outside == <<remote, pool, attempt, deletes, faults>>

Phases == {"none", "reserved", "prepared", "stop-intent", "stopped", "target-ready",
           "remove-intent", "retired"}
NoGate == [phase |-> "none", snap |-> FALSE]
NoPoolGate == [phase |-> "none", pool |-> FALSE, target |-> "none"]
OldGates == [phase : {"open", "quiesced", "drained", "applying"}, snap : BOOLEAN]

Points == {"reserve", "quiesce", "drain", "applying", "snapshot", "copy", "receipt",
           "prepared", "advance", "stop", "look", "freeze", "inspect", "disable", "thaw",
           "stopped", "installed", "gate", "backend", "replace", "reconcile", "check",
           "finish", "ready", "remove", "delete", "deleted", "verify", "resume"}
Idle == [at |-> "idle", target |-> "none", forward |-> FALSE, bound |-> FALSE]

TypeOK ==
  /\ phase \in Phases /\ plan \in Targets \cup {"none"}
  /\ receipt \in {NoGate} \cup OldGates /\ oldGate \in OldGates
  /\ copies \subseteq {"consumer", "bundle"}
  /\ newGate \in [phase : {"none", "applying", "recovery-required", "verified", "open"},
                  pool : BOOLEAN, target : Targets \cup {"none"}]
  /\ host \in {"original", "mixed"} \cup Targets
  /\ legacy \in [unit : {"active", "frozen", "killed", "stopping", "inactive"},
                 enabled : BOOLEAN, job : {"none", "assigned", "running"}]
  /\ remote \in BOOLEAN /\ pool \in {"absent", "down", "up"} /\ attempt \in BOOLEAN
  /\ coord \in {Idle} \cup [at : Points, target : Targets, forward : BOOLEAN, bound : BOOLEAN]
  /\ deletes \in Nat /\ faults \in 0..MaxFaults

Init ==
  /\ phase = "none" /\ plan = "none" /\ receipt = NoGate /\ copies = {} /\ host = "original"
  /\ oldGate = [phase |-> "open", snap |-> FALSE] /\ newGate = NoPoolGate
  /\ legacy \in [unit : {"active", "inactive"}, enabled : {TRUE}, job : {"none"}]
  /\ remote = TRUE /\ pool \in {"absent", "up"} /\ attempt = FALSE
  /\ coord = Idle /\ deletes = 0 /\ faults = 0

-----------------------------------------------------------------------------
(* What the code observes *)

At(p)   == coord.at = p
Goto(p) == coord' = [coord EXCEPT !.at = p]
Whole   == {"consumer", "bundle"}
Worker  == legacy.job = "running"
Busy    == legacy.job # "none"

(* Mutant: a stopped unit need not be disabled.                             *)
LegacyDown == ~Worker /\ legacy.unit = "inactive"
LegacyStopped == ~Worker /\ legacy.unit = "inactive" /\ ~legacy.enabled

PoolReady == pool = "up"        \* every selected member: bound, online, active
Services  == pool = "up"        \* the activity of the target's units
Reserved  == phase \in {"remove-intent", "retired"}

(* The original context: live files, or the copies a receipt names.         *)
Context == IF receipt = NoGate THEN host = "original" ELSE copies = Whole
Readable == Context /\ receipt \in {NoGate, oldGate}

(* The runner's files, unit and processes are the ones that were bound.     *)
Settled == ~Worker /\ legacy.unit # "stopping"

(* inspect: the one registration, unless its removal is reserved.           *)
Provable == Readable /\ Settled /\ (remote \/ Reserved)

(* The checks every advance starts with.                                    *)
Advanceable ==
  /\ Readable /\ receipt # NoGate /\ oldGate.phase = "applying" /\ ~attempt
  /\ Settled
  /\ phase \in {"stopped", "target-ready", "remove-intent", "retired"} => LegacyStopped

(* preflight of a retired transition.                                       *)
Installed    == host \in Targets
LiveGate     == Installed /\ newGate.phase # "none"
RetiredProof == Readable /\ LegacyStopped /\ ~remote /\ LiveGate
Retained     == phase = "retired" /\ newGate.phase = "open"

-----------------------------------------------------------------------------
(* begin: preflight and prepare *)

Start(t) ==
  /\ coord = Idle /\ ~Retained /\ plan \in {"none", t}
  /\ IF phase = "retired" THEN RetiredProof ELSE Provable
  /\ coord' = [at |-> IF phase = "retired" THEN "check" ELSE "reserve",
               target |-> t, forward |-> phase = "retired", bound |-> FALSE]
  /\ UNCHANGED <<durable, gates, host, legacy, outside>>

ReserveOnce ==
  /\ At("reserve")
  /\ \/ phase = "none" /\ Provable /\ oldGate.phase = "open"
        /\ phase' = "reserved" /\ plan' = coord.target /\ Goto("quiesce")
     \/ phase \notin {"none", "reserved"} /\ Readable /\ Goto("advance")
        /\ UNCHANGED <<phase, plan>>
  /\ UNCHANGED <<receipt, copies, gates, host, legacy, outside>>

Reserve ==
  /\ At("reserve")
  /\ \/ phase = "none" /\ Provable /\ oldGate.phase = "open"
        /\ phase' = "reserved" /\ plan' = coord.target /\ Goto("quiesce")
     \/ phase = "reserved" /\ Provable /\ Goto("quiesce") /\ UNCHANGED <<phase, plan>>
     \/ phase \notin {"none", "reserved"} /\ Readable /\ Goto("advance")
        /\ UNCHANGED <<phase, plan>>
  /\ UNCHANGED <<receipt, copies, gates, host, legacy, outside>>

SetGate(from, to, next) ==
  /\ oldGate' = IF oldGate.phase \in from THEN [oldGate EXCEPT !.phase = to] ELSE oldGate
  /\ Goto(next)
  /\ UNCHANGED <<durable, newGate, host, legacy, outside>>

Quiesce  == At("quiesce") /\ SetGate({"open"}, "quiesced", "drain")
Drain    == At("drain") /\ ~attempt /\ SetGate({"quiesced"}, "drained", "applying")
Applying == At("applying") /\ ~attempt /\ SetGate({"drained"}, "applying", "snapshot")

Snapshot ==
  /\ At("snapshot")
  /\ oldGate' = [oldGate EXCEPT !.snap = TRUE]
  /\ Goto("copy")
  /\ UNCHANGED <<durable, newGate, host, legacy, outside>>

CopyConsumer ==
  /\ At("copy") /\ Readable
  /\ copies' = copies \cup {"consumer"} /\ Goto("receipt")
  /\ UNCHANGED <<phase, plan, receipt, gates, host, legacy, outside>>

(* The consumer, then the source, manifest and configuration.               *)
Copy ==
  /\ At("copy") /\ Readable
  /\ IF "consumer" \in copies
     THEN copies' = Whole /\ Goto("receipt")
     ELSE copies' = {"consumer"} /\ UNCHANGED coord
  /\ UNCHANGED <<phase, plan, receipt, gates, host, legacy, outside>>

(* An exclusive publication: the same bytes or a conflict.                  *)
Receipt ==
  /\ At("receipt") /\ receipt \in {NoGate, oldGate}
  /\ receipt' = oldGate
  /\ Goto("prepared")
  /\ UNCHANGED <<phase, plan, copies, gates, host, legacy, outside>>

SetPhase(p, next) ==
  /\ phase' = p /\ Goto(next)
  /\ UNCHANGED <<plan, receipt, copies, gates, host, legacy, outside>>
Move(next) == Goto(next) /\ UNCHANGED <<durable, gates, host, legacy, outside>>

Prepared == At("prepared") /\ SetPhase("prepared", "advance")

-----------------------------------------------------------------------------
(* advance, first part: stop the idle runner *)

Advance ==
  /\ At("advance") /\ Advanceable
  /\ \/ phase \in {"prepared", "stop-intent"} /\ Move("stop")
     \/ phase = "stopped" /\ Move("installed")
     \/ phase \in {"target-ready", "remove-intent"} /\ LegacyStopped /\ Move("installed")

StopIntent ==
  /\ At("stop") /\ remote /\ ~Busy
  /\ \/ LegacyStopped /\ SetPhase("stopped", "installed")
     \/ ~LegacyStopped /\ phase = "prepared" /\ SetPhase("stop-intent", "look")

SetUnit(unit, enabled, next) ==
  /\ legacy' = [legacy EXCEPT !.unit = unit, !.enabled = enabled]
  /\ Goto(next)
  /\ UNCHANGED <<durable, gates, host, outside>>

(* stop_legacy: the questions before the unit is frozen.                    *)
Look == At("look") /\ remote /\ ~Busy /\ Move("freeze")

(* An inactive unit is only disabled; stop_idle takes the steps ManagedPool *)
(* has for it.                                                              *)
Freeze ==
  /\ At("freeze")
  /\ \/ legacy.unit = "inactive" /\ SetUnit("inactive", FALSE, "stopped")
     \/ legacy.unit = "active" /\ SetUnit("frozen", legacy.enabled, "inspect")

Kill    == At("inspect") /\ ~Busy /\ remote /\ SetUnit("killed", legacy.enabled, "disable")
Disable == At("disable") /\ SetUnit("killed", FALSE, "thaw")
Thaw    == At("thaw") /\ SetUnit("stopping", legacy.enabled, "stopped")

Stopped == At("stopped") /\ LegacyStopped /\ SetPhase("stopped", "installed")

(* A completed backend is not run again.                                    *)
TargetInstalled ==
  /\ At("installed")
  /\ \/ host = coord.target /\ coord' = [coord EXCEPT !.at = "reconcile", !.forward = TRUE]
     \/ host # coord.target /\ phase = "stopped" /\ Goto("gate")
  /\ UNCHANGED <<durable, gates, host, legacy, outside>>

(* write_new_gate: the first observation of the services is retained.       *)
WriteNewGate ==
  /\ At("gate") /\ newGate.phase \in {"none", "applying"} /\ newGate.target \in {"none", coord.target}
  /\ newGate' = IF newGate.phase # "none" THEN newGate
                ELSE [phase |-> "applying", pool |-> Services, target |-> coord.target]
  /\ Goto("backend")
  /\ UNCHANGED <<durable, oldGate, host, legacy, outside>>

-----------------------------------------------------------------------------
(* The backend, the pool and the end of the operation *)

(* The backend proves receipt, state and gates, and that the services are   *)
(* as first observed, before it replaces anything.                          *)
BackendProof ==
  /\ receipt = oldGate /\ oldGate.phase = "applying"
  /\ phase \in {"stopped", "target-ready", "remove-intent", "retired"}
  /\ newGate.phase = "applying" /\ newGate.target = coord.target /\ newGate.pool = Services

Backend ==
  \/ /\ At("backend") /\ BackendProof
     /\ host' = "mixed" /\ Goto("replace")
     /\ UNCHANGED <<durable, gates, legacy, outside>>
  \/ /\ At("replace")
     /\ host' = coord.target
     /\ coord' = [coord EXCEPT !.at = "reconcile", !.bound = TRUE]
     /\ UNCHANGED <<durable, gates, legacy, outside>>

(* reconcile_pool: see ManagedPool.                                         *)
Reconcile ==
  /\ At("reconcile")
  /\ pool' = "up"
  /\ Goto(IF coord.forward THEN "check" ELSE "finish")
  /\ UNCHANGED <<durable, gates, host, legacy, remote, attempt, deletes, faults>>

(* The read-only check of an installed target.                              *)
Check ==
  /\ At("check") /\ host = coord.target
  /\ coord' = [coord EXCEPT !.bound = TRUE, !.at = IF phase = "retired" THEN "verify" ELSE "finish"]
  /\ UNCHANGED <<durable, gates, host, legacy, outside>>

(* finish: preflight again, then the second part of advance.                *)
Finish ==
  /\ At("finish") /\ Provable /\ Advanceable
  /\ Move(CASE phase = "stopped" -> "ready" [] phase = "retired" -> "verify" [] OTHER -> "remove")

TargetReady == At("ready") /\ PoolReady /\ SetPhase("target-ready", "remove")

RemoveIntentAgain ==
  /\ At("remove") /\ LegacyStopped /\ PoolReady
  /\ \/ ~remote /\ phase = "remove-intent" /\ SetPhase("retired", "verify")
     \/ remote /\ ~Busy /\ SetPhase("remove-intent", "delete")
RemoveIntent ==
  /\ At("remove") /\ LegacyStopped /\ PoolReady
  /\ \/ ~remote /\ phase = "remove-intent" /\ SetPhase("retired", "verify")
     \/ remote /\ ~Busy /\ phase = "target-ready" /\ SetPhase("remove-intent", "delete")

(* The request may be lost: GitHub acts or does not.                        *)
Delete ==
  /\ At("delete") /\ remote /\ ~Busy
  /\ deletes' = deletes + 1
  /\ \/ remote' = FALSE /\ UNCHANGED faults
     \/ faults < MaxFaults /\ faults' = faults + 1 /\ UNCHANGED remote
  /\ Goto("deleted")
  /\ UNCHANGED <<durable, gates, host, legacy, pool, attempt>>

Deleted == At("deleted") /\ ~remote /\ SetPhase("retired", "verify")

SetNewGate(p, next) ==
  /\ newGate' = [newGate EXCEPT !.phase = p]
  /\ Goto(next)
  /\ UNCHANGED <<durable, oldGate, host, legacy, outside>>

(* A gate that a failure left in recovery goes back to applying first.      *)
Verify ==
  /\ At("verify")
  /\ \/ newGate.phase = "recovery-required" /\ coord.forward /\ SetNewGate("applying", "verify")
     \/ newGate.phase \in {"applying", "verified"} /\ SetNewGate("verified", "resume")
     \/ newGate.phase = "open" /\ Move("resume")

Resume ==
  /\ At("resume") /\ newGate.phase \in {"verified", "open"}
  /\ newGate' = [newGate EXCEPT !.phase = "open"]
  /\ coord' = Idle
  /\ UNCHANGED <<durable, oldGate, host, legacy, outside>>

-----------------------------------------------------------------------------
(* Ends before the end *)

(* The failure handler marks the new gate once the target is known to be    *)
(* installed; the original gate is never touched.                           *)
Handled == newGate' = IF coord.bound /\ newGate.phase \notin {"none", "open"}
                      THEN [newGate EXCEPT !.phase = "recovery-required"] ELSE newGate
Thawed == IF legacy.unit = "frozen" /\ At("inspect") THEN [legacy EXCEPT !.unit = "active"]
          ELSE IF legacy.unit = "killed" THEN [legacy EXCEPT !.unit = "stopping"] ELSE legacy

Refused ==
  \/ At("reserve") /\ ~(IF phase \in {"none", "reserved"} THEN Provable ELSE Readable)
  \/ At("reserve") /\ phase = "none" /\ oldGate.phase # "open"
  \/ At("drain") /\ attempt
  \/ At("receipt") /\ receipt \notin {NoGate, oldGate}
  \/ At("advance") /\ ~Advanceable
  \/ At("stop") /\ (~remote \/ Busy \/ (~LegacyStopped /\ phase # "prepared"))
  \/ At("look") /\ (Busy \/ ~remote)
  \/ At("inspect") /\ (Busy \/ ~remote)
  \/ At("stopped") /\ ~LegacyStopped
  \/ At("gate") /\ newGate.phase \notin {"none", "applying"}
  \/ At("backend") /\ ~BackendProof
  \/ At("finish") /\ ~(Provable /\ Advanceable)
  \/ At("ready") /\ ~PoolReady
  \/ At("remove") /\ (~LegacyStopped \/ ~PoolReady)
  \/ At("remove") /\ IF remote THEN phase # "target-ready" ELSE phase # "remove-intent"
  \/ At("delete") /\ ~remote
  \/ At("deleted") /\ remote
  \/ At("verify") /\ newGate.phase = "recovery-required" /\ ~coord.forward

Leave == Handled /\ legacy' = Thawed /\ coord' = Idle
         /\ UNCHANGED <<durable, oldGate, host, remote, pool, attempt, deletes>>

Raise == Refused /\ Leave /\ UNCHANGED faults

(* A command fails or loses its answer.                                     *)
Fail == coord # Idle /\ faults < MaxFaults /\ faults' = faults + 1 /\ Leave

Die ==
  /\ coord # Idle /\ faults < MaxFaults
  /\ coord' = Idle /\ faults' = faults + 1
  /\ UNCHANGED <<durable, gates, host, legacy, remote, pool, attempt, deletes>>

Owner ==
  \/ (\E t \in Targets : Start(t)) \/ Reserve \/ Quiesce \/ Drain \/ Applying \/ Snapshot \/ Copy \/ Receipt
  \/ Prepared \/ Advance \/ StopIntent \/ Look \/ Freeze \/ Kill \/ Disable \/ Thaw \/ Stopped
  \/ TargetInstalled \/ WriteNewGate \/ Backend \/ Reconcile \/ Check \/ Finish
  \/ TargetReady \/ RemoveIntent \/ Delete \/ Deleted \/ Verify \/ Resume \/ Raise

-----------------------------------------------------------------------------
(* systemd, GitHub, jobs, the host and other installations (external)       *)

SetJob(j) == /\ legacy' = [legacy EXCEPT !.job = j]
             /\ UNCHANGED <<durable, gates, host, coord, outside>>
Listens == legacy.unit = "active" /\ remote
Acquire == Listens /\ legacy.job = "none" /\ SetJob("assigned")
Spawn   == legacy.unit = "active" /\ legacy.job = "assigned" /\ SetJob("running")
EndJob  == legacy.unit = "active" /\ Worker /\ SetJob("none")

BeginAttempt ==
  /\ oldGate.phase = "open" /\ Worker /\ legacy.unit = "active" /\ ~attempt
  /\ attempt' = TRUE
  /\ UNCHANGED <<durable, gates, host, legacy, coord, remote, pool, deletes, faults>>
EndAttempt ==
  /\ attempt /\ attempt' = FALSE
  /\ UNCHANGED <<durable, gates, host, legacy, coord, remote, pool, deletes, faults>>

StopDone ==
  /\ legacy.unit = "stopping"
  /\ legacy' = [legacy EXCEPT !.unit = "inactive", !.job = "none"]
  /\ UNCHANGED <<durable, gates, host, coord, outside>>

(* Every process ends, the enabled units start again.                       *)
Reboot ==
  /\ faults < MaxFaults /\ faults' = faults + 1
  /\ coord' = Idle
  /\ legacy' = [legacy EXCEPT !.unit = IF legacy.enabled THEN "active" ELSE "inactive",
                              !.job = "none"]
  /\ UNCHANGED <<durable, gates, host, remote, pool, attempt, deletes>>

Expire ==
  /\ remote /\ legacy.unit = "inactive" /\ faults < MaxFaults
  /\ remote' = FALSE /\ faults' = faults + 1
  /\ UNCHANGED <<durable, gates, host, legacy, coord, pool, attempt, deletes>>

SetPool(p) == pool' = p /\ UNCHANGED <<durable, gates, host, legacy, coord, remote, attempt, deletes>>
PoolCrash == pool = "up" /\ faults < MaxFaults /\ faults' = faults + 1 /\ SetPool("down")
PoolStart == pool = "down" /\ UNCHANGED faults /\ SetPool("up")
(* Another installation applies the shared pool; it needs the pool's lock.  *)
PeerApply == coord = Idle /\ pool = "absent" /\ faults < MaxFaults /\ faults' = faults + 1
             /\ SetPool("up")

World == \/ Acquire \/ Spawn \/ EndJob \/ BeginAttempt \/ EndAttempt \/ StopDone
         \/ PoolCrash \/ PoolStart \/ PeerApply \/ Reboot \/ Expire

Next == Owner \/ Fail \/ Die \/ World

Spec == Init /\ [][Next]_vars

-----------------------------------------------------------------------------
(* Nothing of the target is installed while the old listener could come     *)
(* back: neither a signal that was not followed by disable nor a reboot     *)
(* leaves SERIAL and pool capacity side by side.                            *)
OneCapacity == host # "original" => LegacyStopped

(* The backend replaces consumer.json and may overwrite the release: by     *)
(* then the original context is copied, and the gate it runs under is       *)
(* sealed, closed, and never changed again.                                 *)
OriginalReadable == phase \notin {"none", "reserved"} \/ host # "original" =>
  /\ copies = Whole /\ receipt = oldGate
  /\ oldGate = [phase |-> "applying", snap |-> TRUE] /\ ~attempt

(* A lost DELETE is observed, never repeated.                               *)
DeletedOnce == deletes <= 1

-----------------------------------------------------------------------------
(* The owner applies again until it is done; systemd goes on; jobs and      *)
(* attempts end.  Whether a job comes in between is left open.              *)
Fairness ==
  /\ SF_vars(Owner) /\ WF_vars(StopDone) /\ WF_vars(PoolStart) /\ WF_vars(Spawn)
  /\ SF_vars(EndJob) /\ WF_vars(EndAttempt)
FairSpec == Spec /\ Fairness

(* A transition that is reserved ends with the pool admitted, or stands     *)
(* before an explicit stop the code names: a stop or a DELETE whose effect  *)
(* is unknown, a registration GitHub dropped, a pool that others changed;   *)
(* all of it as long as the old runner gets no further jobs.                *)
NeedsInspection ==
  \/ phase = "stop-intent" /\ ~LegacyStopped
  \/ phase = "remove-intent" /\ remote
  \/ ~remote /\ ~Reserved
  \/ newGate.phase = "applying" /\ newGate.pool # Services /\ ~Installed
TransitionEnds ==
  <>(phase = "reserved") /\ <>[](~Busy) => []<>(Retained \/ (coord = Idle /\ NeedsInspection))
=============================================================================
