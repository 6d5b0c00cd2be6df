--------------------------- MODULE CleanReinstall ---------------------------
(***************************************************************************)
(* The owner retires the installed runtime of a namespace and installs an  *)
(* exact target in its place (deploy/clean_reinstall.py, the reinstall     *)
(* branch of relay-deploy.py, verify_reinstall_continuation.py and the     *)
(* operation record of the backend).                                       *)
(*                                                                         *)
(* A run of the owner's command is a coordinator that holds the host lock  *)
(* and starts helpers and the backend.  When the coordinator loses the     *)
(* host lock its helper or backend goes on by itself, as an orphan, and    *)
(* the owner may start another command.  A command that claims a recovery  *)
(* comes after a diagnosis that finds orphans; an ordinary one finds only  *)
(* an orphaned backend.  The production operation lock (flock) is what the *)
(* helpers and the backend share.                                          *)
(***************************************************************************)
EXTENDS Naturals, Sequences

CONSTANTS Releases, First,  \* revisions; the one installed initially
          Runs,             \* commands of the owner that may overlap
          MaxOps,           \* bound: ordinary commands of the owner
          MaxFaults         \* bound: lost locks, failures, reboots, torn writes

None == "none"
ASSUME ReleasesAssumption == First \in Releases /\ None \notin Releases /\ None \notin Runs
ASSUME BoundsAssumption == MaxOps \in Nat /\ MaxFaults \in Nat

VARIABLES journal,  \* <namespace>-clean-reinstall.json
          torn,     \* its .next file was left behind
          record,   \* <namespace>-production-operation.json: its target
          archive,  \* .<namespace>-retired-<source>-<target>
          tree,     \* /opt/<namespace>
          marker,   \* reviewer-activation-authorized in /etc/<namespace>
          units, enabled, job,
          gate, attempt,
          runs, host, flock, ops, faults

vars == <<journal, torn, record, archive, tree, marker, units, enabled, job, gate, attempt,
          runs, host, flock, ops, faults>>
evidence == <<journal, torn, record, archive>>
machine  == <<tree, marker, units, enabled, job>>
control  == <<host, flock>>
world    == <<attempt, ops, faults>>

Order   == <<"timer", "reviewer", "runner">>   \* as unit_names lists them
Units   == {Order[i] : i \in DOMAIN Order}
Stages  == {"RESERVED", "SERVICES_STOPPED", "RUNTIME_RETIRED", "DECOMMISSIONED", "COMPLETE"}
NoJournal == [stage |-> None, source |-> None, target |-> None, op |-> 0]
Archives  == Releases \X Releases
Open      == [phase |-> "open", op |-> 0, target |-> None]
NoGate    == [phase |-> None, op |-> 0, target |-> None]   \* SERIAL: not the pool's
Pool      == gate # NoGate      \* the consumer runs on the shared pool

Coordinator == {"quiesce", "drain", "regate", "applying", "verified", "resume"}
Retirement  == {"inspect", "lock", "journal", "record", "stop", "check", "archive", "rename",
                "retired", "restore", "decommissioned"}
Disposition == {"recover", "timer", "again", "copy", "copied", "unlink", "unlinked"}
Backend     == {"verify", "begin", "install", "clear"}
Points      == Coordinator \cup Retirement \cup Disposition \cup Backend
                 \cup {"continue", "requeue", "retarget", "reapply", "repeat", "final",
                         "postcheck", "complete", "filed"}
Command(p, t, o, d, i) ==
  [at |-> p, target |-> t, op |-> o, source |-> None, units |-> {}, digest |-> d, seen |-> FALSE, i |-> i]
Idle == Command("idle", None, 0, NoJournal, 0)

TypeOK ==
  /\ journal \in {NoJournal} \cup [stage : Stages, source : Releases, target : Releases, op : 0..MaxOps]
  /\ torn \in BOOLEAN /\ record \in Releases \cup {None}
  /\ archive \in [Archives -> [runtime : Releases \cup {None}, op : 0..MaxOps,
       kept : SUBSET {"dir", "marker", "runner", "journal", "apply", "decommission"}]]
  /\ tree \in [dir : BOOLEAN, current : Releases \cup {None}, runner : BOOLEAN]
  /\ marker \in BOOLEAN /\ units \subseteq Units /\ enabled \subseteq Units
  /\ job \in {"none", "running", "detached"}
  /\ gate \in {Open, NoGate} \cup [phase : {"quiesced", "drained", "applying", "recovery-required", "verified"},
                           op : 1..MaxOps, target : Releases]
  /\ attempt \in BOOLEAN
  /\ \A r \in Runs : runs[r].at \in Points \cup {"idle"} /\ runs[r].i \in 0..6
  /\ host \in Runs \cup {None} /\ flock \in Runs \cup {None}
  /\ ops \in 0..MaxOps /\ faults \in 0..MaxFaults

Init ==
  /\ journal = NoJournal /\ torn = FALSE /\ record = None
  /\ archive = [a \in Archives |-> [runtime |-> None, op |-> 0, kept |-> {}]]
  /\ tree = [dir |-> TRUE, current |-> First, runner |-> TRUE] /\ marker = TRUE
  /\ units \in {Units, {"timer"}} /\ enabled = units /\ job = "none" /\ gate \in {Open, NoGate} /\ attempt = FALSE
  /\ runs = [r \in Runs |-> Idle] /\ host = None /\ flock = None /\ ops = 0 /\ faults = 0

-----------------------------------------------------------------------------
(* What the code observes *)

At(r, p) == runs[r].at = p
Goto(r, p) == runs' = [runs EXCEPT ![r].at = p]
Own == archive[<<journal.source, journal.target>>]   \* of the journal's pair

NoEvidence == journal = NoJournal /\ ~torn /\ record = None
Whole      == tree.dir /\ tree.current # None /\ tree.runner

(* No worker of the namespace: neither in a stopped unit nor outside.      *)
NoneActive == Pool => ~attempt     \* what the admission of the release answers
Quiescent  == job = "none" /\ NoneActive

(* pool_admission_status: the gate is of this operation, closed, drained.  *)
GateProof(r, phases) ==
  Pool => gate.op = runs[r].op /\ gate.target = runs[r].target
          /\ gate.phase \in phases /\ NoneActive

(* A helper or the backend fails or refuses: the coordinator, when it is   *)
(* still there, marks its operation; that write may fail and is swallowed. *)
Stopped(r) ==
  /\ runs' = [runs EXCEPT ![r] = Idle]
  /\ flock' = IF flock = r THEN None ELSE flock
  /\ host' = IF host = r THEN None ELSE host
  /\ gate' \in {gate} \cup IF host = r /\ runs[r].op # 0 /\ runs[r].op = gate.op
                           THEN {[gate EXCEPT !.phase = "recovery-required"]} ELSE {}

Refused(r) == Stopped(r) /\ UNCHANGED <<evidence, machine, world>>

-----------------------------------------------------------------------------
(* The owner starts a command *)

NoOrphanedBackend == \A r \in Runs : runs[r].at \notin Backend
Diagnosed == \A r \in Runs : runs[r] = Idle    \* the owner's, before a recovery

Begin(r, run) ==
  /\ runs[r] = Idle /\ host = None /\ NoOrphanedBackend
  /\ runs' = [runs EXCEPT ![r] = run] /\ host' = r
  /\ ops' = IF run.op > ops THEN run.op ELSE ops
  /\ UNCHANGED <<evidence, machine, gate, attempt, flock, faults>>

(* An ordinary command; for the pool the number is its operation identity. *)
Fresh(t, p, i) == Command(IF Pool THEN "quiesce" ELSE p, t, ops + 1, NoJournal, i)
Admitted == ops < MaxOps /\ gate \in {Open, NoGate}

StartReinstall(r, t) ==
  NoEvidence /\ Whole /\ Admitted /\ Begin(r, Fresh(t, "inspect", 1))
StartApply(r, t) == Admitted /\ Begin(r, Fresh(t, "verify", 0))
StartApplyRecovery(r, t) ==
  /\ Pool /\ gate.phase = "recovery-required" /\ Diagnosed
  /\ Begin(r, Command("regate", t, gate.op, NoJournal, 0))
StartRecover(r, t) == Diagnosed /\ Begin(r, Command("recover", t, 0, NoJournal, 0))
StartContinue(r, t) ==
  Pool /\ gate # Open /\ Diagnosed /\ Begin(r, Command("continue", t, gate.op, NoJournal, 0))

-----------------------------------------------------------------------------
(* The gate, in the hands of the coordinator *)

GateOk(r) ==
  CASE At(r, "quiesce")  -> gate = Open
    [] At(r, "drain")    -> gate.op = runs[r].op /\ gate.phase = "quiesced"
    [] At(r, "regate")   -> gate.op = runs[r].op /\ gate.phase = "recovery-required"
    [] At(r, "applying") -> gate.op = runs[r].op /\ gate.phase \in {"drained", "recovery-required"}
    [] At(r, "verified") -> gate.op = runs[r].op /\ gate.phase = "applying"
                            /\ gate.target = runs[r].target
    [] At(r, "resume")   -> Pool => gate.op = runs[r].op /\ gate.phase = "verified"
    [] OTHER -> FALSE

SetGate(r, g, p) ==
  /\ host = r /\ GateOk(r) /\ gate' = g /\ Goto(r, p)
  /\ UNCHANGED <<evidence, machine, control, world>>

Quiesce(r) == At(r, "quiesce") /\
  SetGate(r, [phase |-> "quiesced", op |-> runs[r].op, target |-> runs[r].target], "drain")
Drain(r) == At(r, "drain") /\ ~attempt /\ SetGate(r, [gate EXCEPT !.phase = "drained"], "applying")
Regate(r) ==
  At(r, "regate") /\ ~attempt /\ SetGate(r, [gate EXCEPT !.target = runs[r].target], "applying")
Applying(r) == At(r, "applying") /\
  SetGate(r, [gate EXCEPT !.phase = "applying"], IF runs[r].i = 1 THEN "inspect" ELSE "verify")
Verified(r) == At(r, "verified") /\
  SetGate(r, [gate EXCEPT !.phase = "verified"],
          IF runs[r].digest = NoJournal THEN "resume" ELSE "complete")
Resume(r) ==
  /\ At(r, "resume") /\ host = r /\ GateOk(r) /\ ~attempt
  /\ gate' = (IF Pool THEN Open ELSE NoGate) /\ runs' = [runs EXCEPT ![r] = Idle] /\ host' = None
  /\ UNCHANGED <<evidence, machine, flock, world>>

(* A coordinator without its lock, or refused by the gate, leaves.         *)
LeaveGate(r) ==
  runs[r].at \in Coordinator /\ (host # r \/ ~GateOk(r)) /\ Refused(r)

-----------------------------------------------------------------------------
(* decommission *)

Retirable(r) ==
  /\ NoEvidence /\ Whole /\ tree.current # runs[r].target /\ Quiescent
  /\ archive[<<tree.current, runs[r].target>>].kept = {}
  /\ GateProof(r, {"applying"})

Inspect(r) ==
  /\ At(r, "inspect")
  /\ \/ Retirable(r)
        /\ runs' = [runs EXCEPT ![r].at = "lock", ![r].source = tree.current, ![r].units = units]
        /\ UNCHANGED <<evidence, machine, gate, control, world>>
     \/ ~Retirable(r) /\ Refused(r)

(* Under the operation lock everything but the release is looked at again. *)
StillRetirable(r) ==
  /\ flock = None /\ record = None /\ journal = NoJournal
  /\ units = runs[r].units /\ Quiescent /\ GateProof(r, {"applying"})
Lock(r) ==
  /\ At(r, "lock")
  /\ \/ StillRetirable(r) /\ flock' = r /\ Goto(r, "journal")
        /\ UNCHANGED <<evidence, machine, gate, host, world>>
     \/ ~StillRetirable(r) /\ Refused(r)

KeepRetiring(r, p) == Goto(r, p) /\ UNCHANGED <<gate, control, world>>

WriteJournal(r) ==
  /\ At(r, "journal") /\ KeepRetiring(r, "record")
  /\ journal' = [stage |-> "RESERVED", source |-> runs[r].source, target |-> runs[r].target,
                 op |-> runs[r].op]
  /\ UNCHANGED <<torn, record, archive, machine>>
WriteRecord(r) ==
  /\ At(r, "record") /\ record' = runs[r].target
  /\ runs' = [runs EXCEPT ![r].at = "stop", ![r].i = 1]
  /\ UNCHANGED <<journal, torn, archive, machine, gate, control, world>>

(* systemctl stop and disable, unit after unit; a worker of the Runner is  *)
(* killed with its unit or survives outside of it.                         *)
StopUnit(r) ==
  LET i == runs[r].i  u == Order[(i + 1) \div 2]
  IN /\ At(r, "stop") /\ i <= 6
     /\ IF i % 2 = 1 THEN units' = units \ {u} /\ UNCHANGED enabled
                     ELSE enabled' = enabled \ {u} /\ UNCHANGED units
     /\ IF i % 2 = 1 /\ u = "runner" /\ job = "running" THEN job' \in {"none", "detached"}
                                                        ELSE UNCHANGED job
     /\ runs' = [runs EXCEPT ![r].at = IF i = 6 THEN "check" ELSE "stop", ![r].i = i + 1 - i \div 6]
     /\ UNCHANGED <<evidence, tree, marker, gate, control, world>>

SetStage(s) == journal' = [journal EXCEPT !.stage = s]

CheckUnits(r) ==        \* mutant
  /\ At(r, "check") /\ units = {} /\ SetStage("SERVICES_STOPPED") /\ KeepRetiring(r, "archive")
  /\ UNCHANGED <<torn, record, archive, machine>>
CheckStopped(r) ==
  /\ At(r, "check")
  /\ \/ units = {} /\ Quiescent /\ SetStage("SERVICES_STOPPED") /\ KeepRetiring(r, "archive")
        /\ UNCHANGED <<torn, record, archive, machine>>
     \/ ~(units = {} /\ Quiescent) /\ Refused(r)

Filed(files) ==
  archive' = [archive EXCEPT ![<<journal.source, journal.target>>].kept = @ \cup files]
Archive(r) ==
  /\ At(r, "archive") /\ KeepRetiring(r, "rename")
  /\ Filed({"dir"} \cup IF marker THEN {"marker"} ELSE {}) /\ marker' = FALSE
  /\ UNCHANGED <<journal, torn, record, tree, units, enabled, job>>
Rename(r) ==
  /\ At(r, "rename") /\ KeepRetiring(r, "retired")
  /\ archive' = [archive EXCEPT ![<<journal.source, journal.target>>] =
                   [runtime |-> tree.current, op |-> Own.op, kept |-> Own.kept \cup {"runner"}]]
  /\ tree' = [dir |-> FALSE, current |-> None, runner |-> FALSE]
  /\ UNCHANGED <<journal, torn, record, marker, units, enabled, job>>
Retired(r) ==
  /\ At(r, "retired") /\ KeepRetiring(r, "restore") /\ SetStage("RUNTIME_RETIRED")
  /\ UNCHANGED <<torn, record, archive, machine>>
Restore(r) ==
  /\ At(r, "restore") /\ KeepRetiring(r, "decommissioned")
  /\ archive' = [archive EXCEPT ![<<journal.source, journal.target>>].kept = @ \ {"runner"}]
  /\ tree' = [dir |-> TRUE, current |-> None, runner |-> TRUE]
  /\ UNCHANGED <<journal, torn, record, marker, units, enabled, job>>
Decommissioned(r) ==
  /\ At(r, "decommissioned") /\ SetStage("DECOMMISSIONED") /\ flock' = None
  /\ runs' = [runs EXCEPT ![r] = Command("verify", runs[r].target, runs[r].op, journal', 0)]
  /\ UNCHANGED <<torn, record, archive, machine, gate, host, world>>

-----------------------------------------------------------------------------
(* The backend: operation state, begin, roles, clear *)

(* verify_reinstall_continuation: a journal needs its exact digest.        *)
JournalBound(r) ==
  /\ ~torn /\ runs[r].digest = journal
  /\ journal # NoJournal => journal.stage = "DECOMMISSIONED" /\ journal.target = runs[r].target
Verify(r) ==
  /\ At(r, "verify")
  /\ \/ host = r /\ JournalBound(r) /\ record \in {None, runs[r].target}
        /\ runs' = [runs EXCEPT ![r].at = "begin", ![r].seen = record # None]
        /\ UNCHANGED <<evidence, machine, gate, control, world>>
     \/ ~(host = r /\ JournalBound(r) /\ record \in {None, runs[r].target}) /\ Refused(r)

MayBegin(r) ==
  flock = None /\ record = IF runs[r].seen THEN runs[r].target ELSE None
BeginRecord(r) ==
  /\ At(r, "begin")
  /\ \/ MayBegin(r) /\ record' = runs[r].target /\ Goto(r, "install")
        /\ UNCHANGED <<journal, torn, archive, machine, gate, control, world>>
     \/ ~MayBegin(r) /\ Refused(r)
Install(r) ==
  /\ At(r, "install") /\ Goto(r, "clear")
  /\ tree' = [tree EXCEPT !.dir = TRUE, !.current = runs[r].target]
  /\ units' = units \cup {"timer"} /\ enabled' = enabled \cup {"timer"}
  /\ UNCHANGED <<evidence, marker, job, gate, control, world>>

Clear(r) ==
  /\ At(r, "clear")
  /\ \/ flock = None /\ record = runs[r].target /\ record' = None
        /\ Goto(r, IF runs[r].digest # NoJournal THEN "postcheck"
                   ELSE IF Pool THEN "verified" ELSE "resume")
        /\ UNCHANGED <<journal, torn, archive, machine, gate, control, world>>
     \/ ~(flock = None /\ record = runs[r].target) /\ Refused(r)

Checked(r) == host = r /\ JournalBound(r) /\ record = None /\ tree.current = runs[r].target
PostCheck(r) ==
  /\ At(r, "postcheck")
  /\ \/ Checked(r) /\ Goto(r, IF Pool THEN "verified" ELSE "complete")
        /\ UNCHANGED <<evidence, machine, gate, control, world>>
     \/ ~Checked(r) /\ Refused(r)

-----------------------------------------------------------------------------
(* complete *)

Completable(r) ==
  /\ host = r /\ flock = None /\ journal.stage = "DECOMMISSIONED"
  /\ journal.target = runs[r].target /\ journal.op = runs[r].op
  /\ record = None /\ tree.current = runs[r].target /\ GateProof(r, {"verified"})
  /\ "dir" \in Own.kept /\ "decommission" \notin Own.kept
Complete(r) ==
  /\ At(r, "complete")
  /\ \/ Completable(r) /\ SetStage("COMPLETE") /\ flock' = r /\ Goto(r, "filed")
        /\ UNCHANGED <<torn, record, archive, machine, gate, host, world>>
     \/ ~Completable(r) /\ Refused(r)
File(r) ==
  /\ At(r, "filed") /\ flock' = None /\ Goto(r, "resume") /\ journal' = NoJournal
  /\ archive' = [archive EXCEPT ![<<journal.source, journal.target>>] =
                   [runtime |-> Own.runtime, op |-> journal.op, kept |-> Own.kept \cup {"decommission"}]]
  /\ UNCHANGED <<torn, record, machine, gate, host, world>>

-----------------------------------------------------------------------------
(* continuation and continue: the pool's gate still names the operation *)

Restored(r) == tree.dir /\ tree.current \in {None, runs[r].target}
ContinuableOnce(r) ==   \* mutant: a completed reinstall is not continued
  /\ ~torn /\ Quiescent /\ GateProof(r, {"applying", "recovery-required", "verified"})
  /\ journal.stage = "DECOMMISSIONED" /\ journal.target = runs[r].target
  /\ journal.op = runs[r].op /\ record \in {None, runs[r].target} /\ Restored(r)
Continuable(r) ==
  /\ ~torn /\ Quiescent /\ GateProof(r, {"applying", "recovery-required", "verified"})
  /\ IF journal # NoJournal
     THEN /\ journal.stage = "DECOMMISSIONED" /\ journal.target = runs[r].target
          /\ journal.op = runs[r].op /\ journal.source # journal.target
          /\ Own.runtime = journal.source
          /\ record \in {None, runs[r].target} /\ Restored(r)
     ELSE /\ \E a \in Archives : a[2] = runs[r].target /\ archive[a].op = runs[r].op
                                 /\ "decommission" \in archive[a].kept
          /\ record = None /\ tree.current = runs[r].target
Continue(r) ==
  /\ At(r, "continue")
  /\ \/ Continuable(r) /\ runs' = [runs EXCEPT ![r].at = "requeue", ![r].digest = journal]
        /\ UNCHANGED <<evidence, machine, gate, control, world>>
     \/ ~Continuable(r) /\ Refused(r)

(* The helper moves the gate itself, whether its coordinator lives or not. *)
Requeue(r) ==
  /\ At(r, "requeue")
  /\ \/ gate.op = runs[r].op /\ gate' = [gate EXCEPT !.phase = "recovery-required"]
        /\ Goto(r, "retarget") /\ UNCHANGED <<evidence, machine, control, world>>
     \/ gate.op # runs[r].op /\ Refused(r)
Requeued(r) == gate.op = runs[r].op /\ gate.phase = "recovery-required" /\ ~attempt
Retarget(r) ==
  /\ At(r, "retarget")
  /\ \/ Requeued(r) /\ gate' = [gate EXCEPT !.target = runs[r].target]
        /\ Goto(r, "reapply") /\ UNCHANGED <<evidence, machine, control, world>>
     \/ ~Requeued(r) /\ Refused(r)
Reapply(r) ==
  /\ At(r, "reapply")
  /\ \/ gate.op = runs[r].op /\ gate.phase \in {"drained", "recovery-required", "applying"}
        /\ gate' = [gate EXCEPT !.phase = "applying"]
        /\ \E next \in {"repeat", "verify"} :      \* of a Git pair, or not
             Goto(r, IF runs[r].digest = NoJournal THEN "postcheck" ELSE next)
        /\ UNCHANGED <<evidence, machine, control, world>>
     \/ ~(gate.op = runs[r].op /\ gate.phase \in {"drained", "recovery-required", "applying"})
        /\ Refused(r)

(* A Git command asks for the same proof again, and reads the retained     *)
(* consumer once more under the lease of the Writer, before its cutover.   *)
Repeated(r) == host = r /\ runs[r].digest = journal /\ Continuable(r)
Repeat(r) ==
  /\ At(r, "repeat")
  /\ \/ Repeated(r) /\ Goto(r, "final") /\ UNCHANGED <<evidence, machine, gate, control, world>>
     \/ ~Repeated(r) /\ Refused(r)
RetainedConsumer(r) == host = r /\ GateProof(r, {"applying", "recovery-required", "verified"})
Final(r) ==
  /\ At(r, "final")
  /\ \/ RetainedConsumer(r) /\ Goto(r, "verify") /\ UNCHANGED <<evidence, machine, gate, control, world>>
     \/ ~RetainedConsumer(r) /\ Refused(r)

-----------------------------------------------------------------------------
(* recover: archive the evidence of a failed reinstall *)

Contained(r) ==
  Pool => /\ gate.phase \in {"quiesced", "drained", "recovery-required"} /\ NoneActive
          /\ gate.op = journal.op /\ gate.target = runs[r].target
RecoverableAnyhow(r) ==     \* mutant: the target need not be installed
  /\ flock = None /\ ~torn /\ journal.stage = "DECOMMISSIONED"
  /\ journal.target = runs[r].target /\ record = runs[r].target
  /\ Own.kept \cap {"journal", "apply", "decommission"} = {}
  /\ units \subseteq {"timer"} /\ Quiescent /\ Contained(r)
Recoverable(r) ==
  /\ flock = None /\ ~torn /\ journal.stage = "DECOMMISSIONED"
  /\ journal.target = runs[r].target /\ record = runs[r].target
  /\ Own.runtime = journal.source
  /\ Own.kept \cap {"journal", "apply", "decommission", "runner"} = {}
  /\ ~marker /\ tree.current = runs[r].target /\ tree.runner
  /\ units \subseteq {"timer"} /\ Quiescent /\ Contained(r)
Recover(r) ==
  /\ At(r, "recover")
  /\ \/ Recoverable(r) /\ flock' = r /\ Goto(r, "timer")
        /\ UNCHANGED <<evidence, machine, gate, host, world>>
     \/ ~Recoverable(r) /\ Refused(r)
StopTimer(r) ==
  /\ At(r, "timer") /\ units' = units \ {"timer"} /\ KeepRetiring(r, "again")
  /\ UNCHANGED <<evidence, tree, marker, enabled, job>>
Again(r) ==
  /\ At(r, "again")
  /\ \/ units = {} /\ Quiescent /\ Contained(r) /\ KeepRetiring(r, "copy")
        /\ UNCHANGED <<evidence, machine>>
     \/ ~(units = {} /\ Quiescent /\ Contained(r)) /\ Refused(r)
Copy(r) ==
  /\ At(r, "copy") /\ Filed({"journal"}) /\ KeepRetiring(r, "copied")
  /\ UNCHANGED <<journal, torn, record, machine>>
CopyLater(r) ==             \* mutant: retires the journal without its second copy
  /\ At(r, "copied") /\ KeepRetiring(r, "unlink") /\ UNCHANGED <<evidence, machine>>
Copied(r) ==
  /\ At(r, "copied") /\ Filed({"apply"}) /\ KeepRetiring(r, "unlink")
  /\ UNCHANGED <<journal, torn, record, machine>>
Unlink(r) ==
  /\ At(r, "unlink") /\ journal' = NoJournal /\ KeepRetiring(r, "unlinked")
  /\ UNCHANGED <<torn, record, archive, machine>>
Unlinked(r) ==
  /\ At(r, "unlinked") /\ record' = None /\ flock' = None
  /\ runs' = [runs EXCEPT ![r] = Idle] /\ host' = IF host = r THEN None ELSE host
  /\ UNCHANGED <<journal, torn, archive, machine, gate, world>>

-----------------------------------------------------------------------------
(* The host and its users *)

Keep == UNCHANGED <<evidence, tree, gate, runs, control, ops>>

JobStarts == "runner" \in units /\ job = "none" /\ job' = "running"
             /\ UNCHANGED <<marker, units, enabled, attempt, faults>> /\ Keep
JobEnds == job # "none" /\ job' = "none"
           /\ UNCHANGED <<marker, units, enabled, attempt, faults>> /\ Keep
AttemptStarts == gate = Open /\ ~attempt /\ attempt' = TRUE
                 /\ UNCHANGED <<machine, faults>> /\ Keep
AttemptEnds == attempt /\ attempt' = FALSE /\ UNCHANGED <<machine, faults>> /\ Keep
TimerFires == "timer" \in units /\ marker /\ units' = units \cup {"reviewer"}
              /\ units' # units /\ UNCHANGED <<marker, enabled, job, attempt, faults>> /\ Keep
(* runner-enable and activate: the owner brings an installation up.        *)
Enable == NoEvidence /\ Whole /\ flock = None /\ units \cup enabled # Units
          /\ units' = Units /\ enabled' = Units /\ marker' = TRUE
          /\ UNCHANGED <<job, attempt, faults>> /\ Keep

Fault == faults < MaxFaults /\ faults' = faults + 1
(* A run fails; while it rewrites the journal it may leave the .next file. *)
Fail(r) ==
  /\ Fault /\ runs[r] # Idle /\ Stopped(r)
  /\ torn' \in {torn, torn \/ runs[r].at \in {"stop", "check", "retired", "decommissioned", "complete"}}
  /\ UNCHANGED <<journal, record, archive, machine, attempt, ops>>
LoseHost ==
  /\ Fault /\ host # None /\ host' = None
  /\ UNCHANGED <<evidence, machine, gate, runs, flock, attempt, ops>>
Reboot ==
  /\ Fault /\ runs' = [r \in Runs |-> Idle] /\ host' = None /\ flock' = None
  /\ units' = enabled /\ job' = "none" /\ attempt' = FALSE
  /\ UNCHANGED <<evidence, tree, marker, enabled, gate, ops>>

Environment == \/ JobStarts \/ JobEnds \/ AttemptStarts \/ AttemptEnds \/ TimerFires \/ Enable
               \/ LoseHost \/ Reboot
Owner(r) == \E t \in Releases :
  \/ StartReinstall(r, t) \/ StartApply(r, t) \/ StartApplyRecovery(r, t)
  \/ StartRecover(r, t) \/ StartContinue(r, t)
Step(r) ==
  \/ Quiesce(r) \/ Drain(r) \/ Regate(r) \/ Applying(r) \/ Verified(r) \/ Resume(r) \/ LeaveGate(r)
  \/ Inspect(r) \/ Lock(r) \/ WriteJournal(r) \/ WriteRecord(r) \/ StopUnit(r) \/ CheckStopped(r)
  \/ Archive(r) \/ Rename(r) \/ Retired(r) \/ Restore(r) \/ Decommissioned(r)
  \/ Verify(r) \/ BeginRecord(r) \/ Install(r) \/ Clear(r) \/ PostCheck(r) \/ Complete(r) \/ File(r)
  \/ Continue(r) \/ Requeue(r) \/ Retarget(r) \/ Reapply(r) \/ Repeat(r) \/ Final(r)
  \/ Recover(r) \/ StopTimer(r) \/ Again(r) \/ Copy(r) \/ Copied(r) \/ Unlink(r) \/ Unlinked(r)
Next == Environment \/ \E r \in Runs : Owner(r) \/ Step(r) \/ Fail(r)
Spec == Init /\ [][Next]_vars

-----------------------------------------------------------------------------
(* Properties *)

(* Without a journal, its .next file or an operation record, the namespace *)
(* has a complete installation with its runner: neither a retirement nor   *)
(* an install nor a disposition that stops at any step goes unrecorded; and *)
(* the pool's gate opens only when none of these records is left, also      *)
(* after a reinstall was continued.                                         *)
UnfinishedIsRecorded == (NoEvidence => Whole) /\ (gate = Open => NoEvidence)

(* When the journal is gone from its place, every retired runtime has its  *)
(* evidence in its archive: the completed journal, or both files of the    *)
(* failed reinstall that was disposed of.                                  *)
EvidenceArchived ==
  journal = NoJournal => \A a \in Archives : archive[a].runtime # None =>
    "decommission" \in archive[a].kept \/ {"journal", "apply"} \subseteq archive[a].kept

(* The runtime is moved away only when its units are down and no worker is *)
(* left anywhere, also not one that outlived the stop of its unit.         *)
RetiredQuietly ==
  [][(\E a \in Archives : archive'[a].runtime # archive[a].runtime)
       => units = {} /\ job = "none" /\ (Pool => ~attempt)]_vars

-----------------------------------------------------------------------------
(* The owner continues an interrupted pool reinstall until admission opens *)

Fairness ==
  /\ \A r \in Runs : WF_vars(Step(r))
  /\ WF_vars(JobEnds) /\ WF_vars(AttemptEnds)
  /\ \A t \in Releases : SF_vars(\E r \in Runs : StartContinue(r, t))
FairSpec == Init /\ [][Next]_vars /\ Fairness

(* What the README promises to continue: the target is decommissioned, or  *)
(* completed with a resume that failed, and its operation holds the gate.  *)
Continuing ==
  /\ Pool /\ gate # Open /\ ~torn
  /\ \/ /\ journal.stage = "DECOMMISSIONED" /\ journal.op = gate.op
        /\ gate.target = journal.target
     \/ /\ NoEvidence /\ tree.current = gate.target
        /\ \E a \in Archives : a[2] = gate.target /\ archive[a].op = gate.op
                            /\ "decommission" \in archive[a].kept

(* An interrupted pool reinstall does not stay interrupted: the owner who  *)
(* reruns it under its operation brings it to the open gate, or disposes   *)
(* of it, once its runner is given no more jobs.                           *)
ContinuationEnds == <>[](job = "none") => []<>~Continuing
=============================================================================
