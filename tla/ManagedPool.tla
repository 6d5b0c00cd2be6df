----------------------------- MODULE ManagedPool -----------------------------
(***************************************************************************)
(* The shared General Runner pool (deploy/managed_pool.py).  Owner Apply   *)
(* of any installation that uses the pool runs one bounded pass under the  *)
(* pool's lock: members up to the desired capacity are registered at       *)
(* GitHub, labelled and started, members beyond it are drained, stopped,   *)
(* unregistered and removed.  pool.json holds what the pool owns; every    *)
(* mutation at GitHub is preceded by its reservation there.                *)
(*                                                                         *)
(* Around the pass: GitHub matches jobs to labelled runners, the runner's  *)
(* listener takes them and spawns workers, a worker may leave an attempt   *)
(* that still names its slot; a pass may die or raise at every step; the   *)
(* runner's own config.sh has three effects and may stop between them.     *)
(***************************************************************************)
EXTENDS Integers, FiniteSets

CONSTANTS Capacity,      \* members are numbered 1..Capacity
          Consumers,     \* the installations that share the pool
          MaxId,         \* bound: registrations GitHub ever creates
          MaxFaults      \* bound: passes and config.sh processes that die

ASSUME CapacityAssumption == Capacity \in Nat \ {0}
ASSUME ConsumersAssumption == "nobody" \notin Consumers
ASSUME BoundAssumption == MaxId \in Nat /\ MaxFaults \in Nat

Members == 1..Capacity
Ids     == 1..MaxId

VARIABLES pool,      \* pool.json: owner, capacity, consumers, member records
          remote,    \* the organisation's runners, by name
          local,     \* .runner and .credentials in the member's root
          service,   \* the member's systemd unit
          files,     \* the runner package in the member's root
          job,       \* the GitHub job of the member
          attempt,   \* the consumer whose unfinished attempt names the member
          config,    \* the config.sh process
          pass,      \* the reconciliation that holds the lock
          lastId, faults

vars == <<pool, remote, local, service, files, job, attempt, config, pass, lastId, faults>>

NoRecord  == [phase |-> "none", id |-> 0]
NoRunner  == [id |-> 0, labels |-> FALSE, ours |-> FALSE]
NoConsumer == "nobody"
NoPass    == [at |-> "none", desired |-> 0, m |-> 0]
NoConfig  == [m |-> 0, step |-> "none"]

Partial == -1        \* some of the registration files, not all
Phases  == {"register", "registered", "starting", "ready", "draining", "remove"}
Points  == {"member", "configure", "configuring", "labelled", "start", "wait",
            "unlabel", "busy", "attempts", "freeze", "inspect", "final", "signal",
            "stopped", "remove", "removing", "retire", "drop"}

TypeOK ==
  /\ pool \in [owner : Consumers \cup {NoConsumer}, desired : 0..Capacity,
               consumers : SUBSET Consumers,
               rec : [Members -> {NoRecord} \cup [phase : Phases, id : 0..MaxId]]]
  /\ remote \in [Members -> [id : 0..MaxId, labels : BOOLEAN, ours : BOOLEAN]]
  /\ local \in [Members -> {Partial} \cup 0..MaxId]
  /\ service \in [Members -> {"inactive", "active", "frozen", "stopping"}]
  /\ files \in [Members -> {"absent", "partial", "whole"}]
  /\ job \in [Members -> {"none", "matched", "assigned", "running", "lost"}]
  /\ attempt \in [Members -> Consumers \cup {NoConsumer}]
  /\ config \in {NoConfig} \cup [m : Members, step : {"add", "added", "adding",
                                                      "delete", "deleted", "deleting"}]
  /\ pass \in {NoPass} \cup [at : Points, desired : Members, m : Members]
  /\ lastId \in 0..MaxId /\ faults \in 0..MaxFaults

Init ==
  /\ pool = [owner |-> NoConsumer, desired |-> 0, consumers |-> {},
             rec |-> [m \in Members |-> NoRecord]]
  /\ remote = [m \in Members |-> NoRunner] /\ local = [m \in Members |-> 0]
  /\ service = [m \in Members |-> "inactive"] /\ files = [m \in Members |-> "absent"]
  /\ job = [m \in Members |-> "none"] /\ attempt = [m \in Members |-> NoConsumer]
  /\ config = NoConfig /\ pass = NoPass /\ lastId = 0 /\ faults = 0

-----------------------------------------------------------------------------
(* What a pass can see *)

At(point)  == pass.at = point
M          == pass.m
Rec        == pool.rec[M]
Excess     == M > pass.desired
Busy(m)    == job[m] \in {"assigned", "running"}
Worker(m)  == job[m] \in {"running", "lost"}

(* attempts_idle: no consumer's admission reports an active or unknown run. *)
AttemptsIdle == \A m \in Members : attempt[m] \notin pool.consumers

(* The same runner at GitHub and on the host, in the pool's group.          *)
BoundTo(m, id) == id # 0 /\ local[m] = id /\ remote[m].id = id /\ remote[m].ours

Write(r)     == pool' = [pool EXCEPT !.rec[M] = r]
SetPhase(p)  == Write([Rec EXCEPT !.phase = p])
Goto(point)  == pass' = [pass EXCEPT !.at = point]
NextMember   == pass' = IF M = Capacity THEN NoPass
                        ELSE [pass EXCEPT !.at = "member", !.m = M + 1]
Outside      == UNCHANGED <<attempt, lastId, faults>>

-----------------------------------------------------------------------------
(* The installation plan that precedes every pass, and the packages the     *)
(* roles install by it.                                                     *)

Inspected(d) == {m \in Members : m <= d \/ pool.rec[m] # NoRecord}

InstallationPlan(d) == \A m \in Inspected(d) :
  LET r == pool.rec[m] IN
  /\ service[m] # "stopping"
  /\ r = NoRecord => local[m] = 0 /\ service[m] = "inactive"
  /\ r # NoRecord /\ r.phase # "remove" =>
       /\ local[m] # Partial
       /\ \/ r.phase = "register" /\ (local[m] = 0 \/ r.id \in {0, local[m]})
          \/ local[m] # 0 /\ local[m] = r.id
       /\ files[m] = "whole" \/ (service[m] = "inactive" /\ local[m] = 0)

Installed(d) == [m \in Members |->
  IF m <= d /\ pool.rec[m].phase # "remove" THEN "whole" ELSE files[m]]

(* The owner's configuration decides d; other installations must agree.    *)
Begin(c, d) ==
  /\ pass = NoPass /\ config = NoConfig
  /\ pool.owner \in {NoConsumer, c} \/ pool.desired = d
  /\ InstallationPlan(d)
  /\ files' = Installed(d)
  /\ pool' = [pool EXCEPT !.owner = IF @ = NoConsumer THEN c ELSE @,
                          !.desired = d, !.consumers = @ \cup {c}]
  /\ pass' = [at |-> "member", desired |-> d, m |-> 1]
  /\ UNCHANGED <<remote, local, service, job, config>> /\ Outside

-----------------------------------------------------------------------------
(* A member within the capacity *)

Skip ==
  /\ At("member") /\ Excess /\ Rec = NoRecord /\ remote[M] = NoRunner
  /\ NextMember
  /\ UNCHANGED <<pool, remote, local, service, files, job, config>> /\ Outside

ReserveLater ==
  /\ At("member") /\ ~Excess /\ Rec = NoRecord
  /\ local[M] = 0 /\ remote[M] = NoRunner
  /\ Goto("configure")
  /\ UNCHANGED <<pool, remote, local, service, files, job, config>> /\ Outside

Reserve ==
  /\ At("member") /\ ~Excess /\ Rec = NoRecord
  /\ local[M] = 0 /\ remote[M] = NoRunner
  /\ Write([phase |-> "register", id |-> 0])
  /\ Goto("configure")
  /\ UNCHANGED <<remote, local, service, files, job, config>> /\ Outside

Configure ==
  /\ At("configure")
  /\ config' = [m |-> M, step |-> "add"]
  /\ Goto("configuring")
  /\ UNCHANGED <<pool, remote, local, service, files, job>> /\ Outside

(* config.sh returned 0: local and remote are read again.                   *)
Configured ==
  /\ At("configuring") /\ config = NoConfig
  /\ Goto("member")
  /\ UNCHANGED <<pool, remote, local, service, files, job, config>> /\ Outside

Registered ==
  /\ At("member") /\ Rec.phase = "register" /\ BoundTo(M, local[M])
  /\ Write([phase |-> "registered", id |-> local[M]])
  /\ UNCHANGED <<remote, local, service, files, job, config, pass>> /\ Outside

Held == Rec.phase \in {"registered", "starting", "ready", "draining"} /\ BoundTo(M, Rec.id)

Label ==
  /\ At("member") /\ ~Excess /\ Held
  /\ remote' = [remote EXCEPT ![M].labels = TRUE]
  /\ Goto("labelled")
  /\ UNCHANGED <<pool, local, service, files, job, config>> /\ Outside

Starting ==
  /\ At("labelled") /\ remote[M].labels
  /\ IF Rec.phase \in {"registered", "draining"}
     THEN SetPhase("starting") /\ Goto("start")
     ELSE Goto("wait") /\ UNCHANGED pool
  /\ UNCHANGED <<remote, local, service, files, job, config>> /\ Outside

(* systemctl enable --now: a start job replaces a stop that is under way,   *)
(* and does nothing to an active unit, frozen or not.                       *)
StartService ==
  /\ At("start")
  /\ service' = [service EXCEPT ![M] = IF @ = "frozen" THEN @ ELSE "active"]
  /\ Goto("wait")
  /\ UNCHANGED <<pool, remote, local, files, job, config>> /\ Outside

WaitReady ==
  /\ At("wait") /\ BoundTo(M, Rec.id) /\ service[M] \in {"active", "frozen"}
  /\ SetPhase("ready")
  /\ NextMember
  /\ UNCHANGED <<remote, local, service, files, job, config>> /\ Outside

-----------------------------------------------------------------------------
(* A member beyond the capacity *)

DrainUnrecorded ==
  /\ At("member") /\ Excess /\ Held
  /\ Goto("unlabel")
  /\ UNCHANGED <<pool, remote, local, service, files, job, config>> /\ Outside

Drain ==
  /\ At("member") /\ Excess /\ Held
  /\ SetPhase("draining")
  /\ Goto("unlabel")
  /\ UNCHANGED <<remote, local, service, files, job, config>> /\ Outside

Unlabel ==
  /\ At("unlabel") /\ remote[M].ours
  /\ remote' = [remote EXCEPT ![M].labels = FALSE]
  /\ Goto("busy")
  /\ UNCHANGED <<pool, local, service, files, job, config>> /\ Outside

(* A step of the drain that decides nothing but how the pass goes on.       *)
Look(point, proven, next) ==
  /\ At(point)
  /\ IF proven THEN Goto(next) ELSE NextMember
  /\ UNCHANGED <<pool, remote, local, files, job, config>> /\ Outside

ReadBusy ==
  /\ remote[M] # NoRunner /\ ~remote[M].labels
  /\ Look("busy", ~Busy(M), "attempts") /\ UNCHANGED service

ReadAttempts == Look("attempts", AttemptsIdle, "freeze") /\ UNCHANGED service

AlreadyStoppedRefused ==
  /\ pass.m \in Members /\ service[M] = "inactive"
  /\ Look("freeze", FALSE, "remove") /\ UNCHANGED service

(* stop_idle on a unit that is down already.                                *)
AlreadyStopped ==
  /\ pass.m \in Members /\ service[M] = "inactive"
  /\ Look("freeze", TRUE, "remove") /\ UNCHANGED service

Freeze ==
  /\ pass.m \in Members /\ service[M] \in {"active", "frozen"}
  /\ Look("freeze", TRUE, "inspect")
  /\ service' = [service EXCEPT ![M] = "frozen"]

ThawUnless(proven) == service' = IF proven THEN service ELSE [service EXCEPT ![M] = "active"]

(* Only the listener and its scripts run in the unit.                       *)
Inspect ==
  /\ pass.m \in Members
  /\ Look("inspect", ~Worker(M), "final") /\ ThawUnless(~Worker(M))

RemoteIdleUnasked == Look("final", TRUE, "signal") /\ UNCHANGED service

RemoteIdle ==
  /\ pass.m \in Members /\ remote[M] # NoRunner
  /\ Look("final", ~Busy(M), "signal") /\ ThawUnless(~Busy(M))

(* kill, disable and stop while frozen, then thaw.                          *)
Signal ==
  /\ Look("signal", TRUE, "stopped")
  /\ service' = [service EXCEPT ![M] = "stopping"]

(* stopped(): the unit is down, or the five seconds are over.               *)
Stopped ==
  /\ pass.m \in Members
  /\ Look("stopped", service[M] = "inactive", "remove") /\ UNCHANGED service

Remove ==
  /\ At("remove")
  /\ SetPhase("remove")
  /\ config' = [m |-> M, step |-> "delete"]
  /\ Goto("removing")
  /\ UNCHANGED <<remote, local, service, files, job>> /\ Outside

Removed ==
  /\ At("removing") /\ config = NoConfig /\ local[M] = 0 /\ remote[M] = NoRunner
  /\ Goto("retire")
  /\ UNCHANGED <<pool, remote, local, service, files, job, config>> /\ Outside

(* A removal that an earlier pass reserved, observed absent at GitHub.      *)
CleanUp ==
  /\ At("member") /\ Rec.phase = "remove"
  /\ remote[M] = NoRunner /\ AttemptsIdle /\ service[M] = "inactive"
  /\ local' = [local EXCEPT ![M] = 0]
  /\ Goto("retire")
  /\ UNCHANGED <<pool, remote, service, files, job, config>> /\ Outside

(* The unit and the two directories go one after the other.                 *)
Retire ==
  /\ At("retire")
  /\ \E left \in {"partial", "absent"} :
       /\ files' = [files EXCEPT ![M] = left]
       /\ IF left = "absent" THEN Goto("drop") ELSE UNCHANGED pass
  /\ UNCHANGED <<pool, remote, local, service, job, config>> /\ Outside

Drop ==
  /\ At("drop")
  /\ Write(NoRecord)
  /\ NextMember
  /\ UNCHANGED <<remote, local, service, files, job, config>> /\ Outside

-----------------------------------------------------------------------------
(* Passes that end early.  A raise inside the frozen section thaws.         *)

Mismatch ==
  \/ /\ At("member")
     /\ \/ Rec = NoRecord /\ (remote[M] # NoRunner \/ (~Excess /\ local[M] # 0))
        \/ Rec.phase = "register" /\ ~BoundTo(M, local[M])
        \/ Rec.phase \in {"registered", "starting", "ready", "draining"} /\ ~BoundTo(M, Rec.id)
        \/ Rec.phase = "remove"
           /\ (remote[M] # NoRunner \/ ~AttemptsIdle \/ service[M] # "inactive")
  \/ At("labelled") /\ ~remote[M].labels
  \/ At("wait") /\ ~(BoundTo(M, Rec.id) /\ service[M] \in {"active", "frozen"})
  \/ At("unlabel") /\ ~remote[M].ours
  \/ At("busy") /\ (remote[M] = NoRunner \/ remote[M].labels)
  \/ At("freeze") /\ service[M] = "stopping"
  \/ At("final") /\ remote[M] = NoRunner
  \/ At("removing") /\ config = NoConfig /\ (local[M] # 0 \/ remote[M] # NoRunner)

Thawed == IF pass.at \in {"inspect", "final", "signal"}
          THEN [service EXCEPT ![M] = IF @ = "frozen" THEN "active" ELSE @] ELSE service

Raise ==
  /\ Mismatch
  /\ pass' = NoPass /\ service' = Thawed
  /\ UNCHANGED <<pool, remote, local, files, job, config>> /\ Outside

(* An API call, a command or a write fails: PoolError at any step.          *)
Fail ==
  /\ pass # NoPass /\ faults < MaxFaults
  /\ pass' = NoPass /\ service' = Thawed /\ faults' = faults + 1
  /\ UNCHANGED <<pool, remote, local, files, job, attempt, config, lastId>>

(* The process is killed: nothing is thawed, config.sh goes on.             *)
Die ==
  /\ pass # NoPass /\ faults < MaxFaults
  /\ pass' = NoPass /\ faults' = faults + 1
  /\ UNCHANGED <<pool, remote, local, service, files, job, attempt, config, lastId>>

-----------------------------------------------------------------------------
(* config.sh, systemd, GitHub and the jobs (external)                       *)

ConfigStep(from, to) == config.step = from
                        /\ config' = IF to = "done" THEN NoConfig ELSE [config EXCEPT !.step = to]
KeepHost == UNCHANGED <<pool, service, files, job, attempt, pass, faults>>

(* GitHub refuses a second runner of the same name.                         *)
AddRemote ==
  /\ ConfigStep("add", "added")
  /\ remote[config.m] = NoRunner /\ lastId < MaxId
  /\ lastId' = lastId + 1
  /\ remote' = [remote EXCEPT ![config.m] = [id |-> lastId', labels |-> TRUE, ours |-> TRUE]]
  /\ UNCHANGED local /\ KeepHost

AddLocal ==
  /\ \/ ConfigStep("added", "adding") /\ local' = [local EXCEPT ![config.m] = Partial]
     \/ ConfigStep("adding", "done")
        /\ local' = [local EXCEPT ![config.m] = remote[config.m].id]
  /\ UNCHANGED <<remote, lastId>> /\ KeepHost

DeleteRemote ==
  /\ ConfigStep("delete", "deleted")
  /\ remote' = [remote EXCEPT ![config.m] = IF remote[config.m].ours THEN NoRunner ELSE @]
  /\ UNCHANGED <<local, lastId>> /\ KeepHost

DeleteLocal ==
  /\ \/ ConfigStep("deleted", "deleting") /\ local' = [local EXCEPT ![config.m] = Partial]
     \/ ConfigStep("deleting", "done") /\ local' = [local EXCEPT ![config.m] = 0]
  /\ UNCHANGED <<remote, lastId>> /\ KeepHost

(* config.sh stops early; a pass that waits for it sees the exit code.      *)
ConfigDies ==
  /\ config # NoConfig /\ (faults < MaxFaults \/ config.step = "add")
  /\ config' = NoConfig /\ pass' = NoPass
  /\ faults' = IF config.step = "add" THEN faults ELSE faults + 1
  /\ UNCHANGED <<pool, remote, local, service, files, job, attempt, lastId>>

StopDone(m) ==
  /\ service[m] = "stopping"
  /\ service' = [service EXCEPT ![m] = "inactive"]
  /\ job' = [job EXCEPT ![m] = "none"]
  /\ UNCHANGED <<pool, remote, local, files, attempt, config, pass, lastId, faults>>

(* GitHub forgets a runner that stays offline, and names are free to others.*)
Expire(m) ==
  /\ remote[m].ours /\ service[m] # "active" /\ config.m # m /\ faults < MaxFaults
  /\ remote' = [remote EXCEPT ![m] = NoRunner]
  /\ faults' = faults + 1
  /\ UNCHANGED <<pool, local, service, files, job, attempt, config, pass, lastId>>

Foreign(m) ==
  /\ remote[m] = NoRunner /\ config.m # m /\ lastId < MaxId /\ faults < MaxFaults
  /\ lastId' = lastId + 1 /\ faults' = faults + 1
  /\ remote' = [remote EXCEPT ![m] = [id |-> lastId', labels |-> TRUE, ours |-> FALSE]]
  /\ UNCHANGED <<pool, local, service, files, job, attempt, config, pass>>

SetJob(m, from, to) ==
  /\ job[m] = from /\ job' = [job EXCEPT ![m] = to]
  /\ UNCHANGED <<pool, remote, local, service, files, config, pass, lastId, faults>>

(* GitHub matches by label to an online runner; the listener acquires.      *)
Match(m) ==
  /\ remote[m].ours /\ remote[m].labels /\ service[m] \in {"active", "frozen"}
  /\ local[m] = remote[m].id
  /\ SetJob(m, "none", "matched") /\ UNCHANGED attempt

Requeue(m) == SetJob(m, "matched", "none") /\ UNCHANGED attempt

Acquire(m) ==
  service[m] = "active" /\ remote[m].ours /\ SetJob(m, "matched", "assigned") /\ UNCHANGED attempt

Spawn(m) == service[m] = "active" /\ SetJob(m, "assigned", "running") /\ UNCHANGED attempt

BeginAttempt(m, c) ==
  /\ job[m] = "running" /\ service[m] = "active"
  /\ attempt[m] = NoConsumer /\ c \in pool.consumers
  /\ attempt' = [attempt EXCEPT ![m] = c] /\ SetJob(m, "running", "running")

EndJob(m) ==
  /\ service[m] = "active" /\ Worker(m)
  /\ SetJob(m, job[m], "none") /\ UNCHANGED attempt

(* GitHub gives up a job whose runner stays silent; its processes remain.   *)
Lose(m) ==
  /\ service[m] = "frozen" /\ Busy(m)
  /\ SetJob(m, job[m], IF Worker(m) THEN "lost" ELSE "none") /\ UNCHANGED attempt

(* The controller finishes, or the owner's recovery settles what it left.   *)
EndAttempt(m) ==
  /\ attempt[m] # NoConsumer /\ (Worker(m) => service[m] = "active") /\ attempt' = [attempt EXCEPT ![m] = NoConsumer]
  /\ UNCHANGED <<pool, remote, local, service, files, job, config, pass, lastId, faults>>

-----------------------------------------------------------------------------
Register == \/ Skip \/ Reserve \/ Configure \/ Configured \/ Registered
            \/ Label \/ Starting \/ StartService \/ WaitReady
Unregister == \/ Drain \/ Unlabel \/ ReadBusy \/ ReadAttempts \/ AlreadyStopped
              \/ Freeze \/ Inspect \/ RemoteIdle \/ Signal \/ Stopped
              \/ Remove \/ Removed \/ CleanUp \/ Retire \/ Drop
Reconcile == pass # NoPass /\ (Register \/ Unregister \/ Raise)
ConfigSh  == AddRemote \/ AddLocal \/ DeleteRemote \/ DeleteLocal
Jobs(m)   == \/ Match(m) \/ Requeue(m) \/ Acquire(m) \/ Spawn(m) \/ EndJob(m)
             \/ Lose(m) \/ EndAttempt(m) \/ \E c \in Consumers : BeginAttempt(m, c)

Next ==
  \/ \E c \in Consumers, d \in Members : Begin(c, d)
  \/ Reconcile \/ ConfigSh \/ ConfigDies \/ Fail \/ Die
  \/ \E m \in Members : StopDone(m) \/ Jobs(m) \/ Expire(m) \/ Foreign(m)

Spec == Init /\ [][Next]_vars

-----------------------------------------------------------------------------
(* A job that GitHub handed to a member keeps its whole runner until it     *)
(* ends: no pass stops the unit, removes the registration or the package    *)
(* under it, whatever was matched before the labels were taken away         *)
(* (stop_idle freezes, looks, asks GitHub again and only then signals).     *)
JobsKeepTheirRunner == \A m \in Members : Busy(m) \/ Worker(m) =>
  /\ service[m] \in {"active", "frozen"} /\ files[m] = "whole"
  /\ local[m] # 0 /\ pool.rec[m].phase # "remove"

(* Whatever config.sh left at GitHub or on the host, after any death, is    *)
(* recorded in pool.json, and a bound record names the registration.        *)
RegistrationsAreOwned == \A m \in Members :
  /\ remote[m].ours \/ local[m] # 0 => pool.rec[m] # NoRecord
  /\ remote[m].ours /\ pool.rec[m].id # 0 => remote[m].id = pool.rec[m].id

(* A ready record is never trusted for a unit that a drain has stopped: a   *)
(* pass that finds it ready does not start it again.                        *)
ReadyIsUp == \A m \in Members :
  pool.rec[m].phase = "ready" => service[m] \in {"active", "frozen"}

-----------------------------------------------------------------------------
(* Fairness: the owner applies again and again, a pass and config.sh go on, *)
(* systemd finishes a stop, jobs end and attempts are settled.              *)
Fairness ==
  /\ \A c \in Consumers : WF_vars(\E d \in Members : d = pool.desired /\ Begin(c, d))
  /\ WF_vars(Reconcile) /\ WF_vars(ConfigSh)
  /\ \A m \in Members : /\ WF_vars(StopDone(m)) /\ WF_vars(Requeue(m) \/ Acquire(m))
                         /\ SF_vars(Spawn(m)) /\ SF_vars(EndJob(m)) /\ WF_vars(Lose(m))
                         /\ SF_vars(EndAttempt(m))
FairSpec == Spec /\ Fairness

NeedsInspection(m) ==
  \/ pool.rec[m].phase = "register" /\ ~BoundTo(m, local[m])
  \/ pool.rec[m].phase \in {"registered", "starting", "ready", "draining"} /\ ~BoundTo(m, pool.rec[m].id)
  \/ pool.rec[m].phase = "remove" /\ remote[m] # NoRunner
  \/ pool.rec[m].phase = "starting" /\ service[m] = "inactive"

Quiet(m) == \A n \in Members \ {m} : job[n] = "none" /\ attempt[n] = NoConsumer

(* A member beyond the capacity goes, if the owner keeps the capacity and   *)
(* applies again, and the other members come to rest (attempts_idle asks    *)
(* for the whole pool), unless a registration or a start needs the owner or *)
(* a killed pass left the unit frozen.                                      *)
LeftFrozen(m) == pass = NoPass /\ service[m] = "frozen"
Gone(m) == pool.rec[m] = NoRecord \/ \E n \in Members : NeedsInspection(n)
DrainEnds == \A m \in Members :
  <>[](m > pool.desired /\ Quiet(m)) => []<>(Gone(m) \/ LeftFrozen(m))

(* reconcile: "Busy members remain drained for a later Apply."              *)
BusyDrainsLater == \A m \in Members :
  <>[](m > pool.desired /\ Quiet(m)) => []<>Gone(m)
=============================================================================
