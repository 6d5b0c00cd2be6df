--------------------------- MODULE PreparedInstall ---------------------------
(***************************************************************************)
(* One installation of a Git pair on an installed host, from its private   *)
(* stage to the open gate (the lifecycle branch of relay-deploy.py with    *)
(* PreparedInstall of install_preflight.py): the stage is sealed while the *)
(* gate is open, a drifted consumer is restored, the gate is closed, and   *)
(* under the lease the sealed bytes are consumed.  A command that fails    *)
(* before the cutover reopens the old gate; a later one is recovered by a  *)
(* command that stages and consumes again.                                 *)
(*                                                                         *)
(* Attempts, the record of the backend and the steps of the publisher are  *)
(* in AdmissionGate, GitInstall and ConsumerPublication.  Before another   *)
(* command starts, the owner has diagnosed that no backend of a dead one   *)
(* runs; the holder of its lease may.                                      *)
(***************************************************************************)
EXTENDS IntentStage

VARIABLES s,   \* the command of the owner
          ops  \* operations so far

vars == <<driftVars, holder, faults, staged, s, ops>>
host == <<driftVars, staged>>

Preparation == {"create", "extract", "lockA", "target", "releaseA", "capture", "rust", "reviewer", "runner", "codex", "seal", "prove"}
Reservation == {"drift", "drifting", "quiesce", "drain", "applying", "retarget", "reapply", "lock", "final"}
Cutover     == {"destination", "copy", "toolchain", "tools", "manifest", "switch", "unpack", "unpacked",
                "unlink", "link", "publish", "look", "rename", "release"}
Closing     == {"verified", "resume"}
Idle == [kind |-> None, at |-> "idle", op |-> 0, target |-> None, config |-> None,
         captured |-> FALSE, holds |-> FALSE, copied |-> {},
         late |-> FALSE]  \* history: the consumer was edited after the last look

TypeOK ==
  /\ DriftTypeOK /\ StageTypeOK /\ ops \in 0..MaxOps
  /\ s \in [kind : {"install", "recover", "bounded", None}, op : 0..MaxOps, target : Targets \cup {None},
            config : Configs \cup {None}, captured : BOOLEAN, holds : BOOLEAN,
            copied : SUBSET {"source", "reviewer"}, late : BOOLEAN,
            at : Preparation \cup Reservation \cup Cutover \cup Closing \cup {"idle", "stopped"}]

Init == DriftInit /\ StageInit /\ s = Idle /\ ops = 0

At(step)   == s.at = step
Goto(next) == s' = [s EXCEPT !.at = next]
Mine       == gate.op = s.op
Held       == s.holds /\ holder = s.op

\* A step of the preparation or of the consumption; one at the gate.
Does(step, action, next) == /\ At(step) /\ action /\ Goto(next)
                            /\ UNCHANGED <<driftVars, holder>>
ByHelper == IF s.kind = "bounded" /\ s.holds THEN Held ELSE WriterFree
Gates(step, phases, next, value) ==
  /\ At(step) /\ ByHelper /\ Readable /\ Mine /\ gate.phase \in phases
  /\ gate' = value /\ Goto(next)
  /\ UNCHANGED <<consumer, kept, context, drift, holder, staged>>

----------------------------------------------------------------------------
(* The commands *)

Command(kind, o, t, c) ==
  /\ At("idle") /\ s' = [Idle EXCEPT !.kind = kind, !.at = "create", !.op = o, !.target = t, !.config = c]
  /\ UNCHANGED <<host, holder, faults>>
Install(t, c) == /\ ops < MaxOps /\ ops' = ops + 1 /\ gate.phase = "open"
                 /\ t # current \/ Digest[c] # Digest[consumer]
                 /\ Command("install", ops + 1, t, c)
Recover(c)    == /\ gate.phase = "recovery-required" /\ Readable
                 /\ Command("recover", gate.op, gate.target, c) /\ UNCHANGED ops
\* To another target; which originals admit one is in RetainedRecovery.
Bounded(t, c) == /\ gate.phase = "recovery-required" /\ t # gate.target /\ Readable
                 /\ Command("bounded", gate.op, t, c) /\ UNCHANGED ops
\* The owner's `phase recovery-required' for a command that was killed.
DeclareRecovery == /\ At("idle") /\ WriterFree /\ Readable /\ gate.phase \notin {"open", "recovery-required"}
                   /\ gate' = [gate EXCEPT !.phase = "recovery-required"]
                   /\ UNCHANGED <<consumer, kept, context, drift, holder, faults, staged, s, ops>>

----------------------------------------------------------------------------
(* Preparation: the stage, its seal, and the old installation's evidence *)

Stage ==
  \/ Does("create", Create(s.op, s.target), "extract")
  \/ Does("extract", Extract(s.op), CASE s.kind = "install" -> "capture" [] s.kind = "recover" -> "rust"
                                      [] s.kind = "bounded" -> "lockA")
  \/ Does("rust", StageRust(s.op), "reviewer")
  \/ Does("reviewer", StageReviewer(s.op, s.target), "runner")
  \/ Does("runner", StagePackage(s.op, "runner"), "codex")
  \/ Does("codex", StagePackage(s.op, "codex"), "seal")
  \/ Does("seal", Seal(s.op), "prove")
Capture == /\ At("capture") /\ gate.phase = "open"
           /\ s' = [s EXCEPT !.at = "rust", !.captured = TRUE] /\ UNCHANGED <<host, holder>>
Prove == Does("prove", Proven(s.op) /\ UNCHANGED staged,
              CASE s.kind = "install" -> "drift" [] s.kind = "recover" -> "retarget" [] s.kind = "bounded" -> "lock")
\* A bounded recovery binds the operation to its target under a first lease.
Bind == Gates("target", {"recovery-required"}, "releaseA", [gate EXCEPT !.target = s.target])

----------------------------------------------------------------------------
(* Reservation: the drifted consumer first, then the gate *)

Drift == /\ At("drift") /\ StartDrift(s.op, s.target, s.config) /\ Goto("drifting")
         /\ UNCHANGED <<consumer, gate, kept, context, holder, staged>>
Helper == At("drifting") /\ DriftStep /\ UNCHANGED <<holder, staged, s>>
Drifted == /\ At("drifting") /\ drift.at \in {"unchanged", "restored"} /\ drift' = Off /\ Goto("quiesce")
           /\ UNCHANGED <<consumer, gate, kept, context, holder, staged>>

\* quiesce returns the state it finds when it is the operation's own.
Quiesce == /\ At("quiesce") /\ WriterFree /\ Readable
           /\ gate.phase = "open" \/ (Mine /\ gate.target = s.target)
           /\ gate' = [gate EXCEPT !.phase = IF @ = "open" THEN "quiesced" ELSE @, !.op = s.op, !.target = s.target]
           /\ Goto("drain") /\ UNCHANGED <<consumer, kept, context, drift, holder, staged>>
Drain    == Gates("drain", {"quiesced"}, "applying", [gate EXCEPT !.phase = "drained"])
Applying == Gates("applying", {"drained"}, "lock", [gate EXCEPT !.phase = "applying"])
Retarget == Gates("retarget", {"recovery-required"}, "reapply", [gate EXCEPT !.target = s.target])
Reapply  == Gates("reapply", {"recovery-required"}, IF s.kind = "bounded" THEN "final" ELSE "lock",
                  [gate EXCEPT !.phase = "applying"])

Holds(step, next) == /\ At(step) /\ Readable /\ TakeLease(s.op, s.target)
                     /\ s' = [s EXCEPT !.at = next, !.holds = TRUE] /\ UNCHANGED driftVars
LetsGo(step, next) == /\ At(step) /\ Held /\ DropLease
                      /\ s' = [s EXCEPT !.at = next, !.holds = FALSE] /\ UNCHANGED driftVars
Lock == Holds("lockA", "target") \/ Holds("lock", IF s.kind = "bounded" THEN "retarget" ELSE "final")
\* The whole proof again, under the lease; from here on nothing is aborted.
Final == /\ At("final") /\ Held /\ Readable /\ Proven(s.op)
         /\ s' = [s EXCEPT !.at = "destination", !.captured = FALSE]
         /\ UNCHANGED <<host, holder>>

----------------------------------------------------------------------------
(* The cutover, in the order of the backend's roles *)

CopyPart == /\ At("copy") /\ \E part \in {"source", "reviewer"} \ s.copied :
                 Copy(s.op, s.target, part) /\ s' = [s EXCEPT !.copied = @ \cup {part}]
            /\ UNCHANGED <<driftVars, holder>>
Consume ==
  \/ Does("destination", Destination(s.op, s.target) /\ UNCHANGED staged, "copy")
  \/ Does("copy", s.copied = {"source", "reviewer"} /\ UNCHANGED staged, "toolchain")
  \/ Does("toolchain", Destination(s.op, s.target) /\ UNCHANGED staged,
          IF stage[s.op].rust = "staged" THEN "tools" ELSE "manifest")
  \/ Does("tools", CopyTool, "tools")
  \/ Does("tools", rust = Tools /\ UNCHANGED staged, "manifest")
  \/ Does("manifest", WriteManifest(s.op, s.target), "switch")
  \/ Does("switch", Switch(s.target), "unpack")
  \/ Does("unpack", CodexTorn, "unpacked")
  \/ Does("unpacked", CodexCopied, "unlink")
  \/ Does("unlink", CodexUnlinked, "link")
  \/ Does("link", CodexLinked, "publish")

\* The publisher: the old bytes are backed up, looked at once more, and
\* replaced; then the gate moves (the steps of ConsumerPublication that an
\* edit can come between).
Publish ==
  /\ At("publish") /\ Held /\ Readable
  /\ \/ Digest[s.config] = gate.digest /\ Goto("release") /\ UNCHANGED kept
     \/ /\ Digest[s.config] # gate.digest /\ Goto("look")
        /\ kept["before"][s.op] \in {None, consumer}
        /\ kept' = [kept EXCEPT !["before"][s.op] = consumer]
  /\ UNCHANGED <<consumer, gate, context, drift, holder, staged>>
Look   == /\ At("look") /\ consumer = kept["before"][s.op] /\ Goto("rename")
          /\ UNCHANGED <<host, holder>>
Rename == /\ At("rename") /\ s' = [s EXCEPT !.at = "release", !.late = FALSE]
          /\ consumer' = s.config /\ gate' = [gate EXCEPT !.digest = Digest[s.config]]
          /\ UNCHANGED <<kept, context, drift, holder, staged>>
Release == LetsGo("releaseA", "rust") \/ LetsGo("release", "verified")

Verified == Gates("verified", {"applying"}, "resume", [gate EXCEPT !.phase = "verified"])
Open     == [gate EXCEPT !.phase = "open", !.op = 0, !.target = None]
Resume   == /\ At("resume") /\ WriterFree /\ Readable /\ Mine /\ gate.phase = "verified"
            /\ gate' = Open /\ s' = Idle
            /\ UNCHANGED <<consumer, kept, context, drift, holder, staged>>

CommandStep ==
  /\ \/ Stage \/ Bind \/ Capture \/ Prove \/ Drift \/ Helper \/ Drifted
     \/ Quiesce \/ Drain \/ Applying \/ Retarget \/ Reapply \/ Lock \/ Final
     \/ CopyPart \/ Consume \/ Publish \/ Look \/ Rename \/ Release \/ Verified \/ Resume
  /\ UNCHANGED <<faults, ops>>

----------------------------------------------------------------------------
(* Failures *)

Working == s.at \notin {"idle", "stopped"}
Helping == At("drifting") /\ drift.at \in Locked
Polled  == s.at \in Cutover /\ ~Held
HelperEnds == IF At("drifting") THEN drift' = Off ELSE UNCHANGED drift
\* A check that refuses, or a holder that the poll finds dead.
Stops == /\ (Working /\ ~ENABLED CommandStep) \/ Polled
         /\ Goto("stopped") /\ HelperEnds
         /\ UNCHANGED <<consumer, gate, kept, context, holder, faults, staged, ops>>
Fails == /\ Working /\ ~Helping /\ Fault /\ Goto("stopped") /\ HelperEnds
         /\ UNCHANGED <<consumer, gate, kept, context, holder, staged, ops>>
HelperDies == Helping /\ Fault /\ DriftDies /\ UNCHANGED <<holder, staged, s, ops>>

\* abort, under the lease that is held or can be taken and then released;
\* otherwise the failure is recorded at the gate, once the lease is released.
Restorable == /\ s.captured /\ (Held \/ (~s.holds /\ WriterFree /\ stage[s.op].lease = None))
              /\ Readable /\ Mine /\ gate.target = s.target /\ gate.phase \in {"quiesced", "drained", "applying"}
Markable   == Mine /\ Readable /\ gate.phase # "open" /\ (Held \/ WriterFree)
Leaves == /\ At("stopped") /\ s' = Idle
          /\ IF Held THEN DropLease ELSE UNCHANGED <<holder, staged>>
          /\ UNCHANGED <<consumer, kept, context, drift, ops>>
Abort  == Leaves /\ Restorable /\ gate' = Open /\ UNCHANGED faults
Mark   == Leaves /\ Markable /\ ~Restorable /\ gate' = [gate EXCEPT !.phase = "recovery-required"] /\ UNCHANGED faults
GiveUp == Leaves /\ UNCHANGED gate /\ IF Restorable \/ Markable THEN Fault ELSE UNCHANGED faults
Leave  == Abort \/ Mark \/ GiveUp

\* A killed command takes its backend and helper along; the holder of its
\* lease notices that its parent is gone and leaves later.
Dies == /\ Fault /\ ~At("idle") /\ s' = Idle /\ drift' = Off
        /\ UNCHANGED <<consumer, gate, kept, context, holder, staged, ops>>
HolderLeaves == /\ holder # 0 /\ ~s.holds /\ DropLease /\ UNCHANGED <<driftVars, faults, s, ops>>
HolderDies == Fault /\ LoseLease /\ UNCHANGED <<driftVars, s, ops>>

\* The holder ends between making its lease and writing it.
LeaseTorn == /\ Fault /\ (At("lockA") \/ At("lock")) /\ Readable /\ TearLease(s.op)
             /\ UNCHANGED <<driftVars, s, ops>>

Edits   == Edit /\ Fault /\ s' = [s EXCEPT !.late = At("rename") \/ @] /\ UNCHANGED staged
Updates == SelfUpdate /\ Fault /\ UNCHANGED <<driftVars, s>>
Outside == (Edits \/ Updates) /\ UNCHANGED <<holder, ops>>
RunnerUpdated == Updated /\ UNCHANGED <<driftVars, holder, faults, s, ops>>

----------------------------------------------------------------------------

Owner  == (\E t \in Targets, c \in Wanted : Install(t, c)) \/ (\E c \in Wanted : Recover(c))
          \/ (\E t \in Targets, c \in Wanted : Bounded(t, c)) \/ DeclareRecovery
Faults == Fails \/ HelperDies \/ Dies \/ HolderDies \/ LeaseTorn
Next   == Owner \/ CommandStep \/ Stops \/ Leave \/ Faults \/ HolderLeaves \/ Outside \/ RunnerUpdated

Fairness == /\ WF_vars(CommandStep) /\ WF_vars(Stops) /\ WF_vars(Leave)
            /\ WF_vars(HolderLeaves) /\ WF_vars(RunnerUpdated)
            /\ SF_vars(DeclareRecovery) /\ \A c \in Wanted : SF_vars(Recover(c))
Spec     == Init /\ [][Next]_vars
FairSpec == Spec /\ Fairness

----------------------------------------------------------------------------

(* Admission is open only over one whole installation: the release that
   `current' names has its source and the Reviewer its own manifest records,
   and Codex is whole and linked.  Files are overwritten in place and parts
   are copied one by one, and any of it may be cut off and repeated with
   other bytes (copy_tree, consume_codex, install_preflight.py:634). *)
OpenIsInstalled ==
  gate.phase = "open" =>
    /\ release[current].source /\ release[current].reviewer = manifest[current]
    /\ manifest[current] # NoBuild /\ codex = Whole

(* Whoever holds the Writer flock for an installation is named by the lease
   in that operation's own stage, so that the next command of the operation
   finds it there before it moves the stage away; a dead command's holder may
   still live (install_preflight.py:229-286, writer_lock_lease.py:131). *)
HolderIsNamed == holder # 0 => stage[holder].made /\ stage[holder].lease # None

(* The installer replaces the live consumer only by bytes whose predecessor
   is in a backup, and never writes over a backup: an owner's edit is not
   lost, even one made while the restoration or the publication runs, unless
   it comes between their last look and their rename
   (consumer_drift.py:308-316, publish_git_consumer.py:299, 311). *)
EditsAreKept ==
  [][/\ consumer' # consumer /\ ~Edit =>
          s.late \/ drift.late \/ \E b \in Backups, o \in Ops : kept'[b][o] = consumer
     /\ \A b \in Backups, o \in Ops : kept[b][o] \in {None, kept'[b][o]}]_vars

\* What no automated command continues: a reserved gate over a drifted
\* consumer, a lease that a killed holder left for another target or empty, and a Rust
\* prefix that an interrupted copy left without the compiler, or with one
\* that cannot build the Reviewer that must be built.
NeedsDiagnosis ==
  /\ gate.phase # "open"
  /\ \/ ~Readable
     \/ holder = 0 /\ stage[gate.op].lease \notin {None, gate.target}
     \/ rust # {} /\ "compiler" \notin rust
     \/ rust # {} /\ rust # Tools /\ ~Reusable(gate.target)

(* Whatever failed, died, was edited or updated itself, the owner who marks
   the operation and recovers its target opens the gate again, unless the
   state is one of those to be diagnosed (relay-deploy.py:889-905,
   intent-toolchain.yml:30). *)
PreparationEnds == []<>(gate.phase = "open" \/ NeedsDiagnosis)
=============================================================================
