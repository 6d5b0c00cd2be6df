----------------------------- MODULE GitInstall -----------------------------
(***************************************************************************)
(* The owner installs one exact Git pair, a product and a configuration,   *)
(* on an installed host (intent_install.py, install_preflight.py, the      *)
(* lifecycle branch of relay-deploy.py and the order of site.yml), or      *)
(* recovers the same target (install_recovery.py).  The consumer of the    *)
(* pair is published by ConsumerPublication's helper in the middle of the  *)
(* backend, under the lease that the command holds.                        *)
(*                                                                         *)
(* The host lock admits one command at a time.  Before another command     *)
(* starts, the owner has diagnosed that no publisher of a dead one runs.   *)
(* Clean reinstall, the serial pool and a fresh host are not here.         *)
(***************************************************************************)
EXTENDS ConsumerPublication

CONSTANTS FirstProduct,  \* the one installed at first
          Equal          \* products whose Reviewer executable is the same

ASSUME ProductAssumption == FirstProduct \in Products /\ Equal \subseteq Products

VARIABLES manifest,  \* configuration in the manifest of each release
          current,   \* the release the link `current' names
          record,    \* <namespace>-production-operation.json: its target
          staged,    \* .consumer-<operation>.desired.json
          runtime,   \* product and configuration the services run with
          s, ops     \* the command of the owner, operations so far

installation == <<manifest, current, record, staged, runtime>>

Kinds     == {"install", "recover", "bounded", "consumer", "adopt"}
Prepare   == {"capture", "quiesce", "drain", "applying", "retarget", "reapply", "lock", "final"}
Cutover   == {"begin", "artifacts", "publish", "publishing", "activate", "adopted", "clear",
              "archive", "complete", "completed", "unlink", "release"}
Finish    == {"verified", "resume"}
Retained  == {"lockA", "reserve", "reserved", "target", "releaseA", "revalidate", "publishA", "publishingA",
              "releaseB", "applyGate", "lockC", "finalize", "finalized", "releaseC"}
Idle == [kind |-> None, at |-> "idle", op |-> 0, product |-> None, config |-> None,
         base |-> None, captured |-> FALSE]
Pair(p, c) == [product |-> p, config |-> c]

InstallTypeOK ==
  /\ manifest \in [Products -> Configs \cup {None}] /\ current \in Products
  /\ record \in Products \cup {None} /\ staged \in [Ops -> Configs \cup {None}]
  /\ runtime \in [product : Products, config : Configs]
  /\ s \in [kind : Kinds \cup {None}, op : 0..MaxOps, product : Products \cup {None},
            config : Configs \cup {None}, base : Digests \cup {None}, captured : BOOLEAN,
            at : Prepare \cup Cutover \cup Finish \cup Retained \cup {"idle", "stopped"}]
  /\ ops \in 0..MaxOps

InstallInit ==
  /\ PublicationInit /\ current = FirstProduct /\ record = None /\ staged = [o \in Ops |-> None] /\ s = Idle /\ ops = 0
  /\ manifest = [p \in Products |-> IF p = current THEN consumer ELSE None]
  /\ runtime = Pair(current, consumer)

At(step)   == s.at = step
Goto(next) == s' = [s EXCEPT !.at = next]
Mine       == gate.op = s.op
Held       == lease.op = s.op
GateFrom(phases) == At(s.at) /\ Readable /\ Mine /\ gate.phase \in phases
SetPhase(phase)  == /\ gate' = [gate EXCEPT !.phase = phase]
                    /\ UNCHANGED <<consumer, backup, live, lease, pub, installation>>

----------------------------------------------------------------------------
(* The commands.  `NoOrphan' is the diagnosis that precedes each.           *)

NoOrphan == pub.at = "exited"
Command(kind, at, o, p, c) ==
  /\ At("idle") /\ NoOrphan
  /\ s' = [kind |-> kind, at |-> at, op |-> o, product |-> p, config |-> c,
           base |-> gate.digest, captured |-> FALSE]
  /\ UNCHANGED <<publication, installation, faults>>
Eligible(c) == Readable /\ (Digest[c] # gate.digest => live.manual = None)

\* An ordinary command plans from an inventory without a retained record.
Install(p, c) ==
  /\ ops < MaxOps /\ ops' = ops + 1 /\ record = None /\ gate.phase = "open" /\ Eligible(c)
  /\ Pair(p, c) # Pair(current, manifest[current])
  /\ Command("install", "capture", ops + 1, p, c)

\* install_recovery.inspect: the same target, its record or none.
Recover(p, c) ==
  /\ gate.phase = "recovery-required" /\ gate.target = p /\ Quiet /\ record \in {None, p} /\ Eligible(c)
  /\ Command("recover", "retarget", gate.op, p, c) /\ UNCHANGED ops

----------------------------------------------------------------------------
(* Preparation *)

Capture == /\ At("capture") /\ gate.phase = "open" /\ gate.digest = s.base
           /\ s' = [s EXCEPT !.at = "quiesce", !.captured = TRUE]
           /\ UNCHANGED <<publication, installation>>
Quiesce == /\ At("quiesce") /\ WriterFree /\ Readable /\ gate.phase = "open"
           /\ gate' = [gate EXCEPT !.phase = "quiesced", !.op = s.op, !.target = s.product]
           /\ Goto("drain") /\ UNCHANGED <<consumer, backup, live, lease, pub, installation>>
Drain    == At("drain") /\ WriterFree /\ GateFrom({"quiesced"}) /\ Quiet /\ SetPhase("drained") /\ Goto("applying")
Applying == At("applying") /\ WriterFree /\ GateFrom({"drained"}) /\ SetPhase("applying") /\ Goto("lock")

\* A recovery proves the drain of the retained operation and selects its target,
\* through the installed helper or, bounded, under the lease.
ByHelper == IF s.kind = "bounded" THEN Held ELSE WriterFree
Select   == /\ ByHelper /\ GateFrom({"recovery-required"}) /\ Quiet
            /\ gate' = [gate EXCEPT !.target = s.product]
            /\ UNCHANGED <<consumer, backup, live, lease, pub, installation>>
Retarget == At("retarget") /\ Select /\ Goto("reapply")
Reapply  == /\ At("reapply") /\ ByHelper /\ GateFrom({"recovery-required"}) /\ SetPhase("applying")
            /\ Goto(IF s.kind = "bounded" THEN "final" ELSE "lock")

Hold(next) == /\ WriterFree /\ lease' = [op |-> s.op, digest |-> s.base]
              /\ Goto(next) /\ UNCHANGED <<consumer, backup, gate, live, pub, installation>>
LetGo(next) == /\ Held /\ lease' = NoLease
               /\ Goto(next) /\ UNCHANGED <<consumer, backup, gate, live, pub, installation>>
Lock == At("lock") /\ Hold(IF s.kind = "bounded" THEN "revalidate" ELSE "final")

\* The last check before the cutover, repeated under the lease.
\* Mutant: the cutover is not noted, so a failure in it may still reopen.
FinalUnnoted == /\ At("final") /\ Held /\ Eligible(s.config) /\ gate.digest = s.base /\ live.auto = None
                /\ Goto("begin") /\ UNCHANGED <<publication, installation>>
Final == /\ At("final") /\ Held /\ Eligible(s.config) /\ gate.digest = s.base /\ live.auto = None
         /\ s' = [s EXCEPT !.at = "begin", !.captured = FALSE]
         /\ UNCHANGED <<publication, installation>>

----------------------------------------------------------------------------
(* The cutover: the backend, whose holder the transport polls *)

Begin == /\ At("begin") /\ s.kind \in {"install", "recover"}
         /\ record \in (IF s.kind = "install" THEN {None} ELSE {None, s.product})
         /\ record' = s.product
         /\ Goto("artifacts") /\ UNCHANGED <<publication, manifest, current, staged, runtime>>
Artifacts == /\ At("artifacts") /\ manifest' = [manifest EXCEPT ![s.product] = s.config]
             /\ current' = s.product
             /\ Goto("publish") /\ UNCHANGED <<publication, record, staged, runtime>>

\* The role stages the desired bytes, runs the publisher and removes them
\* after it succeeded.  Only the tail of a continuation runs without a lease.
PublishConsumer ==
  /\ At("publish") /\ staged' = [staged EXCEPT ![s.op] = s.config]
  /\ StartPublisher(s.op, s.product, s.config, s.kind # "consumer")
  /\ Goto("publishing") /\ UNCHANGED <<consumer, backup, gate, live, lease, manifest, current, record, runtime>>
Returned == pub.at \in {"unchanged", "published"} /\ pub' = Exited
Published == /\ At("publishing") /\ Returned /\ staged' = [staged EXCEPT ![s.op] = None] /\ Goto("activate")
             /\ UNCHANGED <<consumer, backup, gate, live, lease, manifest, current, record, runtime>>

\* Services restart with what is on disk; validation reads the gate's consumer.
Activate == /\ At("activate") /\ s.kind # "adopt" /\ GateFrom({"applying"})
            /\ runtime' = Pair(current, consumer)
            /\ Goto(IF s.kind \in {"install", "recover"} THEN "clear" ELSE "archive")
            /\ UNCHANGED <<publication, manifest, current, record, staged>>
Clear == /\ At("clear") /\ record = s.product /\ record' = None
         /\ Goto("release") /\ UNCHANGED <<publication, manifest, current, staged, runtime>>
Release == At("release") /\ LetGo("verified")

\* Under the lease only in the continuations of an interrupted cutover.
Unleased == IF s.kind \in {"consumer", "adopt"} THEN Held ELSE WriterFree
Verified == /\ At("verified") /\ Unleased /\ GateFrom({"applying"}) /\ SetPhase("verified")
            /\ Goto(CASE s.kind = "bounded" -> "lockC" [] s.kind \in {"consumer", "adopt"} -> "finalize"
                      [] OTHER -> "resume")
Resume == /\ At("resume") /\ Unleased /\ GateFrom({"verified"}) /\ Quiet
          /\ gate' = [gate EXCEPT !.phase = "open", !.op = 0, !.target = None]
          /\ lease' = NoLease /\ s' = Idle
          /\ UNCHANGED <<consumer, backup, live, pub, installation>>

InstallStep ==
  \/ Capture \/ Quiesce \/ Drain \/ Applying \/ Retarget \/ Reapply \/ Lock \/ Final
  \/ Begin \/ Artifacts \/ PublishConsumer \/ Published \/ Activate \/ Clear \/ Release
  \/ Verified \/ Resume
=============================================================================
