-------------------------- MODULE RetainedRecovery --------------------------
(***************************************************************************)
(* GitInstall with its retained operations: the receipt by which the owner *)
(* moves the same operation to another reviewed pair (bounded_recovery.py) *)
(* and the continuations of a cutover that died before the publication     *)
(* (pre_apply_recovery.py), in it, or before the Reviewer took the new     *)
(* configuration (partial_install_recovery.py).  Every write of a receipt  *)
(* is a `.next' file and a rename; the record of the backend is archived   *)
(* before the receipt says so and is removed after.                        *)
(*                                                                         *)
(* A command that cannot go on stops; then it reopens the old gate, marks  *)
(* the recovery, or leaves what is there.                                  *)
(***************************************************************************)
EXTENDS GitInstall

VARIABLES receipt,   \* <record>.<operation>.continuation.json
          archive,   \* operations whose .original.json exists
          torn       \* operations with a .continuation.json.next left over

retained == <<receipt, archive, torn>>
vars == <<publication, faults, installation, s, ops, retained>>

NoReceipt == [state |-> None, product |-> None, config |-> None, from |-> None, absent |-> FALSE,
              digest |-> None, consumer |-> None, manifest |-> None]
States == {"reserved", "backend-complete", "complete"}

\* The shape of all protected files and processes.
TypeOK ==
  /\ PublicationTypeOK /\ InstallTypeOK /\ archive \subseteq Ops /\ torn \subseteq Ops
  /\ receipt \in [Ops -> [state : States \cup {None}, product : Products \cup {None},
       config : Configs \cup {None}, from : Products \cup {None}, absent : BOOLEAN,
       digest : Digests \cup {None}, consumer : Configs \cup {None}, manifest : Configs \cup {None}]]

Init == /\ InstallInit /\ receipt = [o \in Ops |-> NoReceipt] /\ archive = {} /\ torn = {}

----------------------------------------------------------------------------
(* What the receipt proves *)

Loaded(o, states) == o \in Ops /\ o \notin torn /\ receipt[o].state \in states

\* continuation_backend, and the unchanged identity of the original release.
BackendKept(r) == \/ record = (IF r.absent THEN None ELSE r.from)
                  \/ r.absent /\ record = r.product /\ gate.target = r.product
InstalledAs(p, c) == manifest[p] = c      \* the manifest, its source and its snapshot agree
Kept(r)  == BackendKept(r) /\ InstalledAs(r.from, r.manifest)
Installed(r) == current = r.product /\ InstalledAs(current, r.config)    \* final_installation
GateOf(r, o, phases, targets) ==
  /\ gate.op = o /\ gate.phase \in phases /\ gate.target \in targets
  /\ gate.digest \in {r.digest, Digest[r.config]}
Closed == {"recovery-required", "applying"}

\* Mutant: only the retained release may be the current one.
ReservedBefore(o) ==
  LET r == receipt[o] IN
  /\ Loaded(o, {"reserved"}) /\ o \notin archive /\ Kept(r) /\ current = r.from
  /\ GateOf(r, o, Closed, {r.from, r.product})

\* inspect: of a reserved receipt, or of the retained operation without one.
Reserved(o) ==
  LET r == receipt[o] IN
  /\ Loaded(o, {"reserved"}) /\ o \notin archive /\ Kept(r)
  /\ current \in {r.from, r.product} /\ (current = r.product => Installed(r))
  /\ GateOf(r, o, Closed, {r.from, r.product})
Fresh(o) == /\ o \in Ops /\ receipt[o].state = None /\ o \notin archive /\ record \in {None, current}
            /\ gate.phase = "recovery-required" /\ gate.target = current

\* backend_validate
BackendValid(o, phases) == /\ Loaded(o, {"reserved"}) /\ Kept(receipt[o])
                           /\ GateOf(receipt[o], o, phases, {receipt[o].product})

----------------------------------------------------------------------------
(* The commands *)

Is(o, p, c) == receipt[o].product = p /\ receipt[o].config = c

Bounded(p, c) ==
  /\ Eligible(c) /\ gate.op \in Ops
  /\ Fresh(gate.op) \/ (Reserved(gate.op) /\ Is(gate.op, p, c))
  /\ Command("bounded", "lockA", gate.op, p, c) /\ UNCHANGED <<ops, retained>>

\* `current' selects the continuation: the retained release is before Apply.
PreApply ==
  /\ gate.op \in Ops /\ Reserved(gate.op) /\ BackendValid(gate.op, Closed)
  /\ LET r == receipt[gate.op] IN
     /\ current = r.from /\ record # None /\ consumer = r.consumer /\ backup[gate.op] \in {None, consumer}
     /\ Eligible(r.config) /\ Command("bounded", "lockA", gate.op, r.product, r.config)
  /\ UNCHANGED <<ops, retained>>

\* After Apply: the desired release is the current one, and the Reviewer that
\* runs has the executable of the retained one.
SameExecutable(p, q) == p = q \/ {p, q} \subseteq Equal
Applied(o) == LET r == receipt[o] IN
  /\ Reserved(o) /\ current # r.from /\ Installed(r) /\ gate.target = r.product
  /\ SameExecutable(runtime.product, r.from) /\ Digest[consumer] = Digest[r.config]

\* Another executable: the publication, which left the bytes it staged.
Unpublished(o) == /\ Applied(o) /\ gate.phase = "applying"
                  /\ ~SameExecutable(receipt[o].from, receipt[o].product)
                  /\ consumer = staged[o] /\ backup[o] = receipt[o].consumer
ContinueConsumer ==
  /\ gate.op \in Ops /\ Unpublished(gate.op)
  /\ Command("consumer", "lockA", gate.op, receipt[gate.op].product, receipt[gate.op].config)
  /\ UNCHANGED <<ops, retained>>

\* The same executable: only the configuration of a maintained operation.
Unchanging(r)  == consumer = r.consumer /\ {r.digest, gate.digest} = {Digest[r.config]}
Unadopted(o) == LET r == receipt[o] IN
  /\ Applied(o) /\ gate.digest = Digest[r.config] /\ BackendValid(o, Closed) /\ record # None
  /\ SameExecutable(r.from, r.product)
  /\ IF backup[o] = None THEN Unchanging(r) ELSE backup[o] = r.consumer
  /\ IF staged[o] = None THEN Unchanging(r) ELSE consumer = staged[o]
AdoptConfig ==
  /\ gate.op \in Ops /\ Unadopted(gate.op)
  /\ Command("adopt", "lockA", gate.op, receipt[gate.op].product, receipt[gate.op].config)
  /\ UNCHANGED <<ops, retained>>

\* The diagnosed operation of a dead command.
DeclareRecovery ==
  /\ At("idle") /\ NoOrphan /\ WriterFree /\ Readable /\ gate.phase \notin {"open", "recovery-required"}
  /\ SetPhase("recovery-required") /\ UNCHANGED <<s, ops, faults, retained>>

----------------------------------------------------------------------------
(* The steps of a receipt.  R is the one of the session's operation.        *)

R == receipt[s.op]
Still == UNCHANGED <<publication, installation, retained>>

LockA == /\ At("lockA")
         /\ Hold(CASE s.kind = "bounded" -> "reserve" [] s.kind = "consumer" -> "publishA" [] OTHER -> "applyGate")
         /\ UNCHANGED retained
Proved == Held /\ Quiet /\ Eligible(s.config) /\ live.auto = None

\* begin: the proof of a fresh receipt, or the one that is reserved already.
Reserve == /\ At("reserve") /\ Proved
           /\ \/ Reserved(s.op) /\ Goto("target") /\ Still
              \/ /\ Fresh(s.op) /\ s.op \notin torn /\ torn' = torn \cup {s.op} /\ Goto("reserved")
                 /\ UNCHANGED <<publication, installation, receipt, archive>>
Becomes(r) == /\ receipt' = [receipt EXCEPT ![s.op] = r] /\ torn' = torn \ {s.op}
              /\ UNCHANGED <<publication, installation, archive>>
Reservation == At("reserved") /\ Goto("target")
  /\ Becomes([state |-> "reserved", product |-> s.product, config |-> s.config, from |-> current,
           absent |-> record = None, digest |-> gate.digest, consumer |-> consumer,
           manifest |-> manifest[current]])
Target   == At("target") /\ Select /\ Goto("releaseA") /\ UNCHANGED retained
ReleaseA == At("releaseA") /\ LetGo("lock") /\ UNCHANGED retained
Revalid  == /\ Loaded(s.op, {"reserved"}) /\ s.op \notin archive /\ Kept(R)
            /\ GateOf(R, s.op, Closed, {R.from, R.product})
            /\ consumer = R.consumer \/ gate.digest = Digest[R.config]
Revalidate == At("revalidate") /\ Proved /\ Revalid /\ Goto("retarget") /\ Still

\* The record of the backend stays the original one, if there was one.
\* Mutant: the record of the new target replaces it.
BeginReplaced == /\ At("begin") /\ s.kind = "bounded" /\ BackendValid(s.op, {"applying"})
                 /\ record' = s.product /\ Goto("artifacts")
                 /\ UNCHANGED <<publication, manifest, current, staged, runtime, retained>>
BeginRetained == /\ At("begin") /\ s.kind = "bounded" /\ BackendValid(s.op, {"applying"})
                 /\ record' = IF record = None THEN s.product ELSE record
                 /\ Goto("artifacts")
                 /\ UNCHANGED <<publication, manifest, current, staged, runtime, retained>>

PublishA == /\ At("publishA") /\ Held /\ StartPublisher(s.op, s.product, staged[s.op], TRUE) /\ Goto("publishingA")
            /\ UNCHANGED <<consumer, backup, gate, live, lease, installation, retained>>
PublishedA == /\ At("publishingA") /\ Returned /\ Goto("releaseB")
              /\ UNCHANGED <<consumer, backup, gate, live, lease, installation, retained>>
ReleaseB == At("releaseB") /\ LetGo("publish") /\ UNCHANGED retained
ApplyGate == /\ At("applyGate") /\ Proved /\ Unadopted(s.op) /\ Revalid
             /\ SetPhase("applying") /\ Goto("activate") /\ UNCHANGED retained

\* The Reviewer adopts a configuration that differs in its artifact identity
\* only, by one restart under the lease and the operation lock; the proof of
\* what runs is repeated before the restart and after it.
Authority == Held /\ BackendValid(s.op, {"applying"}) /\ GateFrom({"applying"}) /\ Quiet
Artifact  == SameExecutable(R.from, R.product) /\ R.from # R.product /\ Kept(R) /\ Installed(R)
Reviewer  == SameExecutable(runtime.product, R.product)
Proven    == Authority /\ Reviewer
Adopt   == /\ At("activate") /\ s.kind = "adopt" /\ Proven /\ Artifact
           /\ runtime' = Pair(current, consumer) /\ Goto("adopted")
           /\ UNCHANGED <<publication, manifest, current, record, staged, retained>>
Adopted == /\ At("adopted") /\ Proven /\ Artifact /\ runtime = Pair(current, consumer)
           /\ Goto("archive") /\ Still

\* backend_finalize: archive, receipt, record.
Archive == /\ At("archive") /\ BackendValid(s.op, {"applying"}) /\ Installed(R) /\ record # None
           /\ s.op \notin archive /\ archive' = IF R.absent THEN archive ELSE archive \cup {s.op}
           /\ Goto("complete") /\ UNCHANGED <<publication, installation, receipt, torn>>
Write(next) == /\ s.op \notin torn /\ torn' = torn \cup {s.op} /\ Goto(next)
               /\ UNCHANGED <<publication, installation, receipt, archive>>
WriteComplete == At("complete") /\ Write("completed")
Complete == At("completed") /\ Becomes([R EXCEPT !.state = "backend-complete"]) /\ Goto("unlink")
Unlink == /\ At("unlink") /\ record' = None
          /\ Goto(CASE s.kind = "bounded" -> "release" [] s.kind = "consumer" -> "lockC" [] OTHER -> "verified")
          /\ UNCHANGED <<publication, manifest, current, staged, runtime, retained>>

LockC == /\ At("lockC") /\ WriterFree
         /\ lease' = [op |-> s.op, digest |-> IF s.kind = "bounded" THEN s.base ELSE Digest[s.config]]
         /\ Goto(IF s.kind = "bounded" THEN "finalize" ELSE "verified")
         /\ UNCHANGED <<consumer, backup, gate, live, pub, installation, retained>>
Finalizable == /\ Loaded(s.op, {"backend-complete"}) /\ record = None /\ Installed(R)
               /\ GateOf(R, s.op, {"verified"}, {R.product}) /\ gate.digest = Digest[R.config]
Finalize == At("finalize") /\ Proved /\ Finalizable /\ Write("finalized")
Finalized == /\ At("finalized") /\ Becomes([R EXCEPT !.state = "complete"])
             /\ Goto(IF s.kind = "bounded" THEN "releaseC" ELSE "resume")
ReleaseC == At("releaseC") /\ LetGo("resume") /\ UNCHANGED retained

RetainedStep ==
  \/ LockA \/ Reserve \/ Reservation \/ Target \/ ReleaseA \/ Revalidate \/ BeginRetained
  \/ PublishA \/ PublishedA \/ ReleaseB \/ ApplyGate \/ Adopt \/ Adopted \/ Archive \/ WriteComplete \/ Complete
  \/ Unlink \/ LockC \/ Finalize \/ Finalized \/ ReleaseC
CommandStep == /\ \/ InstallStep /\ UNCHANGED retained
                  \/ RetainedStep
               /\ UNCHANGED <<faults, ops>>

----------------------------------------------------------------------------
(* Failures *)

Working == s.at \notin {"idle", "stopped"}
Publishing == s.at \in {"publishing", "publishingA"} /\ pub.at \in Running
Leasing == s.at \in Cutover /\ s.kind # "consumer"
\* A bounded recovery names its operation to the lifecycle after it released A.
Unnamed == {"lockA", "reserve", "reserved", "target", "releaseA"}
Halt == s' = [s EXCEPT !.at = "stopped", !.kind = IF s.at \in Unnamed THEN None ELSE s.kind]
\* A check that refuses, a publisher that failed, a holder the poll finds dead.
Stops == /\ Working
         /\ (~Publishing /\ ~ENABLED CommandStep) \/ (Leasing /\ ~Held)
         /\ Halt /\ UNCHANGED <<faults, ops>> /\ Still
Fails == Working /\ Fault /\ Halt /\ UNCHANGED ops /\ Still

Restorable == /\ s.kind = "install" /\ s.captured /\ Mine /\ gate.target = s.product
              /\ gate.phase \in {"quiesced", "drained", "applying"}
              /\ Digest[consumer] = s.base /\ gate.digest = s.base
Markable == s.kind \in {"install", "recover", "bounded"} /\ Mine /\ Readable /\ gate.phase # "open"
Dropped == lease' = IF Held THEN NoLease ELSE lease
Leaves == At("stopped") /\ (Held \/ WriterFree) /\ s' = Idle /\ Dropped
          /\ UNCHANGED <<consumer, backup, live, pub, installation, ops, retained>>
Restore == /\ Leaves /\ Restorable /\ gate' = [gate EXCEPT !.phase = "open", !.op = 0, !.target = None]
           /\ UNCHANGED faults
Mark    == /\ Leaves /\ Markable /\ ~Restorable /\ gate' = [gate EXCEPT !.phase = "recovery-required"]
           /\ UNCHANGED faults
GiveUp  == /\ Leaves /\ UNCHANGED gate
           /\ IF Restorable \/ Markable THEN Fault ELSE UNCHANGED faults
Leave   == Restore \/ Mark \/ GiveUp

Dies == /\ Fault /\ ~At("idle") /\ s' = Idle /\ Dropped
        /\ UNCHANGED <<consumer, backup, gate, live, pub, installation, ops, retained>>
HolderDies == /\ Fault /\ lease # NoLease /\ lease' = NoLease
              /\ UNCHANGED <<consumer, backup, gate, live, pub, installation, s, ops, retained>>
Reap == /\ pub.at \in Results /\ s.at \notin {"publishing", "publishingA"} /\ pub' = Exited
        /\ UNCHANGED <<consumer, backup, gate, live, lease, installation, faults, s, ops, retained>>

----------------------------------------------------------------------------

Start(p, c) == (Install(p, c) \/ Recover(p, c)) /\ UNCHANGED retained
Continuation == PreApply \/ ContinueConsumer \/ AdoptConfig
Owner == \/ \E p \in Products, c \in Configs : Start(p, c) \/ Bounded(p, c)
         \/ Continuation \/ DeclareRecovery
Publisher == (Publish \/ PublisherDies) /\ UNCHANGED <<installation, s, ops, retained>>
Attempts == (AdmitAuto \/ AdmitManual \/ EndAuto \/ DisposeManual) /\ UNCHANGED <<installation, s, ops, retained>>
Faults == Fails \/ Dies \/ HolderDies
Next == Owner \/ CommandStep \/ Publisher \/ Attempts \/ Stops \/ Leave \/ Faults \/ Reap

Rest == UNCHANGED <<installation, s, ops, retained>>
\* The owner eventually tries each configuration of the same target again, the
\* pair of a reserved receipt, and the continuation, whose kind the installer
\* selects.
RecoverWith(c) == \E p \in Products : Recover(p, c) /\ UNCHANGED retained
BoundedAgain   == \E p \in Products, c \in Configs :
                    gate.op \in Ops /\ receipt[gate.op].state = "reserved" /\ Bounded(p, c)
Fairness ==
  /\ WF_vars(CommandStep) /\ WF_vars(Stops) /\ WF_vars(Leave) /\ WF_vars(Reap)
  /\ WF_vars(Publish /\ Rest) /\ WF_vars(EndAuto /\ Rest)
  /\ SF_vars(DeclareRecovery) /\ SF_vars(Continuation)
  /\ SF_vars(BoundedAgain) /\ \A c \in Configs : SF_vars(RecoverWith(c))
Spec == Init /\ [][Next]_vars
FairSpec == Spec /\ Fairness

----------------------------------------------------------------------------

(* Admission is open only over a whole installation: consumer, manifest of
   the current release and running services all have the gate's digest, and
   no record of a mutation is left.  A command that fails may reopen the gate
   by itself only before its cutover (install_preflight.py:619-652). *)
OpenIsComplete ==
  gate.phase = "open" =>
    /\ Readable /\ record = None /\ Digest[manifest[current]] = gate.digest
    /\ runtime.product = current /\ Digest[runtime.config] = gate.digest

(* A recovery to another product never consumes the evidence of the original
   operation: until its target is finished, the original backend record is
   in place or in the archive (bounded_recovery.py:562-588). *)
OriginalSurvives ==
  \A o \in Ops : LET r == receipt[o] IN
    /\ ~r.absent /\ r.state # None /\ r.from # r.product
    /\ r.state = "reserved" => gate.op = o /\ gate.target = r.product
    => record = r.from \/ o \in archive

\* What no automated command continues: a moved consumer outside the one
\* continuation that publishes, and a foreign record whose receipt is torn,
\* beyond the backend, or barred by a backup with other bytes.
NeedsDiagnosis ==
  LET o == gate.op r == receipt[o] IN
  /\ gate.phase # "open" /\ o \in Ops
  /\ IF ~Readable THEN ~Unpublished(o)
     ELSE /\ record \notin {None, gate.target}
          /\ \/ o \in torn \cup archive \/ r.state = "backend-complete"
             \/ backup[o] \notin {None, consumer} /\ Digest[r.config] # gate.digest

(* Whatever died, the owner who tries the retained target again, or the
   continuation its receipt names, opens the gate again, unless the state is
   one of those to be diagnosed (bounded_recovery.py:340, pre_apply_recovery
   .py:28, partial_install_recovery.py:46).  Needs manual attempts disposed. *)
RecoveryEnds == <>[](live.manual = None) => []<>(gate.phase = "open" \/ NeedsDiagnosis)
=============================================================================
