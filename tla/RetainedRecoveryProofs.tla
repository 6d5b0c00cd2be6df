----------------------- MODULE RetainedRecoveryProofs -----------------------
(***************************************************************************)
(* Theorems about RetainedRecovery, for all products, configurations and   *)
(* digests and any number of operations and failures.                      *)
(*                                                                         *)
(* One invariant carries the four: what a command that reached a step has  *)
(* established (Reached), where the publisher it may have left behind is   *)
(* (Publishes), that a command which may still reopen the gate has changed *)
(* nothing (Captured), and what a receipt keeps of the operation           *)
(* (ReceiptsKeep).                                                         *)
(***************************************************************************)
EXTENDS RetainedRecovery, TLAPS

-----------------------------------------------------------------------------
(* The parts of the invariant                                              *)

Steps == Prepare \cup Cutover \cup Finish \cup Retained

\* A command has its operation and its pair; only its first steps have no
\* operation of the gate.
SessionShape ==
  /\ s.at = "idle" => s = Idle
  /\ s.at # "idle" => s.op \in Ops /\ s.op <= ops /\ s.product \in Products /\ s.config \in Configs
  /\ s.captured => s.kind = "install" /\ s.at \in {"quiesce", "drain", "applying", "lock", "final", "stopped"}

\* The steps that lead to the cutover of each kind of command.
Routes ==
  /\ s.at \notin {"idle", "stopped"} => s.kind \in Kinds
  /\ s.at \in {"capture", "quiesce", "drain", "applying"} => s.kind = "install"
  /\ s.at \in {"reserve", "reserved", "target", "releaseA", "revalidate"} => s.kind = "bounded"
  /\ s.at \in {"retarget", "reapply"} => s.kind \in {"recover", "bounded"}
  /\ s.at \in {"lock", "final", "begin", "artifacts", "release", "releaseC"} => s.kind \in {"install", "recover", "bounded"}
  /\ s.at = "clear" => s.kind \in {"install", "recover"}
  /\ s.at \in {"publishA", "publishingA", "releaseB"} => s.kind = "consumer"
  /\ s.at \in {"applyGate", "adopted"} => s.kind = "adopt"
  /\ s.at \in {"archive", "complete", "completed", "unlink", "lockC", "finalize", "finalized"} =>
       s.kind \in {"bounded", "consumer", "adopt"}
  /\ s.at \in {"publish", "publishing"} => s.kind # "adopt"
  /\ s.at = "lockA" => s.kind \in {"bounded", "consumer", "adopt"}

\* The gate of a command that works is closed, and its own.
Owned   == Steps \ {"capture", "quiesce"}
GateKept ==
  /\ gate.phase # "open" => gate.op \in Ops /\ gate.op <= ops
  /\ gate.phase = "open" => gate.op = 0 /\ s.at \in {"idle", "stopped", "capture", "quiesce"}
  /\ s.at \in Owned => gate.op = s.op
  /\ s.at \in Owned /\ s.kind \in {"install", "recover"} => gate.target = s.product

\* Nobody works where the drain was proved.
Drained ==
  /\ gate.phase \in {"drained", "applying", "verified"} => live.auto = None
  /\ s.at = "reapply" => live.auto = None
  /\ pub.at \in {"backup", "rename"} => live.auto = None

\* The publisher belongs to the command at its step, or to a dead one; until
\* its rename the consumer is the one it read.
Publishes ==
  /\ pub.at # "exited" => /\ s.at \in {"publishing", "publishingA", "idle", "stopped"}
                          /\ ~s.captured /\ gate.phase # "open"
  /\ pub.at \in Running => /\ pub.op \in Ops /\ gate.op = pub.op
                           /\ pub.desired \in Configs /\ pub.old \in Configs
  /\ pub.at \in {"assess", "check", "backup", "rename"} => consumer = pub.old
  /\ pub.at \in {"backup", "rename"} => Readable
  /\ pub.at = "rename" => backup[pub.op] = pub.old
  /\ s.at = "publishing" /\ pub.at \in Running => pub.desired = s.config
  /\ s.at = "publishing" /\ pub.at \in {"unchanged", "published"} => Readable /\ gate.digest = Digest[s.config]

\* What a command that reached a step has on disk and running.
FromServed  == {"clear", "adopted", "archive", "complete", "completed", "unlink", "release", "verified",
                "lockC", "finalize", "finalized", "releaseC", "resume"}
FromCleared == {"release", "verified", "lockC", "finalize", "finalized", "releaseC", "resume"}
FromPublished  == {"activate"} \cup FromServed
Placed      == {"publish", "publishing", "publishA", "publishingA", "releaseB"} \cup FromPublished
Serving == runtime.product = current /\ Digest[runtime.config] = gate.digest
Reached ==
  /\ s.at \in Placed \/ (s.at = "lockA" /\ s.kind = "consumer") =>
       current = s.product /\ manifest[current] = s.config
  /\ s.at \in FromPublished => Readable /\ gate.digest = Digest[s.config]
  /\ s.at \in FromServed => Serving
  /\ s.at \in FromCleared => record = None
  /\ s.at = "reserved" => record \in {None, current}

\* Only a command that has changed nothing may reopen the old gate.
Whole    == Readable /\ record = None /\ Digest[manifest[current]] = gate.digest /\ Serving
Captured == s.captured => Whole

\* What a receipt keeps: its target and the original record of its operation.
Original(o) == ~receipt[o].absent => record = receipt[o].from
Archived(o) == ~receipt[o].absent => o \in archive
ReceiptsKeep ==
  /\ \A o \in Ops : receipt[o].state # None =>
       /\ o <= ops /\ receipt[o].from \in Products /\ receipt[o].product \in Products
       /\ receipt[o].config \in Configs
  /\ \A o \in Ops : receipt[o].state \in {"backend-complete", "complete"} => Archived(o)
  /\ s.at \in {"capture", "quiesce"} => receipt[s.op].state = None
  /\ s.at \in {"complete", "completed"} => Archived(s.op) /\ receipt[s.op].state = "reserved"
  /\ s.at = "unlink" => receipt[s.op].state = "backend-complete"
  /\ s.at = "finalized" => receipt[s.op].state = "backend-complete"
  /\ s.at = "target" => Original(s.op)
  /\ s.at = "retarget" /\ s.kind = "bounded" => Original(s.op)
  /\ s.at \in {"lockA", "applyGate"} /\ s.kind \in {"consumer", "adopt"} =>
       s.product = receipt[s.op].product /\ s.config = receipt[s.op].config
  /\ s.at \in {"lockA", "publishA"} /\ s.kind = "consumer" => staged[s.op] \in Configs

\* The types, a file or a process at a time.
Places == Steps \cup {"idle", "stopped"}
SessionType == s \in [kind : Kinds \cup {None}, op : 0..MaxOps, product : Products \cup {None},
                      config : Configs \cup {None}, base : Digests \cup {None}, captured : BOOLEAN,
                      at : Places]
GateType == gate \in [phase : Phases, op : 0..MaxOps, target : Products \cup {None}, digest : Digests]
LiveType == live \in [auto : Digests \cup {None}, manual : Digests \cup {None}]
Pubs     == [at : Running \cup Results \cup {"exited"}, leased : BOOLEAN, op : 0..MaxOps,
             target : Products \cup {None}, desired : Configs \cup {None},
             old : Configs \cup {None}, prev : Digests \cup {None}, base : Digests \cup {None}]
PubType  == pub \in Pubs
LeaseType == lease \in [op : 0..MaxOps, digest : Digests \cup {None}]
DiskType  == /\ consumer \in Configs /\ backup \in [Ops -> Configs \cup {None}]
             /\ manifest \in [Products -> Configs \cup {None}] /\ current \in Products
             /\ record \in Products \cup {None} /\ staged \in [Ops -> Configs \cup {None}]
             /\ runtime \in [product : Products, config : Configs]
Receipts == [state : States \cup {None}, product : Products \cup {None}, config : Configs \cup {None},
             from : Products \cup {None}, absent : BOOLEAN, digest : Digests \cup {None},
             consumer : Configs \cup {None}, manifest : Configs \cup {None}]
ReceiptType == receipt \in [Ops -> Receipts] /\ archive \subseteq Ops /\ torn \subseteq Ops
CountType == faults \in 0..MaxFaults /\ ops \in 0..MaxOps
Types == SessionType /\ GateType /\ LiveType /\ PubType /\ LeaseType /\ DiskType /\ ReceiptType /\ CountType

Inv ==
  /\ Types /\ SessionShape /\ Routes /\ GateKept /\ Drained /\ LiveAreBound /\ PendingIsProven
  /\ Publishes /\ Reached /\ Captured /\ OpenIsComplete /\ ReceiptsKeep /\ OriginalSurvives


LEMMA TypesAreTypeOK == Types => TypeOK
BY DEF Types, TypeOK, PublicationTypeOK, InstallTypeOK, SessionType, GateType, LiveType, PubType, Pubs,
   LeaseType,
       DiskType, ReceiptType, Receipts, CountType, Places, Steps

-----------------------------------------------------------------------------
(* What a step changes                                                     *)

\* A command that moves on keeps the rest of its state.
LEMMA Moves ==
  ASSUME SessionType, NEW next \in Places, Goto(next)
  PROVE  /\ SessionType' /\ s'.at = next /\ s'.kind = s.kind /\ s'.op = s.op /\ s'.product = s.product
         /\ s'.config = s.config /\ s'.captured = s.captured /\ s'.base = s.base
BY DEF SessionType, Goto

\* What does not depend on where the command is.
LEMMA Beside ==
  ASSUME Inv, NEW next \in Places, Goto(next), UNCHANGED <<consumer, backup, gate, live, pub, installation, receipt, archive, ops>>
  PROVE  /\ LiveAreBound' /\ PendingIsProven' /\ Captured' /\ OpenIsComplete' /\ OriginalSurvives'
         /\ GateType' /\ LiveType' /\ PubType' /\ DiskType'
<1>1. s'.captured = s.captured
  BY Moves DEF Inv, Types
<1>2. QED
  BY <1>1 DEF Inv, Types, LiveAreBound, PendingIsProven, Captured, Whole, Serving, OpenIsComplete, Readable,
     OriginalSurvives, GateType, LiveType, PubType, DiskType, installation

\* The steps that only move: a lock taken or given back, a check, a `.next'
\* file written.
Walk(next) == /\ Goto(next) /\ LeaseType' /\ torn' \in SUBSET Ops
              /\ UNCHANGED <<consumer, backup, gate, live, pub, installation, receipt, archive, faults, ops>>
Onward(next) ==
  \/ At("lockA") /\ next = "reserve" /\ s.kind = "bounded"
  \/ At("lockA") /\ next = "publishA" /\ s.kind = "consumer"
  \/ At("lockA") /\ next = "applyGate" /\ s.kind = "adopt"
  \/ At("reserve") /\ next = "target" /\ Original(s.op)
  \/ At("reserve") /\ next = "reserved" /\ record \in {None, current}
  \/ At("releaseA") /\ next = "lock"
  \/ At("lock") /\ next = "revalidate" /\ s.kind = "bounded"
  \/ At("lock") /\ next = "final"
  \/ At("revalidate") /\ next = "retarget" /\ Original(s.op)
  \/ At("releaseB") /\ next = "publish"
  \/ At("release") /\ next = "verified"
  \/ At("releaseC") /\ next = "resume"
  \/ At("lockC") /\ next \in {"finalize", "verified"}
  \/ At("adopted") /\ next = "archive"
  \/ At("complete") /\ next = "completed"
  \/ At("finalize") /\ next = "finalized" /\ receipt[s.op].state = "backend-complete"

LEMMA OnwardKeeps ==
  ASSUME Inv, NEW next, Walk(next), Onward(next)
  PROVE  Inv'
<1>1. next \in Places
  BY DEF Onward, Places, Steps, Prepare, Cutover, Finish, Retained
<1>2. /\ SessionType' /\ s'.at = next /\ s'.kind = s.kind /\ s'.op = s.op /\ s'.product = s.product
      /\ s'.config = s.config /\ s'.captured = s.captured
  BY <1>1, Moves DEF Walk, Inv, Types
<1>3. SessionShape' /\ Routes'
  BY <1>2 DEF Inv, SessionShape, Routes, At, Walk, Onward
<1>4. GateKept' /\ Drained'
  BY <1>2 DEF Inv, GateKept, Drained, Owned, Steps, Prepare, Cutover, Finish, Retained, At, Walk, Onward
<1>5. Publishes'
  BY <1>2 DEF Inv, Publishes, Readable, At, Walk, Onward
<1>6. Reached'
  BY <1>2 DEF Inv, Reached, Placed, FromPublished, FromServed, FromCleared, At, Walk, Onward, Routes,
     Readable,
     Serving, installation
<1>7. ReceiptsKeep'
  BY <1>2 DEF Inv, ReceiptsKeep, Original, Archived, At, Walk, Onward, Routes, installation
<1>8. ReceiptType' /\ CountType' /\ LeaseType'
  BY DEF Walk, Inv, Types, ReceiptType, CountType
<1>9. QED
  BY <1>1, <1>2, <1>3, <1>4, <1>5, <1>6, <1>7, <1>8, Beside DEF Walk, Inv, Types
LEMMA WalkingSteps ==
  ASSUME Inv, UNCHANGED <<faults, ops>>,
         \/ (Lock \/ Release) /\ UNCHANGED retained
         \/ LockA \/ Reserve \/ ReleaseA \/ Revalidate \/ ReleaseB \/ Adopted \/ WriteComplete \/ LockC \/ Finalize \/ ReleaseC
  PROVE  Inv'
<1>1. SUFFICES \E next : Walk(next) /\ Onward(next)
  BY OnwardKeeps
<1>2. LeaseType /\ NoLease \in [op : 0..MaxOps, digest : Digests \cup {None}]
      /\ torn \in SUBSET Ops /\ s.op \in 0..MaxOps /\ s.base \in Digests \cup {None}
  BY LimitsAssumption DEF Inv, Types, NoLease, SessionType, ReceiptType
<1>3. s.at # "idle" => s.op \in Ops /\ Digest[s.config] \in Digests
  BY DEF Inv, SessionShape, Digests
<1>4. CASE Lock /\ UNCHANGED retained
  <2>1. Walk(IF s.kind = "bounded" THEN "revalidate" ELSE "final")
    BY <1>2, <1>4 DEF Lock, Hold, Walk, retained, LeaseType
  <2>2. QED BY <2>1, <1>4 DEF Lock, Onward
<1>5. CASE Release /\ UNCHANGED retained
  <2>1. Walk("verified") /\ At("release")
    BY <1>2, <1>5 DEF Release, LetGo, Walk, retained, LeaseType
  <2>2. QED BY <2>1 DEF Onward
<1>6. CASE LockA
  <2>1. Walk(CASE s.kind = "bounded" -> "reserve" [] s.kind = "consumer" -> "publishA" [] OTHER -> "applyGate")
    BY <1>2, <1>6 DEF LockA, Hold, Walk, retained, LeaseType
  <2>2. QED BY <2>1, <1>6 DEF LockA, Onward, Inv, Routes, At
<1>7. CASE Reserve
  <2>1. CASE Reserved(s.op) /\ Goto("target") /\ Still
    <3>1. Walk("target")
      BY <1>2, <2>1, <1>7 DEF Reserve, Still, Walk, publication, retained, LeaseType, Inv, Types
    <3>2. Original(s.op)
      BY <2>1 DEF Reserved, Kept, BackendKept, Original
    <3>3. QED BY <3>1, <3>2, <1>7 DEF Reserve, Onward
  <2>2. CASE Fresh(s.op) /\ torn' = torn \cup {s.op} /\ Goto("reserved") /\ UNCHANGED <<publication, installation, receipt, archive>>
    <3>1. Walk("reserved")
      BY <1>2, <2>2 DEF Fresh, Walk, publication, LeaseType, Inv, Types
    <3>2. QED BY <3>1, <2>2, <1>7 DEF Reserve, Fresh, Onward
  <2>3. QED BY <2>1, <2>2, <1>7 DEF Reserve
<1>8. CASE ReleaseA
  <2>1. Walk("lock") /\ At("releaseA")
    BY <1>2, <1>8 DEF ReleaseA, LetGo, Walk, retained, LeaseType
  <2>2. QED BY <2>1 DEF Onward
<1>9. CASE Revalidate
  <2>1. Walk("retarget") /\ At("revalidate")
    BY <1>2, <1>9 DEF Revalidate, Still, Walk, publication, retained, LeaseType, Inv, Types
  <2>2. Original(s.op)
    BY <1>9 DEF Revalidate, Revalid, R, Kept, BackendKept, Original
  <2>3. QED BY <2>1, <2>2 DEF Onward
<1>10. CASE ReleaseB
  <2>1. Walk("publish") /\ At("releaseB")
    BY <1>2, <1>10 DEF ReleaseB, LetGo, Walk, retained, LeaseType
  <2>2. QED BY <2>1 DEF Onward
<1>11. CASE WriteComplete
  <2>1. Walk("completed") /\ At("complete")
    BY <1>2, <1>3, <1>11 DEF WriteComplete, Write, Walk, At, publication, LeaseType, Inv, Types
  <2>2. QED BY <2>1 DEF Onward
<1>12. CASE LockC
  <2>1. Walk(IF s.kind = "bounded" THEN "finalize" ELSE "verified") /\ At("lockC")
    BY <1>2, <1>3, <1>12 DEF LockC, Walk, At, retained, LeaseType
  <2>2. QED BY <2>1 DEF Onward
<1>13. CASE Finalize
  <2>1. Walk("finalized") /\ At("finalize")
    BY <1>2, <1>3, <1>13 DEF Finalize, Write, Walk, At, publication, LeaseType, Inv, Types
  <2>2. receipt[s.op].state = "backend-complete"
    BY <1>13 DEF Finalize, Finalizable, Loaded
  <2>3. QED BY <2>1, <2>2 DEF Onward
<1>14. CASE ReleaseC
  <2>1. Walk("resume") /\ At("releaseC")
    BY <1>2, <1>14 DEF ReleaseC, LetGo, Walk, retained, LeaseType
  <2>2. QED BY <2>1 DEF Onward
<1>15. CASE Adopted
  <2>1. Walk("archive") /\ At("adopted")
    BY <1>2, <1>15 DEF Adopted, Still, Walk, publication, retained, LeaseType, Inv, Types
  <2>2. QED BY <2>1 DEF Onward
<1>16. QED
  BY <1>4, <1>5, <1>6, <1>7, <1>8, <1>9, <1>10, <1>11, <1>12, <1>13, <1>14, <1>15
\* A command that stops, or dies: the files stay as they are.
LEMMA HaltKeeps ==
  ASSUME Inv, Working, Halt, UNCHANGED <<publication, installation, retained, ops>>, faults' \in 0..MaxFaults
  PROVE  Inv'
<1>1. /\ SessionType' /\ s'.at = "stopped" /\ s'.op = s.op /\ s'.product = s.product /\ s'.config = s.config
      /\ s'.captured = s.captured /\ s'.kind = IF s.at \in Unnamed THEN None ELSE s.kind
  BY DEF Halt, Inv, Types, SessionType, Places
<1>2. SessionShape' /\ Routes' /\ GateKept' /\ Drained' /\ LiveAreBound' /\ PendingIsProven'
  BY <1>1 DEF Inv, SessionShape, Routes, GateKept, Drained, LiveAreBound, PendingIsProven, Readable,
     Owned, Steps,
     Prepare, Cutover, Finish, Retained, Working, Unnamed, publication
<1>3. Publishes'
  BY <1>1 DEF Inv, Publishes, Readable, publication
<1>4. Reached' /\ Captured' /\ OpenIsComplete' /\ ReceiptsKeep' /\ OriginalSurvives'
  BY <1>1 DEF Inv, Reached, Placed, FromPublished, FromServed, FromCleared, Captured, Whole, Serving,
     Readable,
     OpenIsComplete, ReceiptsKeep, Original, Archived, OriginalSurvives, publication, installation, retained
<1>5. Types'
  BY <1>1 DEF Inv, Types, GateType, LiveType, PubType, LeaseType, DiskType, ReceiptType, CountType,
     publication, installation, retained
<1>6. QED BY <1>2, <1>3, <1>4, <1>5 DEF Inv

LEMMA StopKeeps == ASSUME Inv, Stops \/ Fails PROVE Inv'
<1>1. Working /\ Halt /\ UNCHANGED <<publication, installation, retained, ops>>
  BY DEF Stops, Fails, Still
<1>2. faults' \in 0..MaxFaults
  BY LimitsAssumption DEF Stops, Fails, Fault, Inv, Types, CountType
<1>3. QED BY <1>1, <1>2, HaltKeeps

LEMMA IdleSession == /\ Idle \in [kind : Kinds \cup {None}, op : 0..MaxOps, product : Products \cup {None},
                      config : Configs \cup {None}, base : Digests \cup {None}, captured : BOOLEAN, at : Places]
                     /\ Idle.at = "idle" /\ Idle.captured = FALSE
BY LimitsAssumption DEF Idle, Places

\* The command is gone and the gate, if it moved, is closed or open over what
\* was there before.
LEMMA GoneKeeps ==
  ASSUME Inv, s' = Idle, LeaseType', GateType', faults' \in 0..MaxFaults,
         UNCHANGED <<consumer, backup, live, pub, installation, retained, ops>>,
         gate'.digest = gate.digest,
         \/ gate'.phase = "open" /\ gate'.op = 0 /\ s.captured
         \/ gate'.phase # "open" /\ gate.phase # "open" /\ gate'.op = gate.op /\ gate'.target = gate.target
            /\ gate'.phase \in {gate.phase, "recovery-required"}
         \/ gate' = gate /\ (gate.phase = "open" => pub.at = "exited")
  PROVE  Inv'
<1>1. SessionType' /\ s'.at = "idle" /\ s'.captured = FALSE
  BY IdleSession DEF SessionType
<1>2. SessionShape' /\ Routes'
  BY <1>1 DEF SessionShape, Routes
<1>3. GateKept' /\ Drained' /\ LiveAreBound' /\ PendingIsProven'
  BY <1>1 DEF Inv, GateKept, Drained, LiveAreBound, PendingIsProven, Readable, Owned, Steps,
     Prepare, Cutover, Finish, Retained, Publishes, Captured, Whole
<1>4. Publishes'
  BY <1>1 DEF Inv, Publishes, Readable, Running
<1>5. Reached' /\ Captured' /\ OpenIsComplete'
  BY <1>1 DEF Inv, Reached, Placed, FromPublished, FromServed, FromCleared, Captured, Whole, Serving,
     Readable,
     OpenIsComplete, installation
<1>6. ReceiptsKeep' /\ OriginalSurvives'
  BY <1>1 DEF Inv, ReceiptsKeep, Original, Archived, OriginalSurvives, installation, retained, Ops
<1>7. Types'
  BY <1>1 DEF Inv, Types, GateType, LiveType, PubType, LeaseType, DiskType, ReceiptType, CountType,
     installation, retained
<1>8. QED BY <1>2, <1>3, <1>4, <1>5, <1>6, <1>7 DEF Inv

LEMMA NoLeaseType == NoLease \in [op : 0..MaxOps, digest : Digests \cup {None}]
BY LimitsAssumption DEF NoLease

LEMMA LeaveKeeps == ASSUME Inv, Leave PROVE Inv'
<1>1. /\ s' = Idle /\ LeaseType' /\ UNCHANGED <<consumer, backup, live, pub, installation, retained, ops>>
  BY NoLeaseType DEF Leave, Restore, Mark, GiveUp, Leaves, Dropped, Inv, Types, LeaseType
<1>2. faults' \in 0..MaxFaults
  BY LimitsAssumption DEF Leave, Restore, Mark, GiveUp, Leaves, Fault, Inv, Types, CountType
<1>3. CASE Restore
  <2>1. GateType' /\ gate'.phase = "open" /\ gate'.op = 0 /\ gate'.digest = gate.digest /\ s.captured
    <3>1. gate' = [phase |-> "open", op |-> 0, target |-> None, digest |-> gate.digest]
      BY <1>3 DEF Restore, Inv, Types, GateType
    <3>2. gate.digest \in Digests /\ s.captured /\ 0 \in 0..MaxOps
      BY <1>3, LimitsAssumption DEF Restore, Restorable, Inv, Types, GateType
    <3>3. QED BY <3>1, <3>2 DEF GateType, Phases
  <2>2. QED BY <1>1, <1>2, <2>1, GoneKeeps
<1>4. CASE Mark
  <2>1. GateType' /\ gate'.phase = "recovery-required" /\ gate'.op = gate.op /\ gate'.target = gate.target
        /\ gate'.digest = gate.digest /\ gate.phase # "open"
    BY <1>4 DEF Mark, Markable, Inv, Types, GateType, Phases
  <2>2. QED BY <1>1, <1>2, <2>1, GoneKeeps
<1>5. CASE GiveUp
  <2>1. gate' = gate /\ GateType' /\ (gate.phase = "open" => pub.at = "exited")
    BY <1>5 DEF GiveUp, Inv, Types, GateType, Publishes
  <2>2. QED BY <1>1, <1>2, <2>1, GoneKeeps
<1>6. QED BY <1>3, <1>4, <1>5 DEF Leave

LEMMA DiesKeeps == ASSUME Inv, Dies PROVE Inv'
<1>1. /\ s' = Idle /\ LeaseType' /\ UNCHANGED <<consumer, backup, live, pub, installation, retained, ops>> /\ gate' = gate
  BY NoLeaseType DEF Dies, Dropped, Inv, Types, LeaseType
<1>2. faults' \in 0..MaxFaults
  BY LimitsAssumption DEF Dies, Fault, Inv, Types, CountType
<1>3. GateType' /\ (gate.phase = "open" => pub.at = "exited")
  BY <1>1 DEF Inv, Types, GateType, Publishes
<1>4. QED BY <1>1, <1>2, <1>3, GoneKeeps

\* Only the lease or the count of failures moves.
LEMMA LeaseKeeps ==
  ASSUME Inv, LeaseType', faults' \in 0..MaxFaults,
         UNCHANGED <<consumer, backup, gate, live, pub, installation, s, ops, retained>>
  PROVE  Inv'
<1>1. Types'
  BY DEF Inv, Types, SessionType, GateType, LiveType, PubType, DiskType, ReceiptType, CountType,
     installation, retained
<1>2. QED
  BY <1>1 DEF Inv, SessionShape, Routes, GateKept, Drained, LiveAreBound, PendingIsProven, Publishes,
     Reached, Captured,
     OpenIsComplete, ReceiptsKeep, OriginalSurvives, Readable, Whole, Serving, Original, Archived,
     installation, retained
LEMMA HolderDiesKeeps == ASSUME Inv, HolderDies PROVE Inv'
<1>1. LeaseType' /\ faults' \in 0..MaxFaults
  BY NoLeaseType, LimitsAssumption DEF HolderDies, Fault, Inv, Types, CountType, LeaseType
<1>2. QED BY <1>1, LeaseKeeps DEF HolderDies
\* A command starts: at its first step, with an operation it has or takes.
LEMMA StartKeeps ==
  ASSUME Inv, NEW kind \in Kinds, NEW at, NEW o \in Ops, NEW p \in Products, NEW c \in Configs,
         Command(kind, at, o, p, c), UNCHANGED retained,
         \/ at = "capture" /\ kind = "install" /\ o = ops + 1 /\ ops' = ops + 1 /\ gate.phase = "open"
         \/ /\ o = gate.op /\ gate.phase # "open" /\ UNCHANGED ops
            /\ \/ at = "retarget" /\ kind = "recover" /\ gate.target = p
               \/ /\ at = "lockA" /\ kind \in {"bounded", "consumer", "adopt"}
                  /\ kind # "bounded" => p = receipt[o].product /\ c = receipt[o].config
                  /\ kind = "consumer" => staged[o] \in Configs /\ current = p /\ manifest[current] = c
  PROVE  Inv'
<1>1. /\ SessionType' /\ s'.at = at /\ s'.kind = kind /\ s'.op = o /\ s'.product = p /\ s'.config = c
      /\ s'.captured = FALSE /\ ops' \in 0..MaxOps /\ ops \in 0..MaxOps
  <2>1. s' = [kind |-> kind, at |-> at, op |-> o, product |-> p, config |-> c,
              base |-> gate.digest, captured |-> FALSE]
    BY DEF Command
  <2>2. gate.digest \in Digests /\ at \in Places /\ ops \in 0..MaxOps
    BY DEF Inv, Types, GateType, Places, Steps, Prepare, Retained, CountType
  <2>3. ops' \in 0..MaxOps
    BY <2>2, LimitsAssumption DEF Ops
  <2>4. o \in 0..MaxOps
    BY LimitsAssumption DEF Ops
  <2>5. QED BY <2>1, <2>2, <2>3, <2>4 DEF SessionType
<1>2. o <= ops' /\ ops <= ops'
  BY <1>1, LimitsAssumption DEF Inv, GateKept, Ops
<1>3. UNCHANGED <<publication, installation, faults>> /\ pub.at = "exited" /\ s.at = "idle"
  BY DEF Command, NoOrphan, At
<1>4. SessionShape' /\ Routes'
  BY <1>1, <1>2 DEF SessionShape, Routes
<1>5. GateKept' /\ Drained' /\ LiveAreBound' /\ PendingIsProven'
  BY <1>1, <1>2, <1>3, LimitsAssumption DEF Inv, GateKept, Drained, LiveAreBound, PendingIsProven,
     Readable, Owned, Steps,
     Prepare, Cutover, Finish, Retained, publication, Ops
<1>6. Publishes' /\ Reached' /\ Captured' /\ OpenIsComplete'
  BY <1>1, <1>3 DEF Inv, Publishes, Readable, Reached, Placed, FromPublished, FromServed, FromCleared,
     Captured,
     Whole, Serving, OpenIsComplete, publication, installation, Running
<1>7. receipt[ops + 1].state = None \/ ops' = ops
  BY <1>1 DEF Inv, ReceiptsKeep
<1>8. ReceiptsKeep' /\ OriginalSurvives'
  BY <1>1, <1>2, <1>3, <1>7, LimitsAssumption DEF Inv, ReceiptsKeep, Original, Archived, OriginalSurvives,
     publication, installation,
     retained, Ops
<1>9. Types'
  BY <1>1, <1>3 DEF Inv, Types, GateType, LiveType, PubType, LeaseType, DiskType, ReceiptType, CountType,
     publication, installation, retained
<1>10. QED BY <1>4, <1>5, <1>6, <1>8, <1>9 DEF Inv
\* A command that moves on after it wrote the gate, whose operation it has.
Rewrites(next) ==
  /\ Goto(next) /\ GateType' /\ gate'.digest = gate.digest /\ pub.at = "exited"
  /\ gate'.phase # "open" /\ gate.phase # "open" => gate'.op = gate.op
  /\ UNCHANGED <<consumer, backup, live, lease, pub, installation, retained, faults, ops>>
Turns(next) ==
  \/ /\ At("quiesce") /\ next = "drain" /\ gate.phase = "open" /\ gate'.phase = "quiesced"
     /\ gate'.op = s.op /\ gate'.target = s.product
  \/ /\ gate.phase # "open" /\ gate'.op = gate.op /\ gate'.target = gate.target /\ gate'.phase # "open"
     /\ \/ At("drain") /\ next = "applying" /\ Quiet
        \/ At("applying") /\ next = "lock" /\ gate.phase = "drained"
        \/ At("reapply") /\ next \in {"final", "lock"}
        \/ At("applyGate") /\ next = "activate" /\ Quiet /\ Readable /\ gate.digest = Digest[s.config]
           /\ current = s.product /\ manifest[current] = s.config
        \/ At("verified") /\ next \in {"lockC", "finalize", "resume"} /\ gate.phase = "applying"
           /\ (s.kind \in {"install", "recover"} => next = "resume")
           /\ (s.kind \in {"consumer", "adopt"} => next = "finalize")
           /\ (s.kind = "bounded" => next = "lockC")
  \/ /\ gate.phase # "open" /\ gate'.op = gate.op /\ gate'.target = s.product /\ gate'.phase = "recovery-required"
     /\ \/ At("target") /\ next = "releaseA"
        \/ At("retarget") /\ next = "reapply" /\ Quiet

LEMMA TurnsKeep ==
  ASSUME Inv, NEW next, Rewrites(next), Turns(next)
  PROVE  Inv'
<1>1. /\ SessionType' /\ s'.at = next /\ s'.kind = s.kind /\ s'.op = s.op /\ s'.product = s.product
      /\ s'.config = s.config /\ s'.captured = s.captured
  <2>1. next \in Places
    BY DEF Turns, Places, Steps, Prepare, Cutover, Finish, Retained
  <2>2. QED BY <2>1, Moves DEF Rewrites, Inv, Types
<1>2. SessionShape' /\ Routes'
  BY <1>1 DEF Inv, SessionShape, Routes, Kinds, At, Rewrites, Turns
<1>3. GateKept' /\ Drained'
  BY <1>1 DEF Inv, GateKept, Drained, Owned, Steps, Prepare, Cutover, Finish, Retained, At, Rewrites, Turns,
     SessionShape, Quiet, Routes
<1>4. LiveAreBound' /\ PendingIsProven'
  BY <1>1 DEF Inv, LiveAreBound, PendingIsProven, Readable, At, Rewrites, Turns, OpenIsComplete
<1>5. Publishes' /\ Captured' /\ OpenIsComplete'
  BY <1>1 DEF Inv, Publishes, Readable, At, Rewrites, Turns, Captured, Whole, Serving, OpenIsComplete,
     installation, Running
<1>6. Reached'
  BY <1>1 DEF Inv, Reached, Placed, FromPublished, FromServed, FromCleared, At, Rewrites, Turns, Readable,
     Serving, installation
<1>7. ReceiptsKeep'
  BY <1>1 DEF Inv, ReceiptsKeep, Original, Archived, At, Rewrites, Turns, installation, retained, Routes
<1>8. OriginalSurvives'
  BY <1>1 DEF Inv, OriginalSurvives, ReceiptsKeep, Original, At, Rewrites, Turns, installation, retained,
     Routes, GateKept, Owned,
     Steps, Prepare, Retained
<1>9. Types'
  BY <1>1 DEF Inv, Types, GateType, LiveType, PubType, LeaseType, DiskType, ReceiptType, CountType,
     Rewrites,
     installation, retained
<1>10. QED BY <1>2, <1>3, <1>4, <1>5, <1>6, <1>7, <1>8, <1>9 DEF Inv

LEMMA PhaseKinds ==
  ASSUME Inv, NEW phase \in Phases, SetPhase(phase)
  PROVE  /\ GateType' /\ gate'.phase = phase /\ gate'.op = gate.op /\ gate'.target = gate.target
         /\ gate'.digest = gate.digest /\ UNCHANGED <<consumer, backup, live, lease, pub, installation>>
BY DEF SetPhase, Inv, Types, GateType

\* The diagnosis closes the gate behind a dead command.
LEMMA DeclareKeeps == ASSUME Inv, DeclareRecovery PROVE Inv'
<1>1. /\ GateType' /\ gate'.phase = "recovery-required" /\ gate'.op = gate.op /\ gate'.target = gate.target
      /\ gate'.digest = gate.digest /\ UNCHANGED <<consumer, backup, live, lease, pub, installation>>
  BY PhaseKinds DEF DeclareRecovery, Phases
<1>2. gate.phase # "open" /\ s.at = "idle" /\ UNCHANGED <<s, ops, faults, retained>>
  BY DEF DeclareRecovery, At
<1>3. s' = Idle /\ LeaseType' /\ faults' \in 0..MaxFaults
  BY <1>1, <1>2 DEF Inv, SessionShape, Types, LeaseType, CountType
<1>4. QED BY <1>1, <1>2, <1>3, GoneKeeps

LEMMA TurningSteps ==
  ASSUME Inv, UNCHANGED <<faults, ops>>,
         \/ (Quiesce \/ Drain \/ Applying \/ Retarget \/ Reapply \/ Verified) /\ UNCHANGED retained
         \/ Target \/ ApplyGate
  PROVE  Inv'
<1>1. SUFFICES \E next : Rewrites(next) /\ Turns(next)
  BY TurnsKeep
<1>2. {"quiesced", "drained", "applying", "verified", "recovery-required"} \subseteq Phases
  BY DEF Phases
<1>4. s.at \in {"quiesce", "drain", "applying", "retarget", "reapply", "verified", "target", "applyGate"} =>
        /\ pub.at = "exited" /\ s.kind \in Kinds
        /\ s.at # "quiesce" => gate.phase # "open" /\ gate.op = s.op
  BY DEF Inv, Publishes, Routes, GateKept, Owned, Steps, Prepare, Cutover, Finish, Retained
<1>5. CASE Quiesce /\ UNCHANGED retained
  <2>1. gate' = [phase |-> "quiesced", op |-> s.op, target |-> s.product, digest |-> gate.digest]
    BY <1>5 DEF Quiesce, Inv, Types, GateType
  <2>2. GateType'
    BY <2>1, <1>2, <1>5 DEF GateType, Inv, Types, SessionType
  <2>3. Rewrites("drain")
    BY <2>1, <2>2, <1>4, <1>5 DEF Quiesce, Rewrites, At
  <2>4. QED BY <2>1, <2>3, <1>5 DEF Quiesce, Turns
<1>6. CASE Drain /\ UNCHANGED retained
  <2>1. SetPhase("drained") /\ Goto("applying") /\ Quiet /\ s.at = "drain"
    BY <1>6 DEF Drain, At
  <2>2. Rewrites("applying") /\ gate'.phase = "drained" /\ gate'.op = gate.op /\ gate'.target = gate.target
    BY <2>1, <1>2, <1>4, <1>6, PhaseKinds DEF Rewrites
  <2>3. QED BY <2>1, <2>2, <1>4 DEF Turns, At
<1>7. CASE Applying /\ UNCHANGED retained
  <2>1. SetPhase("applying") /\ Goto("lock") /\ s.at = "applying" /\ gate.phase = "drained"
    BY <1>7 DEF Applying, At, GateFrom
  <2>2. Rewrites("lock") /\ gate'.phase = "applying" /\ gate'.op = gate.op /\ gate'.target = gate.target
    BY <2>1, <1>2, <1>4, <1>7, PhaseKinds DEF Rewrites
  <2>3. QED BY <2>1, <2>2, <1>4 DEF Turns, At
<1>8. CASE Reapply /\ UNCHANGED retained
  <2> DEFINE next == IF s.kind = "bounded" THEN "final" ELSE "lock"
  <2>1. SetPhase("applying") /\ Goto(next) /\ s.at = "reapply"
    BY <1>8 DEF Reapply, At
  <2>2. Rewrites(next) /\ gate'.phase = "applying" /\ gate'.op = gate.op /\ gate'.target = gate.target
    BY <2>1, <1>2, <1>4, <1>8, PhaseKinds DEF Rewrites
  <2>3. QED BY <2>1, <2>2, <1>4 DEF Turns, At
<1>9. CASE Verified /\ UNCHANGED retained
  <2> DEFINE next == CASE s.kind = "bounded" -> "lockC" [] s.kind \in {"consumer", "adopt"} -> "finalize"
                       [] OTHER -> "resume"
  <2>1. SetPhase("verified") /\ Goto(next) /\ s.at = "verified" /\ gate.phase = "applying"
    BY <1>9 DEF Verified, At, GateFrom
  <2>2. Rewrites(next) /\ gate'.phase = "verified" /\ gate'.op = gate.op /\ gate'.target = gate.target
    BY <2>1, <1>2, <1>4, <1>9, PhaseKinds DEF Rewrites
  <2>3. QED BY <2>1, <2>2, <1>4 DEF Turns, At
<1>10. ASSUME Select, UNCHANGED retained, gate.op = s.op, gate.phase # "open",
              pub.at = "exited", NEW next, Goto(next)
       PROVE  Rewrites(next) /\ gate'.phase = "recovery-required" /\ gate'.op = gate.op /\ gate'.target = s.product
  <2>1. gate' = [phase |-> gate.phase, op |-> gate.op, target |-> s.product, digest |-> gate.digest]
    BY <1>10 DEF Select, Inv, Types, GateType
  <2>2. GateType' /\ gate.phase = "recovery-required"
    BY <2>1, <1>10 DEF Select, GateFrom, GateType, Inv, Types, SessionType
  <2>3. QED BY <2>1, <2>2, <1>10 DEF Select, Rewrites
<1>11. CASE Retarget /\ UNCHANGED retained
  <2>1. s.at = "retarget" /\ Select /\ Goto("reapply") /\ Quiet
    BY <1>11 DEF Retarget, At, Select
  <2>2. QED BY <2>1, <1>4, <1>10, <1>11 DEF Turns, At
<1>12. CASE Target
  <2>1. s.at = "target" /\ Select /\ Goto("releaseA") /\ UNCHANGED retained
    BY <1>12 DEF Target, At
  <2>2. QED BY <2>1, <1>4, <1>10 DEF Turns, At
<1>13. CASE ApplyGate
  <2>1. SetPhase("applying") /\ Goto("activate") /\ s.at = "applyGate" /\ UNCHANGED retained
    BY <1>13 DEF ApplyGate, At
  <2>2. Quiet /\ Readable /\ gate.digest = Digest[s.config] /\ current = s.product /\ manifest[current] = s.config
    <3>1. Quiet /\ Readable /\ Unadopted(s.op)
      BY <1>13 DEF ApplyGate, Proved, Eligible
    <3>2. s.product = receipt[s.op].product /\ s.config = receipt[s.op].config
      BY <2>1 DEF Inv, ReceiptsKeep, Routes
    <3>3. QED BY <3>1, <3>2 DEF Unadopted, Applied, Installed, InstalledAs
  <2>3. Rewrites("activate") /\ gate'.phase = "applying" /\ gate'.op = gate.op /\ gate'.target = gate.target
    BY <2>1, <1>2, <1>4, PhaseKinds, <1>13 DEF Rewrites
  <2>4. QED BY <2>1, <2>2, <2>3, <1>4 DEF Turns, At
<1>14. QED
  BY <1>5, <1>6, <1>7, <1>8, <1>9, <1>11, <1>12, <1>13
LEMMA OwnerKeeps == ASSUME Inv, Owner PROVE Inv'
<1>1. gate.phase # "open" => gate.op \in Ops
  BY DEF Inv, GateKept
<1>2. \A o \in Ops : receipt[o].state # None => receipt[o].product \in Products /\ receipt[o].config \in Configs
  BY DEF Inv, ReceiptsKeep
<1>3. {"install", "recover", "bounded", "consumer", "adopt"} \subseteq Kinds
  BY DEF Kinds
<1>4. ASSUME NEW p \in Products, NEW c \in Configs, Start(p, c) PROVE Inv'
  <2>1. CASE Install(p, c)
    <3>1. ops + 1 \in Ops
      BY <2>1, LimitsAssumption DEF Install, Ops, Inv, Types, CountType
    <3>2. Command("install", "capture", ops + 1, p, c) /\ UNCHANGED retained /\ ops' = ops + 1 /\ gate.phase = "open"
      BY <1>4, <2>1 DEF Start, Install
    <3>3. QED BY <1>3, <3>1, <3>2, StartKeeps
  <2>2. CASE Recover(p, c)
    <3>1. /\ Command("recover", "retarget", gate.op, p, c) /\ UNCHANGED <<retained, ops>>
          /\ gate.phase # "open" /\ gate.target = p
      BY <1>4, <2>2 DEF Start, Recover
    <3>2. QED BY <1>1, <1>3, <3>1, StartKeeps
  <2>3. QED BY <1>4, <2>1, <2>2 DEF Start
<1>5. ASSUME NEW p \in Products, NEW c \in Configs, Bounded(p, c) PROVE Inv'
  <2>1. Command("bounded", "lockA", gate.op, p, c) /\ UNCHANGED <<retained, ops>> /\ gate.op \in Ops
    BY <1>5 DEF Bounded
  <2>2. gate.phase # "open"
    BY <1>5 DEF Bounded, Fresh, Reserved, GateOf, Closed
  <2>3. QED BY <1>3, <2>1, <2>2, StartKeeps
<1>6. CASE PreApply
  <2>1. /\ Command("bounded", "lockA", gate.op, receipt[gate.op].product, receipt[gate.op].config)
        /\ UNCHANGED <<retained, ops>> /\ gate.op \in Ops /\ Reserved(gate.op)
    BY <1>6 DEF PreApply
  <2>2. gate.phase # "open" /\ receipt[gate.op].state # None
    BY <2>1, PublicationAssumption DEF Reserved, GateOf, Closed, Loaded, None
  <2>3. QED BY <1>2, <1>3, <2>1, <2>2, StartKeeps
<1>7. CASE ContinueConsumer
  <2>1. /\ Command("consumer", "lockA", gate.op, receipt[gate.op].product, receipt[gate.op].config)
        /\ UNCHANGED <<retained, ops>> /\ gate.op \in Ops /\ Unpublished(gate.op)
    BY <1>7 DEF ContinueConsumer
  <2>2. gate.phase # "open" /\ receipt[gate.op].state # None
    BY <2>1 DEF Unpublished, Applied, Reserved, GateOf, Closed, Loaded, None
  <2>3. staged[gate.op] \in Configs
    BY <2>1 DEF Unpublished, Inv, Types, DiskType
  <2>4. current = receipt[gate.op].product /\ manifest[current] = receipt[gate.op].config
    BY <2>1 DEF Unpublished, Applied, Installed, InstalledAs
  <2>5. QED BY <1>2, <1>3, <2>1, <2>2, <2>3, <2>4, StartKeeps
<1>8. CASE AdoptConfig
  <2>1. /\ Command("adopt", "lockA", gate.op, receipt[gate.op].product, receipt[gate.op].config)
        /\ UNCHANGED <<retained, ops>> /\ gate.op \in Ops /\ Unadopted(gate.op)
    BY <1>8 DEF AdoptConfig
  <2>2. gate.phase # "open" /\ receipt[gate.op].state # None
    BY <2>1 DEF Unadopted, Applied, Reserved, GateOf, Closed, Loaded, None
  <2>3. QED BY <1>2, <1>3, <2>1, <2>2, StartKeeps
<1>9. CASE DeclareRecovery
  BY <1>9, DeclareKeeps
<1>10. QED BY <1>4, <1>5, <1>6, <1>7, <1>8, <1>9 DEF Owner, Continuation
\* A command that moves on after it wrote the record of the backend, the
\* files of its pair or the services.
Installs(next) ==
  /\ Goto(next) /\ DiskType' /\ pub.at = "exited"
  /\ UNCHANGED <<publication, staged, retained, faults, ops>>
Changes(next) ==
  \/ /\ At("begin") /\ next = "artifacts" /\ UNCHANGED <<manifest, current, runtime>>
     /\ \/ s.kind \in {"install", "recover"} /\ record \in {None, s.product} /\ record' = s.product
        \/ s.kind = "bounded" /\ record' = IF record = None THEN s.product ELSE record
  \/ /\ At("artifacts") /\ next = "publish" /\ UNCHANGED <<record, runtime>>
     /\ manifest' = [manifest EXCEPT ![s.product] = s.config] /\ current' = s.product
  \/ /\ At("activate") /\ UNCHANGED <<manifest, current, record>> /\ runtime' = Pair(current, consumer) /\ Readable
     /\ \/ s.kind \in {"install", "recover"} /\ next = "clear"
        \/ s.kind \notin {"install", "recover"} /\ next = "archive"
        \/ s.kind = "adopt" /\ next = "adopted"
  \/ /\ At("clear") /\ next = "release" /\ UNCHANGED <<manifest, current, runtime>> /\ record = s.product /\ record' = None
  \/ /\ At("unlink") /\ UNCHANGED <<manifest, current, runtime>> /\ record' = None
     /\ \/ s.kind = "bounded" /\ next = "release"
        \/ s.kind = "consumer" /\ next = "lockC"
        \/ s.kind = "adopt" /\ next = "verified"

LEMMA ChangesKeep ==
  ASSUME Inv, NEW next, Installs(next), Changes(next)
  PROVE  Inv'
<1>1. /\ SessionType' /\ s'.at = next /\ s'.kind = s.kind /\ s'.op = s.op /\ s'.product = s.product
      /\ s'.config = s.config /\ s'.captured = s.captured
  <2>1. next \in Places
    BY DEF Changes, Places, Steps, Prepare, Cutover, Finish, Retained
  <2>2. QED BY <2>1, Moves DEF Installs, Inv, Types
<1>2. s.product \in Products /\ s.op \in Ops /\ gate.phase # "open" /\ gate.op = s.op /\ s.captured = FALSE /\ s.kind \in Kinds
  BY DEF Inv, SessionShape, Routes, GateKept, Owned, Steps, Cutover, Changes, At, Types, SessionType
<1>3. SessionShape' /\ Routes'
  BY <1>1, <1>2 DEF Inv, SessionShape, Routes, Kinds, At, Installs, Changes
<1>4. GateKept' /\ Drained' /\ LiveAreBound' /\ PendingIsProven'
  BY <1>1, <1>2 DEF Inv, GateKept, Drained, LiveAreBound, PendingIsProven, Readable, Owned, Steps,
     Prepare, Cutover,
     Finish, Retained, At, Installs, Changes, publication
<1>5. Publishes' /\ Captured' /\ OpenIsComplete'
  BY <1>1, <1>2 DEF Inv, Publishes, Readable, At, Installs, Changes, Captured, OpenIsComplete,
     publication, Running
<1>6. Reached'
  <2>1. At("artifacts") => current' = s.product /\ manifest'[current'] = s.config
    BY <1>2 DEF Changes, Inv, Types, DiskType, At
  <2>2. At("activate") => runtime'.product = current' /\ runtime'.config = consumer
    BY DEF Changes, Pair, At
  <2>3. QED
    BY <1>1, <2>1, <2>2 DEF Inv, Reached, Placed, FromPublished, FromServed, FromCleared, At, Installs,
       Changes, Readable,
       Serving, publication
<1>7. ReceiptsKeep'
  BY <1>1, <1>2 DEF Inv, ReceiptsKeep, Original, Archived, At, Installs, Changes, retained
<1>8. OriginalSurvives'
  <2> SUFFICES ASSUME NEW o \in Ops, ~receipt[o].absent, receipt[o].state # None,
                      receipt[o].from # receipt[o].product,
                      receipt[o].state = "reserved" => gate.op = o /\ gate.target = receipt[o].product,
                      record' # receipt[o].from
               PROVE  o \in archive
    BY DEF Installs, OriginalSurvives, publication, retained
  <2>1. receipt[o].from \in Products /\ receipt[o].from # None
    BY PublicationAssumption DEF Inv, ReceiptsKeep
  <2>2. CASE record # receipt[o].from
    BY <2>2 DEF Inv, OriginalSurvives
  <2>3. CASE record = receipt[o].from /\ receipt[o].state = "reserved"
    <3>1. o = s.op /\ gate.target = receipt[o].product
      BY <2>3, <1>2
    <3>2. s.kind \in {"install", "recover"} => s.product = receipt[o].product
      BY <3>1 DEF Inv, GateKept, Owned, Steps, Cutover, Changes, At
    <3>3. QED BY <2>1, <2>3, <3>1, <3>2 DEF Changes, Inv, ReceiptsKeep, Routes, At
  <2>4. CASE receipt[o].state # "reserved"
    <3>1. receipt[o].state \in {"backend-complete", "complete"}
      BY <2>4 DEF Inv, Types, ReceiptType, Receipts, States
    <3>2. QED BY <3>1 DEF Inv, ReceiptsKeep, Archived
  <2>5. QED BY <2>2, <2>3, <2>4
<1>9. Types'
  BY <1>1 DEF Inv, Types, GateType, LiveType, PubType, LeaseType, ReceiptType, CountType, Installs,
     publication, retained
<1>10. QED BY <1>3, <1>4, <1>5, <1>6, <1>7, <1>8, <1>9 DEF Inv

LEMMA ChangingSteps ==
  ASSUME Inv, UNCHANGED <<faults, ops>>,
         \/ (Begin \/ Artifacts \/ Activate \/ Clear) /\ UNCHANGED retained
         \/ BeginRetained \/ Adopt \/ Unlink
  PROVE  Inv'
<1>1. SUFFICES \E next : Installs(next) /\ Changes(next)
  BY ChangesKeep
<1>2. s.at \in {"begin", "artifacts", "activate", "clear", "unlink"} =>
        /\ pub.at = "exited" /\ s.product \in Products /\ s.config \in Configs
        /\ s.at = "unlink" => s.kind \in {"bounded", "consumer", "adopt"}
  BY DEF Inv, Publishes, Routes, SessionShape
<1>3. CASE Begin /\ UNCHANGED retained
  <2>1. Installs("artifacts")
    BY <1>2, <1>3 DEF Begin, Installs, At, Inv, Types, DiskType, publication
  <2>2. QED BY <2>1, <1>3 DEF Begin, Changes
<1>4. CASE Artifacts /\ UNCHANGED retained
  <2>1. Installs("publish")
    BY <1>2, <1>4 DEF Artifacts, Installs, At, Inv, Types, DiskType, publication
  <2>2. QED BY <2>1, <1>4 DEF Artifacts, Changes
<1>5. CASE Activate /\ UNCHANGED retained
  <2>1. Installs(IF s.kind \in {"install", "recover"} THEN "clear" ELSE "archive")
    BY <1>2, <1>5 DEF Activate, Installs, At, Inv, Types, DiskType, Pair, publication
  <2>2. QED BY <2>1, <1>5 DEF Activate, Changes, GateFrom
<1>6. CASE Clear /\ UNCHANGED retained
  <2>1. Installs("release")
    BY <1>2, <1>6 DEF Clear, Installs, At, Inv, Types, DiskType, publication
  <2>2. QED BY <2>1, <1>6 DEF Clear, Changes
<1>7. CASE BeginRetained
  <2>1. Installs("artifacts")
    BY <1>2, <1>7 DEF BeginRetained, Installs, At, Inv, Types, DiskType, publication
  <2>2. QED BY <2>1, <1>7 DEF BeginRetained, Changes
<1>8. CASE Unlink
  <2>1. Installs(CASE s.kind = "bounded" -> "release" [] s.kind = "consumer" -> "lockC" [] OTHER -> "verified")
    BY <1>2, <1>8 DEF Unlink, Installs, At, Inv, Types, DiskType, publication
  <2>2. QED BY <2>1, <1>2, <1>8 DEF Unlink, Changes, At
<1>9. CASE Adopt
  <2>1. Installs("adopted")
    BY <1>2, <1>9 DEF Adopt, Installs, At, Inv, Types, DiskType, Pair, publication
  <2>2. QED BY <2>1, <1>9 DEF Adopt, Changes, Proven, Authority, GateFrom
<1>10. QED BY <1>3, <1>4, <1>5, <1>6, <1>7, <1>8, <1>9
\* A command that moves on after it wrote its receipt or its archive.
Records(next) ==
  /\ Goto(next) /\ ReceiptType' /\ pub.at = "exited" /\ archive \subseteq archive'
  /\ \A o \in Ops \ {s.op} : receipt'[o] = receipt[o]
  /\ UNCHANGED <<publication, installation, faults, ops>>
Writes(next) ==
  LET r == receipt'[s.op] IN
  \/ /\ At("archive") /\ next = "complete" /\ UNCHANGED receipt
     /\ receipt[s.op].state = "reserved" /\ Archived(s.op)'
  \/ /\ At("completed") /\ next = "unlink" /\ r = [receipt[s.op] EXCEPT !.state = "backend-complete"]
     /\ UNCHANGED archive
  \/ /\ At("finalized") /\ next \in {"releaseC", "resume"} /\ r = [receipt[s.op] EXCEPT !.state = "complete"]
     /\ (next = "releaseC" => s.kind = "bounded") /\ UNCHANGED archive
  \/ /\ At("reserved") /\ next = "target" /\ r.state = "reserved" /\ UNCHANGED archive
     /\ r.product = s.product /\ r.config = s.config /\ r.from = current /\ r.absent = (record = None)

LEMMA ReceiptMoves ==
  ASSUME Inv, s.op \in Ops, NEW state, receipt'[s.op] = [receipt[s.op] EXCEPT !.state = state]
  PROVE  /\ receipt'[s.op].state = state /\ receipt'[s.op].from = receipt[s.op].from
         /\ receipt'[s.op].product = receipt[s.op].product /\ receipt'[s.op].config = receipt[s.op].config
         /\ receipt'[s.op].absent = receipt[s.op].absent
BY DEF Inv, Types, ReceiptType, Receipts

LEMMA WritesKeep ==
  ASSUME Inv, NEW next, Records(next), Writes(next)
  PROVE  Inv'
<1>1. /\ SessionType' /\ s'.at = next /\ s'.kind = s.kind /\ s'.op = s.op /\ s'.product = s.product
      /\ s'.config = s.config /\ s'.captured = s.captured
  <2>1. next \in Places
    BY DEF Writes, Places, Steps, Prepare, Cutover, Finish, Retained
  <2>2. QED BY <2>1, Moves DEF Records, Inv, Types
<1>2. /\ s.product \in Products /\ s.op \in Ops /\ s.op <= ops /\ gate.phase # "open" /\ gate.op = s.op
      /\ s.captured = FALSE /\ s.config \in Configs
  BY DEF Inv, SessionShape, Routes, GateKept, Owned, Steps, Cutover, Retained, Writes, At, Types,
     SessionType
<1>3. SessionShape' /\ Routes'
  BY <1>1, <1>2 DEF Inv, SessionShape, Routes, Kinds, At, Records, Writes
<1>4. GateKept' /\ Drained' /\ LiveAreBound' /\ PendingIsProven'
  BY <1>1, <1>2 DEF Inv, GateKept, Drained, LiveAreBound, PendingIsProven, Readable, Owned, Steps,
     Prepare, Cutover,
     Finish, Retained, At, Records, Writes, publication, Routes
<1>5. Publishes' /\ Captured' /\ OpenIsComplete'
  BY <1>1, <1>2 DEF Inv, Publishes, Readable, At, Records, Writes, Captured, OpenIsComplete, publication,
     Running
<1>6. Reached'
  BY <1>1, <1>2 DEF Inv, Reached, Placed, FromPublished, FromServed, FromCleared, At, Records, Writes,
     Readable,
     Serving, publication, installation
<1>7. current \in Products /\ (record = None \/ record = current \/ ~At("reserved"))
  BY DEF Inv, Types, DiskType, Reached, At
<1>8. ReceiptsKeep' /\ OriginalSurvives'
  <2>1. CASE At("archive")
    BY <1>1, <1>2, <2>1 DEF Inv, ReceiptsKeep, Original, Archived, At, Records, Writes, OriginalSurvives,
       publication, installation
  <2>2. CASE At("completed")
    <3>0. receipt'[s.op] = [receipt[s.op] EXCEPT !.state = "backend-complete"]
      BY <2>2 DEF Writes, At
    <3>1. receipt'[s.op].state = "backend-complete" /\ Archived(s.op) /\ archive' = archive
      BY <1>2, <2>2, ReceiptMoves DEF Inv, ReceiptsKeep, Writes, At
    <3>2. \A o \in Ops : /\ receipt'[o].from = receipt[o].from /\ receipt'[o].product = receipt[o].product
                         /\ receipt'[o].config = receipt[o].config /\ receipt'[o].absent = receipt[o].absent
                         /\ o # s.op => receipt'[o].state = receipt[o].state
      BY <1>2, <3>0, ReceiptMoves DEF Records
    <3>3. next = "unlink" /\ UNCHANGED <<installation, ops>>
      BY <2>2 DEF Records, Writes, At
    <3>4. ReceiptsKeep'
      <4>1. receipt[s.op].state \in {"reserved", "backend-complete"} /\ receipt[s.op].state # None
        BY <2>2 DEF Inv, ReceiptsKeep, At, None
      <4>2. \A o \in Ops : receipt'[o].state # None => receipt[o].state # None
        BY <1>2, <3>2, <4>1
      <4>3. \A o \in Ops : receipt'[o].state # None =>
              /\ o <= ops' /\ receipt'[o].from \in Products /\ receipt'[o].product \in Products
              /\ receipt'[o].config \in Configs
        BY <3>2, <3>3, <4>2 DEF Inv, ReceiptsKeep
      <4>4. \A o \in Ops : receipt'[o].state \in {"backend-complete", "complete"} => Archived(o)'
        BY <1>2, <3>1, <3>2 DEF Inv, ReceiptsKeep, Archived
      <4>5. QED BY <1>1, <1>2, <3>1, <3>3, <4>3, <4>4 DEF ReceiptsKeep
    <3>5. OriginalSurvives'
      BY <1>1, <1>2, <3>1, <3>2 DEF Inv, ReceiptsKeep, Archived, Records, OriginalSurvives, publication,
         installation
    <3>6. QED BY <3>4, <3>5
  <2>3. CASE At("finalized")
    <3>0. receipt'[s.op] = [receipt[s.op] EXCEPT !.state = "complete"]
      BY <2>3 DEF Writes, At
    <3>1. receipt'[s.op].state = "complete" /\ Archived(s.op) /\ archive' = archive
      BY <1>2, <2>3, ReceiptMoves DEF Inv, ReceiptsKeep, Writes, At
    <3>2. \A o \in Ops : /\ receipt'[o].from = receipt[o].from /\ receipt'[o].product = receipt[o].product
                         /\ receipt'[o].config = receipt[o].config /\ receipt'[o].absent = receipt[o].absent
                         /\ o # s.op => receipt'[o].state = receipt[o].state
      BY <1>2, <3>0, ReceiptMoves DEF Records
    <3>3. next \in {"releaseC", "resume"} /\ UNCHANGED <<installation, ops>>
      BY <2>3 DEF Records, Writes, At
    <3>4. ReceiptsKeep'
      <4>1. receipt[s.op].state \in {"reserved", "backend-complete"} /\ receipt[s.op].state # None
        BY <2>3 DEF Inv, ReceiptsKeep, At, None
      <4>2. \A o \in Ops : receipt'[o].state # None => receipt[o].state # None
        BY <1>2, <3>2, <4>1
      <4>3. \A o \in Ops : receipt'[o].state # None =>
              /\ o <= ops' /\ receipt'[o].from \in Products /\ receipt'[o].product \in Products
              /\ receipt'[o].config \in Configs
        BY <3>2, <3>3, <4>2 DEF Inv, ReceiptsKeep
      <4>4. \A o \in Ops : receipt'[o].state \in {"backend-complete", "complete"} => Archived(o)'
        BY <1>2, <3>1, <3>2 DEF Inv, ReceiptsKeep, Archived
      <4>5. QED BY <1>1, <1>2, <3>1, <3>3, <4>3, <4>4 DEF ReceiptsKeep
    <3>5. OriginalSurvives'
      BY <1>1, <1>2, <3>1, <3>2 DEF Inv, ReceiptsKeep, Archived, Records, OriginalSurvives, publication,
         installation
    <3>6. QED BY <3>4, <3>5
  <2>4. CASE At("reserved")
    <3>1. /\ next = "target" /\ archive' = archive /\ receipt'[s.op].state = "reserved"
          /\ receipt'[s.op].product = s.product /\ receipt'[s.op].config = s.config
          /\ receipt'[s.op].from = current /\ receipt'[s.op].absent = (record = None)
          /\ UNCHANGED <<installation, gate, ops>> /\ \A o \in Ops \ {s.op} : receipt'[o] = receipt[o]
      BY <2>4 DEF Records, Writes, At, publication
    <3>2. ~receipt'[s.op].absent => record = current
      BY <1>7, <2>4, <3>1
    <3>3. ReceiptsKeep'
      BY <1>1, <1>2, <1>7, <3>1, <3>2 DEF Inv, ReceiptsKeep, Original, Archived, installation
    <3>4. OriginalSurvives'
      BY <1>2, <3>1, <3>2 DEF Inv, OriginalSurvives, installation
    <3>5. QED BY <3>3, <3>4
  <2>5. QED BY <2>1, <2>2, <2>3, <2>4 DEF Writes
<1>9. Types'
  BY <1>1 DEF Inv, Types, GateType, LiveType, PubType, LeaseType, DiskType, CountType, Records,
     publication, installation
<1>10. QED BY <1>3, <1>4, <1>5, <1>6, <1>8, <1>9 DEF Inv

LEMMA WritingSteps ==
  ASSUME Inv, UNCHANGED <<faults, ops>>, Archive \/ Reservation \/ Complete \/ Finalized
  PROVE  Inv'
<1>1. SUFFICES \E next : Records(next) /\ Writes(next)
  BY WritesKeep
<1>2. s.at \in {"archive", "reserved", "completed", "finalized"} =>
        /\ pub.at = "exited" /\ s.product \in Products /\ s.config \in Configs /\ s.op \in Ops
  BY DEF Inv, Publishes, SessionShape
<1>3. CASE Archive
  <2>1. ReceiptType' /\ archive \subseteq archive' /\ Archived(s.op)' /\ s.at = "archive" /\ s'.op = s.op
    <3>1. s'.op = s.op
      BY <1>3 DEF Archive, Goto, Inv, Types, SessionType
    <3>2. QED BY <1>2, <1>3, <3>1 DEF Archive, At, Inv, Types, ReceiptType, Archived, R
  <2>2. Records("complete")
    BY <1>2, <1>3, <2>1 DEF Archive, Records
  <2>3. receipt[s.op].state = "reserved"
    BY <1>3 DEF Archive, BackendValid, Loaded
  <2>4. QED BY <2>1, <2>2, <2>3, <1>3 DEF Archive, Writes, At, Archived
<1>4. ASSUME NEW r \in Receipts, Becomes(r), s.at \in {"reserved", "completed", "finalized"}, NEW next, Goto(next), UNCHANGED <<faults, ops>>
      PROVE  Records(next) /\ receipt'[s.op] = r /\ UNCHANGED archive
  BY <1>2, <1>4 DEF Becomes, Records, Inv, Types, ReceiptType
<1>5. CASE Reservation
  <2> DEFINE r == [state |-> "reserved", product |-> s.product, config |-> s.config, from |-> current,
           absent |-> record = None, digest |-> gate.digest, consumer |-> consumer,
           manifest |-> manifest[current]]
  <2>1. r \in Receipts
    BY <1>2, <1>5 DEF Reservation, At, Receipts, States, Inv, Types, DiskType, GateType
  <2>2. At("reserved") /\ Goto("target") /\ Becomes(r)
    BY <1>5 DEF Reservation
  <2>3. Records("target") /\ receipt'[s.op] = r /\ UNCHANGED archive
    BY <1>4, <2>1, <2>2 DEF At
  <2>4. QED BY <2>2, <2>3 DEF Writes
<1>6. ASSUME NEW state \in States, s.op \in Ops
      PROVE  [receipt[s.op] EXCEPT !.state = state] \in Receipts
  BY <1>6 DEF Inv, Types, ReceiptType, Receipts
<1>7. CASE Complete
  <2>1. At("completed") /\ Becomes([receipt[s.op] EXCEPT !.state = "backend-complete"]) /\ Goto("unlink")
    BY <1>7 DEF Complete, R
  <2>2. [receipt[s.op] EXCEPT !.state = "backend-complete"] \in Receipts
    BY <2>1, <1>2, <1>6 DEF At, States
  <2>3. QED BY <1>4, <2>1, <2>2 DEF Writes, At
<1>8. CASE Finalized
  <2> DEFINE next == IF s.kind = "bounded" THEN "releaseC" ELSE "resume"
  <2>1. At("finalized") /\ Becomes([receipt[s.op] EXCEPT !.state = "complete"]) /\ Goto(next)
    BY <1>8 DEF Finalized, R
  <2>2. [receipt[s.op] EXCEPT !.state = "complete"] \in Receipts
    BY <2>1, <1>2, <1>6 DEF At, States
  <2>3. QED BY <1>4, <2>1, <2>2 DEF Writes, At
<1>9. QED BY <1>3, <1>5, <1>7, <1>8
LEMMA CaptureKeeps == ASSUME Inv, Capture, UNCHANGED <<retained, faults, ops>> PROVE Inv'
<1>1. /\ s' = [kind |-> s.kind, at |-> "quiesce", op |-> s.op, product |-> s.product, config |-> s.config,
               base |-> s.base, captured |-> TRUE]
      /\ s.at = "capture" /\ gate.phase = "open" /\ s.kind = "install"
      /\ UNCHANGED <<publication, installation, retained, faults, ops>>
  BY DEF Capture, Inv, Types, SessionType, Routes, At
<1>2. Types'
  BY <1>1 DEF Inv, Types, SessionType, Places, Steps, Prepare, GateType, LiveType, PubType, LeaseType,
     DiskType,
     ReceiptType, CountType, publication, installation, retained
<1>3. SessionShape' /\ Routes' /\ GateKept' /\ Drained' /\ LiveAreBound' /\ PendingIsProven'
  BY <1>1 DEF Inv, SessionShape, Routes, Kinds, GateKept, Drained, LiveAreBound, PendingIsProven,
     Readable, Owned, Steps,
     Prepare, Cutover, Finish, Retained, publication
<1>4. Publishes' /\ Captured' /\ OpenIsComplete'
  BY <1>1 DEF Inv, Publishes, Readable, Captured, Whole, Serving, OpenIsComplete, publication, installation
<1>5. Reached' /\ ReceiptsKeep' /\ OriginalSurvives'
  BY <1>1 DEF Inv, Reached, Placed, FromPublished, FromServed, FromCleared, ReceiptsKeep, Original,
     Archived, OriginalSurvives,
     publication, installation, retained
<1>6. QED BY <1>2, <1>3, <1>4, <1>5 DEF Inv

LEMMA FinalKeeps == ASSUME Inv, Final, UNCHANGED <<retained, faults, ops>> PROVE Inv'
<1>1. /\ s' = [kind |-> s.kind, at |-> "begin", op |-> s.op, product |-> s.product, config |-> s.config,
               base |-> s.base, captured |-> FALSE]
      /\ s.at = "final" /\ s.kind \in {"install", "recover", "bounded"}
      /\ UNCHANGED <<publication, installation, retained, faults, ops>>
  BY DEF Final, Inv, Types, SessionType, Routes, At
<1>2. Types'
  BY <1>1 DEF Inv, Types, SessionType, Places, Steps, Cutover, GateType, LiveType, PubType, LeaseType,
     DiskType,
     ReceiptType, CountType, publication, installation, retained
<1>3. SessionShape' /\ Routes' /\ GateKept' /\ Drained' /\ LiveAreBound' /\ PendingIsProven'
  BY <1>1 DEF Inv, SessionShape, Routes, Kinds, GateKept, Drained, LiveAreBound, PendingIsProven,
     Readable, Owned, Steps,
     Prepare, Cutover, Finish, Retained, publication
<1>4. Publishes' /\ Captured' /\ OpenIsComplete'
  BY <1>1 DEF Inv, Publishes, Readable, Captured, Whole, Serving, OpenIsComplete, publication, installation
<1>5. Reached' /\ ReceiptsKeep' /\ OriginalSurvives'
  BY <1>1 DEF Inv, Reached, Placed, FromPublished, FromServed, FromCleared, ReceiptsKeep, Original,
     Archived, OriginalSurvives,
     publication, installation, retained
<1>6. QED BY <1>2, <1>3, <1>4, <1>5 DEF Inv

\* The gate opens over what the command installed: whole, as the drained one.
LEMMA ResumeKeeps == ASSUME Inv, Resume, UNCHANGED <<retained, faults, ops>> PROVE Inv'
<1>1. /\ gate' = [phase |-> "open", op |-> 0, target |-> None, digest |-> gate.digest]
      /\ s' = Idle /\ lease' = NoLease /\ s.at = "resume" /\ Readable
      /\ UNCHANGED <<consumer, backup, live, pub, installation, retained, faults, ops>>
  BY DEF Resume, Inv, Types, GateType, At, GateFrom
<1>2. s'.at = "idle" /\ s'.captured = FALSE /\ SessionType' /\ LeaseType' /\ GateType' /\ pub.at = "exited"
  BY <1>1, IdleSession, NoLeaseType, LimitsAssumption DEF SessionType, LeaseType, GateType, Phases, Inv,
     Types, Publishes
<1>3. Whole
  BY <1>1 DEF Inv, Reached, Placed, FromPublished, FromServed, FromCleared, Whole
<1>4. SessionShape' /\ Routes' /\ GateKept' /\ Drained' /\ LiveAreBound' /\ PendingIsProven'
  BY <1>1, <1>2 DEF Inv, SessionShape, Routes, GateKept, Drained, LiveAreBound, PendingIsProven, Readable,
     Owned, Steps,
     Prepare, Cutover, Finish, Retained
<1>5. Publishes' /\ Captured' /\ OpenIsComplete'
  BY <1>1, <1>2, <1>3 DEF Publishes, Readable, Running, Captured, Whole, Serving, OpenIsComplete,
     installation
<1>6. Reached' /\ ReceiptsKeep' /\ OriginalSurvives'
  BY <1>1, <1>2 DEF Inv, Reached, Placed, FromPublished, FromServed, FromCleared, ReceiptsKeep, Original,
     Archived,
     OriginalSurvives, Ops, installation, retained
<1>7. Types'
  BY <1>1, <1>2 DEF Inv, Types, LiveType, PubType, DiskType, ReceiptType, CountType, installation, retained
<1>8. QED BY <1>4, <1>5, <1>6, <1>7 DEF Inv

\* Attempts come and go beside the command.
LEMMA AttemptsKeep == ASSUME Inv, Attempts PROVE Inv'
<1>1. UNCHANGED <<consumer, backup, gate, lease, pub, faults, installation, s, ops, retained>>
  BY DEF Attempts, AdmitAuto, AdmitManual, EndAuto, DisposeManual
<1>2. LiveType' /\ LiveAreBound' /\ (live'.auto # live.auto /\ live'.auto # None => gate.phase = "open")
  BY PublicationAssumption DEF Attempts, AdmitAuto, AdmitManual, EndAuto, DisposeManual, LiveType,
     LiveAreBound, Readable,
     Inv, Types, GateType
<1>3. Drained'
  BY <1>1, <1>2 DEF Inv, Drained, GateKept, Publishes
<1>4. Types'
  BY <1>1, <1>2 DEF Inv, Types, SessionType, GateType, PubType, LeaseType, DiskType, ReceiptType, CountType,
     installation, retained
<1>5. QED
  BY <1>1, <1>2, <1>3, <1>4 DEF Inv, SessionShape, Routes, GateKept, PendingIsProven, Publishes, Reached,
     Captured,
     OpenIsComplete, ReceiptsKeep, OriginalSurvives, Readable, Whole, Serving, Original, Archived,
     installation, retained
-----------------------------------------------------------------------------
(* The publisher                                                           *)

\* It runs only beside a command that waits for it, or beside none.
Alone == UNCHANGED <<installation, s, ops, retained>>
Ends == Results \cup {"exited"}

LEMMA ExitedType == Exited \in Pubs /\ Exited.at = "exited" /\ Exited = [Exited EXCEPT !.at = "exited"]
<1>1. Exited \in Pubs /\ Exited.at = "exited"
  BY LimitsAssumption DEF Exited, Pubs
<1>2. Exited = [Exited EXCEPT !.at = "exited"]
  BY <1>1 DEF Pubs
<1>3. QED BY <1>1, <1>2

LEMMA ReturnType ==
  ASSUME NEW result \in Ends, pub' = [Exited EXCEPT !.at = result]
  PROVE  PubType' /\ pub'.at = result
<1>1. pub' \in Pubs /\ pub'.at = result
  BY ExitedType DEF Pubs, Ends
<1>2. QED BY <1>1 DEF Pubs, PubType

\* It ends, or was reaped: nothing else has changed, or only the gate's digest
\* to the consumer's.
LEMMA ReturnKeeps ==
  ASSUME Inv, Alone, NEW result \in Ends, pub' = [Exited EXCEPT !.at = result], faults' \in 0..MaxFaults,
         pub.at # "exited", UNCHANGED <<consumer, backup, gate, live, lease>>,
         s.at = "publishing" => /\ result # "exited"
                                /\ result # "failed" => Readable /\ gate.digest = Digest[s.config]
  PROVE  Inv'
<1>1. PubType' /\ pub'.at = result /\ result \notin Running
  BY ReturnType DEF Ends, Results, Running
<1>2. Types'
  BY <1>1 DEF Inv, Types, SessionType, GateType, LiveType, LeaseType, DiskType, ReceiptType, CountType,
     Alone,
     installation, retained
<1>3. Publishes'
  BY <1>1 DEF Inv, Publishes, Alone, Readable, Ends, Results
<1>4. Drained'
  BY <1>1 DEF Inv, Drained, Alone, Ends, Results
<1>5. QED
  BY <1>2, <1>3, <1>4 DEF Inv, SessionShape, Routes, GateKept, LiveAreBound, PendingIsProven, Reached,
     Captured,
     OpenIsComplete, ReceiptsKeep, OriginalSurvives, Readable, Whole, Serving, Original, Archived,
     installation, retained, Alone

\* It goes on: what it writes keeps the consumer, the gate and its backup.
LEMMA GoesOn ==
  ASSUME Inv, Alone, UNCHANGED <<live, lease, gate, faults>>, PubType',
         pub'.at \in Running, pub.at \in Running,
         pub'.op = pub.op /\ pub'.desired = pub.desired /\ pub'.old = pub.old,
         DiskType', PendingIsProven', LiveAreBound', Publishes', Drained'
  PROVE  Inv'
<1>1. Types'
  BY DEF Inv, Types, SessionType, GateType, LiveType, LeaseType, ReceiptType, CountType, Alone, retained
<1>2. gate.phase # "open" /\ ~s.captured /\ s.at \in {"publishing", "publishingA", "idle", "stopped"}
  BY DEF Inv, Publishes, Running
<1>3. SessionShape' /\ Routes' /\ GateKept' /\ Captured' /\ OpenIsComplete'
  BY <1>2 DEF Inv, SessionShape, Routes, GateKept, Captured, OpenIsComplete, Alone
<1>4. Reached'
  BY <1>2 DEF Inv, Reached, Placed, FromPublished, FromServed, FromCleared, Alone, installation
<1>5. ReceiptsKeep' /\ OriginalSurvives'
  BY DEF Inv, ReceiptsKeep, OriginalSurvives, Original, Archived, installation, retained, Alone
<1>6. QED
  BY <1>1, <1>3, <1>4, <1>5 DEF Inv

\* The assessment: bytes that are not those of its operation, or a lease that
\* proved others, end it; with the desired bytes in place the pair is whole.
LEMMA AssessKeeps == ASSUME Inv, Alone, Unsafe \/ Unchanged \/ Change PROVE Inv'
<1>1. /\ pub.at = "assess" /\ UNCHANGED <<consumer, backup, gate, live, lease, faults>> /\ faults' \in 0..MaxFaults
      /\ pub.at # "exited" /\ pub.at \in Running
  BY DEF Unsafe, Unchanged, Change, Assessed, Inv, Types, CountType, Running
<1>2. /\ pub.op \in Ops /\ gate.op = pub.op /\ gate.phase # "open" /\ pub.desired \in Configs /\ pub.old \in Configs
      /\ consumer = pub.old /\ (s.at = "publishing" => pub.desired = s.config)
  BY <1>1 DEF Inv, Publishes
<1>3. CASE Unsafe
  <2>1. pub' = [Exited EXCEPT !.at = "failed"]
    BY <1>3 DEF Unsafe, Return
  <2>2. QED BY <1>1, <2>1, ReturnKeeps DEF Ends, Results
<1>4. CASE Unchanged
  <2>1. pub' = [Exited EXCEPT !.at = "unchanged"] /\ Same(pub)
    BY <1>4 DEF Unchanged, Return, Assessed
  <2>2. Readable /\ gate.digest = Digest[pub.desired]
    BY <1>2, <2>1 DEF Same, Pending, Moved, Inv, PendingIsProven, Readable
  <2>3. QED BY <1>1, <1>2, <2>1, <2>2, ReturnKeeps DEF Ends, Results
<1>5. CASE Change
  <2>1. Change /\ ~Same(pub) /\ Known(pub)
    BY <1>5 DEF Change, Assessed
  <2>2. /\ PubType' /\ pub'.op = pub.op /\ pub'.desired = pub.desired /\ pub'.old = pub.old
        /\ pub'.at \in {"transition", "check"}
    <3>1. CASE Retry(pub)
      <4>1. pub' = [pub EXCEPT !.at = "transition", !.prev = Digest[backup[pub.op]]]
        BY <2>1, <3>1 DEF Change
      <4>2. Digest[backup[pub.op]] \in Digests
        BY <1>2, <3>1 DEF Retry, Digests, Inv, Types, DiskType
      <4>3. QED BY <4>1, <4>2 DEF Inv, Types, PubType, Pubs, Running
    <3>2. CASE ~Retry(pub)
      <4>1. pub' = [pub EXCEPT !.at = "check"]
        BY <2>1, <3>2 DEF Change, Step
      <4>2. QED BY <4>1 DEF Inv, Types, PubType, Pubs, Running
    <3>3. QED BY <3>1, <3>2
  <2>3. DiskType' /\ PendingIsProven' /\ LiveAreBound'
    BY <1>1 DEF Inv, Types, DiskType, PendingIsProven, LiveAreBound, Readable, Alone, installation
  <2>4. Publishes' /\ Drained'
    BY <1>1, <1>2, <2>2 DEF Inv, Publishes, Drained, Alone, Readable, Running
  <2>5. QED BY <1>1, <2>2, <2>3, <2>4, GoesOn DEF Running
<1>6. QED BY <1>3, <1>4, <1>5

LEMMA CheckKeeps == ASSUME Inv, Alone, Check PROVE Inv'
<1>1. /\ pub.at = "check" /\ UNCHANGED <<consumer, backup, gate, live, lease, faults>> /\ faults' \in 0..MaxFaults
      /\ pub.at # "exited" /\ pub.at \in Running
  BY DEF Check, Inv, Types, CountType, Running
<1>2. /\ pub.op \in Ops /\ gate.op = pub.op /\ gate.phase # "open" /\ pub.desired \in Configs /\ pub.old \in Configs
      /\ consumer = pub.old /\ (s.at = "publishing" => pub.desired = s.config)
  BY <1>1 DEF Inv, Publishes
<1>3. CASE ~Transitionable(pub)
  <2>1. pub' = [Exited EXCEPT !.at = "failed"]
    BY <1>3 DEF Check, Return
  <2>2. QED BY <1>1, <2>1, ReturnKeeps DEF Ends, Results
<1>4. CASE Transitionable(pub)
  <2>1. pub' = [pub EXCEPT !.at = IF backup[pub.op] = None THEN "backup" ELSE "rename", !.prev = gate.digest]
    BY <1>4 DEF Check
  <2>2. /\ PubType' /\ pub'.op = pub.op /\ pub'.desired = pub.desired /\ pub'.old = pub.old
        /\ pub'.at = IF backup[pub.op] = None THEN "backup" ELSE "rename"
    <3> DEFINE at == IF backup[pub.op] = None THEN "backup" ELSE "rename"
    <3>1. pub' = [at |-> at, leased |-> pub.leased, op |-> pub.op, target |-> pub.target, desired |-> pub.desired,
                  old |-> pub.old, prev |-> gate.digest, base |-> pub.base]
      BY <2>1 DEF Inv, Types, PubType, Pubs
    <3>2. at \in Running /\ gate.digest \in Digests /\ pub \in Pubs
      BY DEF Running, Inv, Types, GateType, PubType
    <3> HIDE DEF at
    <3>3. PubType' /\ pub'.op = pub.op /\ pub'.desired = pub.desired /\ pub'.old = pub.old /\ pub'.at = at
      BY <3>1, <3>2 DEF PubType, Pubs
    <3>4. QED BY <3>3 DEF at
  <2>3. DiskType' /\ PendingIsProven' /\ LiveAreBound'
    BY <1>1 DEF Inv, Types, DiskType, PendingIsProven, LiveAreBound, Readable, Alone, installation
  <2>4. Readable /\ live.auto = None /\ backup[pub.op] \in {None, pub.old}
    BY <1>4 DEF Transitionable, QuietAll
  <2>5. Publishes' /\ Drained'
    BY <1>1, <1>2, <2>2, <2>4 DEF Inv, Publishes, Drained, Alone, Readable, Running
  <2>6. QED BY <1>1, <2>2, <2>3, <2>5, GoesOn DEF Running
<1>5. QED BY <1>3, <1>4

LEMMA BackUpKeeps == ASSUME Inv, Alone, BackUp PROVE Inv'
<1>1. /\ pub.at = "backup" /\ UNCHANGED <<consumer, gate, live, lease, faults>> /\ pub.at \in Running
      /\ backup' = [backup EXCEPT ![pub.op] = pub.old] /\ pub' = [pub EXCEPT !.at = "rename"]
  BY DEF BackUp, Step, Running
<1>2. /\ pub.op \in Ops /\ gate.op = pub.op /\ gate.phase # "open" /\ pub.desired \in Configs /\ pub.old \in Configs
      /\ consumer = pub.old /\ Readable /\ live.auto = None /\ (s.at = "publishing" => pub.desired = s.config)
  BY <1>1 DEF Inv, Publishes, Drained
<1>3. PubType' /\ pub'.op = pub.op /\ pub'.desired = pub.desired /\ pub'.old = pub.old /\ pub'.at = "rename"
  BY <1>1 DEF Inv, Types, PubType, Pubs, Running
<1>4. DiskType' /\ backup'[pub.op] = pub.old
  BY <1>1, <1>2 DEF Inv, Types, DiskType, Alone, installation
<1>5. PendingIsProven' /\ LiveAreBound'
  BY <1>1, <1>2 DEF Inv, PendingIsProven, LiveAreBound, Readable
<1>6. Publishes' /\ Drained'
  BY <1>1, <1>2, <1>3, <1>4 DEF Inv, Publishes, Drained, Alone, Readable, Running
<1>7. QED BY <1>1, <1>3, <1>4, <1>5, <1>6, GoesOn DEF Running

\* The rename: what the gate still names is in the backup of its operation,
\* and nobody works under it.
LEMMA RenameKeeps == ASSUME Inv, Alone, Rename PROVE Inv'
<1>1. pub.at = "rename" /\ UNCHANGED <<backup, gate, live, lease, faults>> /\ pub.at \in Running
  BY DEF Rename, Running
<1>2. /\ pub.op \in Ops /\ gate.op = pub.op /\ gate.phase # "open" /\ pub.desired \in Configs /\ pub.old \in Configs
      /\ consumer = pub.old /\ Readable /\ live.auto = None /\ (s.at = "publishing" => pub.desired = s.config)
      /\ backup[pub.op] = pub.old
  BY <1>1 DEF Inv, Publishes, Drained
<1>3. consumer' = pub.desired /\ pub' = [pub EXCEPT !.at = "transition"]
  BY <1>2 DEF Rename, Step
<1>4. PubType' /\ pub'.op = pub.op /\ pub'.desired = pub.desired /\ pub'.old = pub.old /\ pub'.at = "transition"
  BY <1>3 DEF Inv, Types, PubType, Pubs, Running
<1>5. DiskType'
  BY <1>1, <1>2, <1>3 DEF Inv, Types, DiskType, Alone, installation
<1>6. PendingIsProven' /\ LiveAreBound'
  BY <1>1, <1>2, <1>3, PublicationAssumption DEF Inv, PendingIsProven, LiveAreBound, Readable
<1>7. Publishes' /\ Drained'
  BY <1>1, <1>2, <1>3, <1>4 DEF Inv, Publishes, Drained, Alone, Readable, Running
<1>8. QED BY <1>1, <1>4, <1>5, <1>6, <1>7, GoesOn DEF Running

LEMMA TransitionKeeps == ASSUME Inv, Alone, Transition PROVE Inv'
<1>1. /\ pub.at = "transition" /\ UNCHANGED <<consumer, backup, live, lease, faults>> /\ faults' \in 0..MaxFaults
      /\ pub.at # "exited" /\ pub.at \in Running
  BY DEF Transition, Inv, Types, CountType, Running
<1>2. /\ pub.op \in Ops /\ gate.op = pub.op /\ gate.phase # "open" /\ pub.desired \in Configs
      /\ s.at \in {"publishing", "publishingA", "idle", "stopped"} /\ ~s.captured
      /\ (s.at = "publishing" => pub.desired = s.config)
  BY <1>1 DEF Inv, Publishes
<1>3. CASE ~Movable(pub)
  <2>1. pub' = [Exited EXCEPT !.at = "failed"] /\ gate' = gate
    BY <1>3 DEF Transition, Return
  <2>2. QED BY <1>1, <2>1, ReturnKeeps DEF Ends, Results
<1>4. CASE Movable(pub)
  <2> DEFINE result == IF Digest[consumer] = Digest[pub.desired] THEN "published" ELSE "failed"
  <2>1. pub' = [Exited EXCEPT !.at = result] /\ gate' = [gate EXCEPT !.digest = Digest[consumer]]
    BY <1>4 DEF Transition, Return
  <2>2. live.auto = None /\ live.manual = None
    BY <1>4 DEF Movable, QuietAll
  <2>3. PubType' /\ pub'.at = result
    BY <2>1, ReturnType DEF Ends, Results
  <2>4. /\ GateType' /\ gate'.digest = Digest[consumer] /\ gate'.phase = gate.phase /\ gate'.op = gate.op
        /\ gate'.target = gate.target
    <3>1. Digest[consumer] \in Digests
      BY DEF Digests, Inv, Types, DiskType
    <3>2. QED BY <2>1, <3>1 DEF Inv, Types, GateType
  <2>5. Types'
    BY <1>1, <2>3, <2>4 DEF Inv, Types, SessionType, LiveType, LeaseType, DiskType, ReceiptType,
       CountType, Alone,
       installation, retained
  <2>6. SessionShape' /\ Routes' /\ GateKept' /\ Captured' /\ OpenIsComplete'
    BY <1>2, <2>4 DEF Inv, SessionShape, Routes, GateKept, Captured, OpenIsComplete, Alone
  <2>7. LiveAreBound' /\ PendingIsProven' /\ Drained'
    BY <1>1, <2>2, <2>3, <2>4 DEF LiveAreBound, PendingIsProven, Readable, Drained, Inv
  <2>8. Publishes'
    BY <1>1, <1>2, <2>3, <2>4 DEF Publishes, Readable, Running, Alone
  <2>9. Reached'
    BY <1>2 DEF Inv, Reached, Placed, FromPublished, FromServed, FromCleared, Alone, installation
  <2>10. ReceiptsKeep' /\ OriginalSurvives'
    BY <2>4 DEF Inv, ReceiptsKeep, OriginalSurvives, Original, Archived, installation, retained, Alone
  <2>11. QED BY <2>5, <2>6, <2>7, <2>8, <2>9, <2>10 DEF Inv
<1>5. QED BY <1>3, <1>4

LEMMA PublisherKeeps == ASSUME Inv, Publisher PROVE Inv'
<1>1. Alone
  BY DEF Publisher, Alone
<1>2. CASE PublisherDies
  <2>1. /\ pub' = [Exited EXCEPT !.at = "failed"] /\ UNCHANGED <<consumer, backup, gate, live, lease>>
        /\ pub.at # "exited" /\ faults' \in 0..MaxFaults
    BY <1>2, LimitsAssumption DEF PublisherDies, Return, Fault, Running, Inv, Types, CountType
  <2>2. QED BY <1>1, <2>1, ReturnKeeps DEF Ends, Results
<1>3. QED
  BY <1>1, <1>2, AssessKeeps, CheckKeeps, BackUpKeeps, RenameKeeps, TransitionKeeps DEF Publisher, Publish

LEMMA ReapKeeps == ASSUME Inv, Reap PROVE Inv'
<1>1. /\ pub' = [Exited EXCEPT !.at = "exited"] /\ UNCHANGED <<consumer, backup, gate, live, lease, faults>> /\ Alone
      /\ pub.at # "exited" /\ s.at # "publishing"
  BY ExitedType DEF Reap, Alone, Results
<1>2. faults' \in 0..MaxFaults
  BY <1>1 DEF Inv, Types, CountType
<1>3. QED BY <1>1, <1>2, ReturnKeeps DEF Ends
\* The command starts the publisher, and reads what it returned.
LEMMA StartPublisherType ==
  ASSUME Inv, NEW o \in Ops, NEW t \in Products, NEW desired \in Configs, NEW leased \in BOOLEAN,
         StartPublisher(o, t, desired, leased)
  PROVE  PubType' /\ pub'.at = "assess" /\ pub'.op = o /\ pub'.desired = desired /\ pub'.old = consumer /\ pub.at = "exited"
<1>1. pub' = [at |-> "assess", leased |-> leased, op |-> o, target |-> t, desired |-> desired,
             old |-> consumer, prev |-> None, base |-> IF leased THEN lease.digest ELSE None]
      /\ pub.at = "exited"
  BY DEF StartPublisher
<1>2. o \in 0..MaxOps /\ consumer \in Configs /\ lease.digest \in Digests \cup {None}
  BY LimitsAssumption DEF Ops, Inv, Types, DiskType, LeaseType
<1>3. QED BY <1>1, <1>2 DEF PubType, Pubs, Running

LEMMA StartingKeeps ==
  ASSUME Inv, NEW next, Goto(next), DiskType', PubType', pub'.at = "assess", pub'.op = s.op, pub'.old = consumer, pub.at = "exited",
         UNCHANGED <<consumer, backup, gate, live, lease, manifest, current, record, runtime, retained, faults, ops>>,
         \/ At("publish") /\ next = "publishing" /\ pub'.desired = s.config
         \/ At("publishA") /\ next = "publishingA" /\ pub'.desired \in Configs
  PROVE  Inv'
<1>1. /\ SessionType' /\ s'.at = next /\ s'.kind = s.kind /\ s'.op = s.op /\ s'.product = s.product
      /\ s'.config = s.config /\ s'.captured = s.captured
  <2>1. next \in Places
    BY DEF Places, Steps, Cutover, Retained
  <2>2. QED BY <2>1, Moves DEF Inv, Types
<1>2. s.op \in Ops /\ s.config \in Configs /\ gate.phase # "open" /\ gate.op = s.op /\ s.captured = FALSE /\ s.kind \in Kinds
  BY DEF Inv, SessionShape, Routes, GateKept, Owned, Steps, Cutover, Retained, At, Types, SessionType
<1>3. SessionShape' /\ Routes' /\ GateKept' /\ Drained' /\ LiveAreBound' /\ PendingIsProven'
  BY <1>1, <1>2 DEF Inv, SessionShape, Routes, Kinds, GateKept, Drained, LiveAreBound, PendingIsProven,
     Readable, Owned, Steps,
     Prepare, Cutover, Finish, Retained, At
<1>4. Publishes' /\ Captured' /\ OpenIsComplete'
  BY <1>1, <1>2 DEF Inv, Publishes, Readable, Captured, OpenIsComplete, At, Running, Types, DiskType
<1>5. Reached'
  BY <1>1 DEF Inv, Reached, Placed, FromPublished, FromServed, FromCleared, At
<1>6. ReceiptsKeep' /\ OriginalSurvives'
  BY <1>1, <1>2 DEF Inv, ReceiptsKeep, Original, Archived, OriginalSurvives, At, retained
<1>7. Types'
  BY <1>1 DEF Inv, Types, GateType, LiveType, LeaseType, ReceiptType, CountType, retained
<1>8. QED BY <1>3, <1>4, <1>5, <1>6, <1>7 DEF Inv

LEMMA ReturnedKeeps ==
  ASSUME Inv, NEW next, Goto(next), DiskType', pub' = Exited, pub.at \in {"unchanged", "published"},
         UNCHANGED <<consumer, backup, gate, live, lease, manifest, current, record, runtime, retained, faults, ops>>,
         \/ At("publishing") /\ next = "activate"
         \/ At("publishingA") /\ next = "releaseB"
  PROVE  Inv'
<1>1. /\ SessionType' /\ s'.at = next /\ s'.kind = s.kind /\ s'.op = s.op /\ s'.product = s.product
      /\ s'.config = s.config /\ s'.captured = s.captured
  <2>1. next \in Places
    BY DEF Places, Steps, Cutover, Retained
  <2>2. QED BY <2>1, Moves DEF Inv, Types
<1>2. PubType' /\ pub'.at = "exited"
  BY ExitedType DEF PubType
<1>3. /\ gate.phase # "open" /\ gate.op = s.op /\ s.captured = FALSE
      /\ At("publishing") => Readable /\ gate.digest = Digest[s.config]
  BY DEF Inv, SessionShape, GateKept, Owned, Steps, Cutover, Retained, At, Types, SessionType, Publishes
<1>4. SessionShape' /\ Routes' /\ GateKept' /\ Drained' /\ LiveAreBound' /\ PendingIsProven'
  BY <1>1, <1>2, <1>3 DEF Inv, SessionShape, Routes, Kinds, GateKept, Drained, LiveAreBound,
     PendingIsProven, Readable, Owned,
     Steps, Prepare, Cutover, Finish, Retained, At
<1>5. Publishes' /\ Captured' /\ OpenIsComplete'
  BY <1>1, <1>2, <1>3 DEF Inv, Publishes, Readable, Captured, OpenIsComplete, At, Running
<1>6. Reached'
  BY <1>1, <1>3 DEF Inv, Reached, Placed, FromPublished, FromServed, FromCleared, At, Readable
<1>7. ReceiptsKeep' /\ OriginalSurvives'
  BY <1>1 DEF Inv, ReceiptsKeep, Original, Archived, OriginalSurvives, At, retained
<1>8. Types'
  BY <1>1, <1>2 DEF Inv, Types, GateType, LiveType, LeaseType, ReceiptType, CountType, retained
<1>9. QED BY <1>4, <1>5, <1>6, <1>7, <1>8 DEF Inv

LEMMA PublishingSteps ==
  ASSUME Inv, UNCHANGED <<faults, ops>>,
         \/ (PublishConsumer \/ Published) /\ UNCHANGED retained
         \/ PublishA \/ PublishedA
  PROVE  Inv'
<1>1. s.at \in {"publish", "publishing", "publishA", "publishingA"} =>
        /\ s.op \in Ops /\ s.product \in Products /\ s.config \in Configs
        /\ s.at = "publishA" => staged[s.op] \in Configs
  BY DEF Inv, SessionShape, ReceiptsKeep, Routes
<1>2. CASE PublishConsumer /\ UNCHANGED retained
  <2>1. At("publish") /\ Goto("publishing") /\ StartPublisher(s.op, s.product, s.config, s.kind # "consumer")
    BY <1>2 DEF PublishConsumer
  <2>2. (s.kind # "consumer") \in BOOLEAN
    OBVIOUS
  <2>3. DiskType'
    BY <1>1, <1>2 DEF PublishConsumer, At, Inv, Types, DiskType
  <2>4. QED BY <1>1, <1>2, <2>1, <2>2, <2>3, StartPublisherType, StartingKeeps DEF PublishConsumer, At
<1>3. CASE PublishA
  <2>1. At("publishA") /\ Goto("publishingA") /\ StartPublisher(s.op, s.product, staged[s.op], TRUE)
        /\ UNCHANGED <<consumer, backup, gate, live, lease, installation, retained>>
    BY <1>3 DEF PublishA
  <2>2. DiskType'
    BY <2>1 DEF installation, Inv, Types, DiskType
  <2>3. PubType' /\ pub'.at = "assess" /\ pub'.op = s.op /\ pub'.desired \in Configs /\ pub'.old = consumer /\ pub.at = "exited"
    BY <1>1, <2>1, StartPublisherType DEF At
  <2>4. QED BY <2>1, <2>2, <2>3, StartingKeeps DEF installation
<1>4. CASE Published /\ UNCHANGED retained
  <2>1. DiskType'
    BY <1>1, <1>4 DEF Published, At, Inv, Types, DiskType, None
  <2>2. QED BY <1>4, <2>1, ReturnedKeeps DEF Published, Returned
<1>5. CASE PublishedA
  <2>1. DiskType'
    BY <1>5 DEF PublishedA, installation, Inv, Types, DiskType
  <2>2. QED BY <1>5, <2>1, ReturnedKeeps DEF PublishedA, Returned, installation
<1>6. QED BY <1>2, <1>3, <1>4, <1>5

-----------------------------------------------------------------------------
(* The invariant and the theorems                                          *)

LEMMA InitInv == Init => Inv
<1> SUFFICES ASSUME Init PROVE Inv
  OBVIOUS
<1>1. /\ s = Idle /\ gate = [phase |-> "open", op |-> 0, target |-> None, digest |-> Digest[consumer]]
      /\ consumer = FirstConfig /\ current = FirstProduct /\ pub = Exited /\ ops = 0 /\ record = None
      /\ live = [auto |-> None, manual |-> None] /\ receipt = [o \in Ops |-> NoReceipt]
      /\ runtime = [product |-> current, config |-> consumer] /\ manifest[current] = consumer
  BY ProductAssumption DEF Init, InstallInit, PublicationInit, Pair
<1>2. consumer \in Configs /\ Digest[consumer] \in Digests /\ 0 \in 0..MaxOps /\ 0 \in 0..MaxFaults
  BY <1>1, PublicationAssumption, LimitsAssumption DEF Digests
<1>3. PubType
  BY <1>1, ExitedType DEF PubType
<1>4. NoReceipt \in Receipts
  BY DEF NoReceipt, Receipts, None
<1>5. SessionType /\ s.at = "idle" /\ s.captured = FALSE
  BY <1>1, IdleSession DEF SessionType
<1>6. Types
  BY <1>1, <1>2, <1>3, <1>4, <1>5, NoLeaseType, ProductAssumption, PublicationAssumption DEF Types,
     GateType, LiveType,
     LeaseType, DiskType, ReceiptType, CountType, Phases, Init, InstallInit, PublicationInit
<1>7. SessionShape /\ Routes /\ GateKept /\ LiveAreBound /\ PendingIsProven /\ Reached /\ Captured
  BY <1>1, <1>5 DEF SessionShape, Routes, GateKept, LiveAreBound, PendingIsProven, Readable, Reached,
     Placed, FromPublished,
     FromServed, FromCleared, Captured, Owned, Steps, Prepare, Cutover, Finish, Retained
<1>8. Drained /\ Publishes
  BY <1>1, <1>5 DEF Drained, Publishes, Exited, Running
<1>9. OpenIsComplete
  BY <1>1 DEF OpenIsComplete, Readable
<1>10. ReceiptsKeep /\ OriginalSurvives
  BY <1>1, <1>5 DEF ReceiptsKeep, OriginalSurvives, NoReceipt, None
<1>11. QED BY <1>6, <1>7, <1>8, <1>9, <1>10 DEF Inv

LEMMA NextInv == Inv /\ [Next]_vars => Inv'
<1> SUFFICES ASSUME Inv, [Next]_vars PROVE Inv'
  OBVIOUS
<1>1. CASE Owner
  BY <1>1, OwnerKeeps
<1>2. CASE CommandStep
  <2>1. CASE InstallStep /\ UNCHANGED retained
    BY <1>2, <2>1, CaptureKeeps, FinalKeeps, ResumeKeeps, WalkingSteps, TurningSteps, ChangingSteps,
       PublishingSteps
       DEF CommandStep, InstallStep
  <2>2. CASE RetainedStep
    BY <1>2, <2>2, WalkingSteps, TurningSteps, ChangingSteps, PublishingSteps,
       WritingSteps DEF CommandStep, RetainedStep
  <2>3. QED BY <1>2, <2>1, <2>2 DEF CommandStep
<1>3. CASE Publisher
  BY <1>3, PublisherKeeps
<1>4. CASE Attempts
  BY <1>4, AttemptsKeep
<1>5. CASE Stops \/ Fails
  BY <1>5, StopKeeps
<1>6. CASE Leave
  BY <1>6, LeaveKeeps
<1>7. CASE Dies
  BY <1>7, DiesKeeps
<1>8. CASE HolderDies
  BY <1>8, HolderDiesKeeps
<1>9. CASE Reap
  BY <1>9, ReapKeeps
<1>10. CASE UNCHANGED vars
  <2>1. UNCHANGED <<consumer, backup, gate, live, lease, pub, faults, installation, s, ops, retained>>
    BY <1>10 DEF vars, publication
  <2>2. LeaseType' /\ faults' \in 0..MaxFaults
    BY <2>1 DEF Inv, Types, LeaseType, CountType
  <2>3. QED BY <2>1, <2>2, LeaseKeeps
<1>11. QED
  BY <1>1, <1>2, <1>3, <1>4, <1>5, <1>6, <1>7, <1>8, <1>9, <1>10 DEF Next, Faults

LEMMA Invariance == Spec => []Inv
BY InitInv, NextInv, PTL DEF Spec

\* Every protected file and process keeps its shape, whatever dies when
\* (install_preflight.py, bounded_recovery.py, publish_git_consumer.py).
THEOREM TypeCorrect == Spec => []TypeOK
<1>1. Inv => TypeOK
  BY TypesAreTypeOK DEF Inv
<1>2. QED BY Invariance, <1>1, PTL

\* Nobody works under a digest the gate does not name, for any configurations
\* and failures: the publisher's second inventory (publish_git_consumer.py:317)
\* and the closed gate keep attempts out from the check to the rename.
THEOREM LiveBound == Spec => []LiveAreBound
<1>1. Inv => LiveAreBound
  BY DEF Inv
<1>2. QED BY Invariance, <1>1, PTL

\* What an interrupted publication leaves can always be told from foreign
\* bytes: the gate names the backup of its own operation
\* (publish_git_consumer.py:259-276).
THEOREM PendingProven == Spec => []PendingIsProven
<1>1. Inv => PendingIsProven
  BY DEF Inv
<1>2. QED BY Invariance, <1>1, PTL

\* The gate is open only over a whole installation: no death, stop or failed
\* restore between the reservation and the resumption opens it over another
\* (install_preflight.py:619-652, resume of intent_install.py).
THEOREM OpenComplete == Spec => []OpenIsComplete
<1>1. Inv => OpenIsComplete
  BY DEF Inv
<1>2. QED BY Invariance, <1>1, PTL

\* The original record of a retained operation is in place or archived until
\* its target is finished, whatever recovery ran in between
\* (bounded_recovery.py:562-588).
THEOREM OriginalKept == Spec => []OriginalSurvives
<1>1. Inv => OriginalSurvives
  BY DEF Inv
<1>2. QED BY Invariance, <1>1, PTL
=============================================================================
