------------------------ MODULE PreparedInstallProofs ------------------------
(***************************************************************************)
(* Theorems about PreparedInstall, for all revisions, configurations and   *)
(* builds and any number of failures, edits and self-updates.              *)
(*                                                                         *)
(* The open gate needs an invariant about the whole command: what each     *)
(* step of the cutover has made so far (Progress), that nobody opens the   *)
(* gate beside it (Reserved), and that a command which may still abort has *)
(* changed nothing live (Captured).                                        *)
(***************************************************************************)
EXTENDS PreparedInstall, TLAPS

-----------------------------------------------------------------------------
(* The parts of the invariant                                              *)

Row(x) == x = [made |-> x.made, source |-> x.source, rust |-> x.rust, reviewer |-> x.reviewer,
               packages |-> x.packages, sealed |-> x.sealed, lease |-> x.lease]

StageShape == stage = [o \in Ops |-> stage[o]] /\ \A o \in Ops : Row(stage[o])
LiveShape  == /\ release = [t \in Targets |-> release[t]]
              /\ \A t \in Targets : release[t] = [source |-> release[t].source, reviewer |-> release[t].reviewer]
              /\ manifest = [t \in Targets |-> manifest[t]]
              /\ codex = [bytes |-> codex.bytes, linked |-> codex.linked]
              /\ current \in Targets
GateShape  == /\ gate = [phase |-> gate.phase, op |-> gate.op, target |-> gate.target, digest |-> gate.digest]
              /\ gate.phase # "open" => gate.op \in Ops /\ gate.target \in Targets
DriftShape == /\ drift = [at |-> drift.at, op |-> drift.op, target |-> drift.target,
                          desired |-> drift.desired, actual |-> drift.actual, raw |-> drift.raw, late |-> drift.late]
              /\ drift.at \in Locked => drift.op \in Ops /\ drift.target \in Targets
              /\ drift.at \in Locked => At("drifting")
KeptShape  == kept = [b \in Backups |-> kept[b]] /\ \A b \in Backups : kept[b] = [o \in Ops |-> kept[b][o]]
CommandShape ==
  /\ s = [kind |-> s.kind, at |-> s.at, op |-> s.op, target |-> s.target, config |-> s.config,
          captured |-> s.captured, holds |-> s.holds, copied |-> s.copied, late |-> s.late]
  /\ ~At("idle") => /\ s.op \in Ops /\ s.target \in Targets
                    /\ s.kind \in {"install", "recover", "bounded"}
  /\ ops \in 0..MaxOps

\* A lease is named in a stage that is there.
Holding == holder \in Ops \cup {0} /\ HolderIsNamed

\* A sealed stage has a Reviewer.
Sealing == \A o \in Ops : (stage[o].packages # {} \/ stage[o].sealed) => stage[o].reviewer # NoBuild

\* What a command that reached a step has on disk.
FromCopied   == {"toolchain", "tools", "manifest"}
FromManifest == {"switch"}
FromSwitch   == {"unpack", "unpacked", "unlink", "link", "publish", "look", "rename", "release", "verified", "resume"}
Linked       == {"publish", "look", "rename", "release", "verified", "resume"}
LiveReviewer(t) == stage[s.op].reviewer # NoBuild /\ release[t].reviewer = stage[s.op].reviewer
Progress ==
  /\ s.at \in Cutover \cup Closing => stage[s.op].reviewer # NoBuild
  /\ At("destination") => s.copied = {}
  /\ At("copy") => /\ "source" \in s.copied => release[s.target].source
                   /\ "reviewer" \in s.copied => LiveReviewer(s.target)
  /\ s.at \in FromCopied \cup FromManifest \cup FromSwitch =>
       release[s.target].source /\ LiveReviewer(s.target)
  /\ s.at \in FromManifest \cup FromSwitch => manifest[s.target] = stage[s.op].reviewer
  /\ s.at \in FromSwitch => current = s.target
  /\ s.at \in {"unlink", "link"} => codex.bytes = "whole"
  /\ s.at \in Linked => codex = Whole
  /\ At("rename") => s.late \/ kept["before"][s.op] = consumer

\* The gate stays closed beside a command that reserved it or found it closed.
Reserving == {"drain", "applying", "retarget", "reapply", "lock", "final"}
Reserved == /\ s.at \in Reserving \cup Cutover \cup Closing => gate.phase # "open"
            /\ s.kind \in {"recover", "bounded"} => gate.phase # "open"
            /\ At("idle") => s.kind = None

\* Only a command that has changed nothing live may reopen the old gate.
Captured == /\ s.captured \in BOOLEAN
            /\ s.captured => s.at \in Preparation \cup Reservation \cup {"stopped"}
            /\ s.at \in Preparation \cup Reservation => s.copied = {}

LiveWhole == /\ release[current].source /\ release[current].reviewer = manifest[current]
             /\ manifest[current] # NoBuild /\ codex = Whole
Opening == gate.phase = "open" \/ s.captured => LiveWhole

\* The helper replaces only what it has backed up, or what was edited since
\* it looked.
BackedUp == drift.at = "publish" => drift.late \/ kept["drift"][drift.op] = consumer

Shape == StageShape /\ LiveShape /\ GateShape /\ DriftShape /\ KeptShape /\ CommandShape
Inv == Shape /\ Holding /\ Sealing /\ Progress /\ Reserved /\ Captured /\ Opening /\ BackedUp

\* A row with one field changed is a row with the others as they were.
Edited(x, y, fields) ==
  /\ Row(y)
  /\ \A f \in {"made", "source", "rust", "reviewer", "packages", "sealed", "lease"} \ fields : y[f] = x[f]

LEMMA RowEdits ==
  ASSUME NEW x, Row(x), NEW v
  PROVE  /\ Edited(x, [x EXCEPT !.made = v], {"made"}) /\ [x EXCEPT !.made = v].made = v
         /\ Edited(x, [x EXCEPT !.source = v], {"source"})
         /\ Edited(x, [x EXCEPT !.rust = v], {"rust"})
         /\ Edited(x, [x EXCEPT !.reviewer = v], {"reviewer"}) /\ [x EXCEPT !.reviewer = v].reviewer = v
         /\ Edited(x, [x EXCEPT !.packages = v], {"packages"})
         /\ Edited(x, [x EXCEPT !.sealed = v], {"sealed"})
         /\ Edited(x, [x EXCEPT !.lease = v], {"lease"}) /\ [x EXCEPT !.lease = v].lease = v
<1>1. [x EXCEPT !.source = v] =
          [made |-> x.made, source |-> v, rust |-> x.rust, reviewer |-> x.reviewer,
           packages |-> x.packages, sealed |-> x.sealed, lease |-> x.lease]
  BY DEF Row
<1>2. [x EXCEPT !.rust = v] =
          [made |-> x.made, source |-> x.source, rust |-> v, reviewer |-> x.reviewer,
           packages |-> x.packages, sealed |-> x.sealed, lease |-> x.lease]
  BY DEF Row
<1>3. [x EXCEPT !.reviewer = v] =
          [made |-> x.made, source |-> x.source, rust |-> x.rust, reviewer |-> v,
           packages |-> x.packages, sealed |-> x.sealed, lease |-> x.lease]
  BY DEF Row
<1>4. [x EXCEPT !.packages = v] =
          [made |-> x.made, source |-> x.source, rust |-> x.rust, reviewer |-> x.reviewer,
           packages |-> v, sealed |-> x.sealed, lease |-> x.lease]
  BY DEF Row
<1>5. [x EXCEPT !.sealed = v] =
          [made |-> x.made, source |-> x.source, rust |-> x.rust, reviewer |-> x.reviewer,
           packages |-> x.packages, sealed |-> v, lease |-> x.lease]
  BY DEF Row
<1>6. [x EXCEPT !.lease = v] =
          [made |-> x.made, source |-> x.source, rust |-> x.rust, reviewer |-> x.reviewer,
           packages |-> x.packages, sealed |-> x.sealed, lease |-> v]
  BY DEF Row
<1>7. [x EXCEPT !.made = v] =
          [made |-> v, source |-> x.source, rust |-> x.rust, reviewer |-> x.reviewer,
           packages |-> x.packages, sealed |-> x.sealed, lease |-> x.lease]
  BY DEF Row
<1>8. QED BY <1>7, <1>1, <1>2, <1>3, <1>4, <1>5, <1>6 DEF Row, Edited

-----------------------------------------------------------------------------
(* What a step changes                                                     *)

Before == Preparation \cup Reservation

\* A command that moves on keeps the rest of its state.
LEMMA MoveFields ==
  ASSUME CommandShape, ~At("idle"), NEW next, next # "idle", Goto(next), UNCHANGED ops
  PROVE  /\ CommandShape' /\ s'.at = next /\ s'.op = s.op /\ s'.target = s.target /\ s'.kind = s.kind
         /\ s'.captured = s.captured /\ s'.holds = s.holds /\ s'.copied = s.copied /\ s'.late = s.late
<1>1. s' = [kind |-> s.kind, at |-> next, op |-> s.op, target |-> s.target, config |-> s.config,
            captured |-> s.captured, holds |-> s.holds, copied |-> s.copied, late |-> s.late]
  BY DEF CommandShape, Goto
<1>2. QED BY <1>1 DEF CommandShape, At

LEMMA ProgressNone == ASSUME s'.at \notin Cutover \cup Closing PROVE Progress'
  BY DEF Progress, At, Cutover, Closing, FromCopied, FromManifest, FromSwitch, Linked

LEMMA LiveSame == LiveShape /\ UNCHANGED live => LiveShape'
  BY DEF LiveShape, live

LEMMA StageSame == StageShape /\ Sealing /\ Holding /\ UNCHANGED <<stage, holder>> => StageShape' /\ Sealing' /\ Holding'
  BY DEF StageShape, Row, Sealing, Holding, HolderIsNamed

LEMMA KeptSame == KeptShape /\ BackedUp /\ UNCHANGED <<kept, consumer, drift>> => KeptShape' /\ BackedUp'
  BY DEF KeptShape, BackedUp

LEMMA GateSame == GateShape /\ UNCHANGED gate => GateShape'
  BY DEF GateShape

\* A helper works only while its command waits for it.
LEMMA DriftSame ==
  ASSUME DriftShape, ~At("drifting"), UNCHANGED drift PROVE DriftShape'
  BY DEF DriftShape

LEMMA BeforeIsEarly == /\ Before \cap (Cutover \cup Closing) = {} /\ "stopped" \notin Before
                       /\ "idle" \notin Before \cup Cutover \cup Closing
                       /\ "stopped" \notin Cutover \cup Closing
                       /\ Reserving \subseteq Before
  BY DEF Before, Preparation, Reservation, Cutover, Closing, Reserving

\* A step that moves only the command.
LEMMA MoveKeeps ==
  ASSUME Inv, ~At("idle"), ~At("drifting"), NEW next, next # "idle", Goto(next),
         UNCHANGED <<driftVars, holder, staged, ops>>,
         Progress',
         next \in Reserving \cup Cutover \cup Closing => gate.phase # "open",
         s.captured => next \in Before \cup {"stopped"},
         next \in Before => s.copied = {}
  PROVE  Inv'
<1>1. /\ CommandShape' /\ s'.at = next /\ s'.op = s.op /\ s'.target = s.target /\ s'.kind = s.kind
      /\ s'.captured = s.captured /\ s'.copied = s.copied
  BY MoveFields DEF Inv, Shape
<1>2. UNCHANGED <<stage, holder, live, kept, consumer, drift, gate>>
  BY DEF staged, driftVars
<1>3. Shape' /\ Holding' /\ Sealing' /\ BackedUp'
  BY <1>1, <1>2, LiveSame, StageSame, KeptSame, GateSame, DriftSame DEF Inv, Shape
<1>4. Reserved'
  BY <1>1, <1>2 DEF Inv, Reserved, At
<1>5. Captured'
  BY <1>1 DEF Inv, Captured, Before
<1>6. Opening'
  BY <1>1, <1>2 DEF Inv, Opening, LiveWhole, live
<1>7. QED BY <1>3, <1>4, <1>5, <1>6 DEF Inv

\* A step at the gate, which stays closed.
LEMMA GateKeeps ==
  ASSUME Inv, ~At("idle"), ~At("drifting"), NEW next, next # "idle", Goto(next),
         UNCHANGED <<consumer, kept, drift, holder, staged, ops>>,
         GateShape', gate'.phase # "open",
         Progress',
         s.captured => next \in Before \cup {"stopped"},
         next \in Before => s.copied = {}
  PROVE  Inv'
<1>1. /\ CommandShape' /\ s'.at = next /\ s'.op = s.op /\ s'.target = s.target /\ s'.kind = s.kind
      /\ s'.captured = s.captured /\ s'.copied = s.copied
  BY MoveFields DEF Inv, Shape
<1>2. UNCHANGED <<stage, holder, live, kept, consumer, drift>>
  BY DEF staged
<1>3. Shape' /\ Holding' /\ Sealing' /\ BackedUp'
  BY <1>1, <1>2, LiveSame, StageSame, KeptSame, DriftSame DEF Inv, Shape
<1>4. Reserved'
  BY <1>1 DEF Inv, Reserved, At
<1>5. Captured'
  BY <1>1 DEF Inv, Captured, Before
<1>6. Opening'
  BY <1>1, <1>2 DEF Inv, Opening, LiveWhole, live
<1>7. QED BY <1>3, <1>4, <1>5, <1>6 DEF Inv

\* A step that writes into the stage of its operation.
LEMMA PutKeeps ==
  ASSUME Inv, s.at \in Preparation, NEW row, Row(row), Put(s.op, row),
         row.packages # {} \/ row.sealed => row.reviewer # NoBuild,
         holder = s.op => row.made /\ row.lease # None,
         NEW next, next \in Preparation, Goto(next), UNCHANGED <<driftVars, holder, ops>>
  PROVE  Inv'
<1>1. ~At("idle") /\ ~At("drifting") /\ next # "idle"
  BY DEF At, Preparation
<1>2. /\ CommandShape' /\ s'.at = next /\ s'.op = s.op /\ s'.target = s.target /\ s'.kind = s.kind
      /\ s'.captured = s.captured /\ s'.copied = s.copied
  BY <1>1, MoveFields DEF Inv, Shape
<1>3. s.op \in Ops
  BY <1>1 DEF Inv, Shape, CommandShape
<1>4. UNCHANGED <<holder, live, kept, consumer, drift, gate>>
  BY DEF driftVars, Put
<1>5. /\ stage' = [o \in Ops |-> stage'[o]] /\ stage'[s.op] = row
      /\ \A o \in Ops : o # s.op => stage'[o] = stage[o]
  BY <1>3 DEF Inv, Shape, StageShape, Put
<1>6. StageShape'
  BY <1>5 DEF Inv, Shape, StageShape, Row
<1>7. Sealing'
  BY <1>5 DEF Inv, Sealing
<1>8. Holding'
  BY <1>4, <1>5 DEF Inv, Holding, HolderIsNamed, Ops
<1>9. Shape' /\ BackedUp'
  BY <1>1, <1>2, <1>4, <1>6, LiveSame, KeptSame, GateSame, DriftSame DEF Inv, Shape
<1>10. next \in Before /\ next \notin Cutover \cup Closing /\ next \notin Reserving
  BY DEF Before, Preparation, Cutover, Closing, Reserving
<1>11. Progress'
  BY <1>2, <1>10, ProgressNone
<1>12. Reserved'
  BY <1>2, <1>4, <1>10 DEF Inv, Reserved, At, Preparation
<1>13. Captured'
  BY <1>2, <1>10 DEF Inv, Captured, Before
<1>14. Opening'
  BY <1>2, <1>4 DEF Inv, Opening, LiveWhole, live
<1>15. QED BY <1>7, <1>8, <1>9, <1>11, <1>12, <1>13, <1>14 DEF Inv

\* The same for one that changes a field of the row.
LEMMA EditKeeps ==
  ASSUME Inv, s.at \in Preparation, NEW row, NEW field, field \notin {"made", "lease"},
         Edited(stage[s.op], row, {field}), Put(s.op, row),
         row.packages # {} \/ row.sealed => row.reviewer # NoBuild,
         NEW next, next \in Preparation, Goto(next), UNCHANGED <<driftVars, holder, ops>>
  PROVE  Inv'
<1>1. Row(row) /\ row.made = stage[s.op].made /\ row.lease = stage[s.op].lease
  BY DEF Edited
<1>2. s.op \in Ops
  BY DEF Inv, Shape, CommandShape, At, Preparation
<1>3. holder = s.op => row.made /\ row.lease # None
  BY <1>1, <1>2 DEF Inv, Holding, HolderIsNamed, Ops
<1>4. QED BY <1>1, <1>3, PutKeeps

-----------------------------------------------------------------------------
(* The steps of a command                                                  *)

LEMMA StageStepKeeps == Inv /\ Stage /\ UNCHANGED ops => Inv'
<1> SUFFICES ASSUME Inv, Stage, UNCHANGED ops PROVE Inv' OBVIOUS
<1> USE DEF Does, At
<1>0. /\ s.at \in Preparation => s.op \in Ops /\ Row(stage[s.op])
      /\ s.at \in Preparation => s.kind \in {"install", "recover", "bounded"}
  BY DEF Inv, Shape, StageShape, CommandShape, Preparation
<1>1. /\ {"create", "extract", "rust", "reviewer", "runner", "codex", "seal", "prove"} \subseteq Preparation
      /\ {"capture", "lockA"} \subseteq Preparation
  BY DEF Preparation
<1>2. s.at \in Preparation => (stage[s.op].packages # {} \/ stage[s.op].sealed => stage[s.op].reviewer # NoBuild)
  BY <1>0 DEF Inv, Sealing
<1>3. CASE Does("create", Create(s.op, s.target), "extract")
  <2>1. NoStage.packages = {} /\ NoStage.sealed = FALSE /\ Row(NoStage)
    BY DEF NoStage, Row
  <2>2. Row(Fresh) /\ Fresh.packages = {} /\ Fresh.sealed = FALSE
    <3>1. Edited(NoStage, Fresh, {"made"})
      BY <2>1, RowEdits DEF Fresh
    <3>2. QED BY <2>1, <3>1 DEF Edited
  <2>3. holder # s.op
    <3>1. stage[s.op].lease # None => holder = 0
      BY <1>3 DEF Create, Creatable, WriterFree
    <3>2. holder = s.op => stage[s.op].lease # None
      BY <1>0, <1>1, <1>3 DEF Inv, Holding, HolderIsNamed, Ops
    <3>3. s.op # 0
      BY <1>0, <1>1, <1>3 DEF Ops
    <3>4. QED BY <3>1, <3>2, <3>3
  <2>4. Put(s.op, Fresh)
    BY <1>3 DEF Create
  <2> HIDE DEF Fresh
  <2>5. QED BY <1>1, <1>3, <2>2, <2>3, <2>4, PutKeeps
<1>4. CASE Does("extract", Extract(s.op), CASE s.kind = "install" -> "capture" [] s.kind = "recover" -> "rust"
                                            [] s.kind = "bounded" -> "lockA")
  <2> DEFINE row == [stage[s.op] EXCEPT !.source = TRUE]
             next == CASE s.kind = "install" -> "capture" [] s.kind = "recover" -> "rust"
                       [] s.kind = "bounded" -> "lockA"
  <2>1. Edited(stage[s.op], row, {"source"})
    BY <1>0, <1>1, <1>4, RowEdits
  <2>2. Goto(next) /\ Put(s.op, row)
    BY <1>4 DEF Extract
  <2>3. next \in Preparation
    BY <1>0, <1>1, <1>4
  <2>4. s.at \in Preparation /\ UNCHANGED <<driftVars, holder>>
    BY <1>1, <1>4
  <2> HIDE DEF row, next
  <2>5. row.packages # {} \/ row.sealed => row.reviewer # NoBuild
    BY <1>2, <2>1, <2>4 DEF Edited
  <2>6. "source" \notin {"made", "lease"} /\ UNCHANGED <<driftVars, holder, ops>>
    BY <2>4
  <2> HIDE DEF Does, At
  <2>7. QED BY <2>1, <2>2, <2>3, <2>4, <2>5, <2>6, EditKeeps
<1>5. CASE Does("rust", StageRust(s.op), "reviewer")
  <2> DEFINE row == [stage[s.op] EXCEPT !.rust = IF rust = {} THEN "staged" ELSE "live"]
  <2>1. Edited(stage[s.op], row, {"rust"})
    BY <1>0, <1>1, <1>5, RowEdits
  <2>2. Put(s.op, row)
    BY <1>5 DEF StageRust
  <2> HIDE DEF row
  <2>3. row.packages # {} \/ row.sealed => row.reviewer # NoBuild
    BY <1>1, <1>2, <1>5, <2>1 DEF Edited
  <2>4. QED BY <1>1, <1>5, <2>1, <2>2, <2>3, EditKeeps
<1>6. CASE Does("reviewer", StageReviewer(s.op, s.target), "runner")
  <2>1. \E build : build # NoBuild /\ Put(s.op, [stage[s.op] EXCEPT !.reviewer = build])
    <3>1. CASE Reusable(s.target) /\ Put(s.op, [stage[s.op] EXCEPT !.reviewer = release[current].reviewer])
      BY <3>1 DEF Reusable
    <3>2. CASE /\ ~(Builds \subseteq Used)
               /\ LET build == CHOOSE n \in Builds : n \notin Used
                  IN  Put(s.op, [stage[s.op] EXCEPT !.reviewer = build])
      <4>1. (CHOOSE n \in Builds : n \notin Used) \in Builds
        BY <3>2
      <4>2. (CHOOSE n \in Builds : n \notin Used) # NoBuild
        BY <4>1, StageAssumption DEF NoBuild
      <4>3. QED BY <3>2, <4>2
    <3>3. QED BY <1>6, <3>1, <3>2 DEF StageReviewer
  <2>2. PICK build : build # NoBuild /\ Put(s.op, [stage[s.op] EXCEPT !.reviewer = build])
    BY <2>1
  <2> DEFINE row == [stage[s.op] EXCEPT !.reviewer = build]
  <2>3. Edited(stage[s.op], row, {"reviewer"}) /\ row.reviewer = build
    BY <1>0, <1>1, <1>6, RowEdits
  <2>4. Put(s.op, row)
    BY <2>2
  <2> HIDE DEF row
  <2>5. QED BY <1>1, <1>6, <2>2, <2>3, <2>4, EditKeeps
<1>7. ASSUME NEW kind, NEW here \in Preparation, NEW next \in Preparation,
             Does(here, StagePackage(s.op, kind), next)
      PROVE  Inv'
  <2> DEFINE row == [stage[s.op] EXCEPT !.packages = stage[s.op].packages \cup {kind}]
  <2>1. Edited(stage[s.op], row, {"packages"})
    BY <1>0, <1>7, RowEdits
  <2>2. Put(s.op, row) /\ stage[s.op].reviewer # NoBuild
    BY <1>7 DEF StagePackage
  <2> HIDE DEF row
  <2>3. row.packages # {} \/ row.sealed => row.reviewer # NoBuild
    BY <2>1, <2>2 DEF Edited
  <2>4. "packages" \notin {"made", "lease"} /\ UNCHANGED <<driftVars, holder, ops>> /\ Goto(next)
        /\ s.at \in Preparation
    BY <1>7
  <2> HIDE DEF Does, At
  <2>5. QED BY <2>1, <2>2, <2>3, <2>4, EditKeeps
<1>8. CASE Does("seal", Seal(s.op), "prove")
  <2> DEFINE row == [stage[s.op] EXCEPT !.sealed = TRUE]
  <2>1. Edited(stage[s.op], row, {"sealed"})
    BY <1>0, <1>1, <1>8, RowEdits
  <2>2. Put(s.op, row) /\ stage[s.op].packages # {}
    BY <1>8 DEF Seal
  <2> HIDE DEF row
  <2>3. row.packages # {} \/ row.sealed => row.reviewer # NoBuild
    BY <1>1, <1>2, <1>8, <2>1, <2>2 DEF Edited
  <2>4. QED BY <1>1, <1>8, <2>1, <2>2, <2>3, EditKeeps
<1>9. QED BY <1>1, <1>3, <1>4, <1>5, <1>6, <1>7, <1>8 DEF Stage

LEMMA ProveKeeps == Inv /\ Prove /\ UNCHANGED ops => Inv'
<1> SUFFICES ASSUME Inv, Prove, UNCHANGED ops PROVE Inv' OBVIOUS
<1> DEFINE next == CASE s.kind = "install" -> "drift" [] s.kind = "recover" -> "retarget"
                     [] s.kind = "bounded" -> "lock"
<1>1. s.at = "prove" /\ Goto(next) /\ UNCHANGED <<driftVars, holder, staged, ops>>
  BY DEF Prove, Does, At
<1>2. s.kind \in {"install", "recover", "bounded"} /\ s.copied = {}
  BY <1>1 DEF Inv, Shape, CommandShape, Captured, Preparation, At
<1>3. next \in Before /\ next \notin Cutover \cup Closing /\ next \notin {"idle", "stopped"}
  BY <1>2 DEF Before, Reservation, Cutover, Closing
<1>4. next \in Reserving => gate.phase # "open"
  BY <1>2 DEF Inv, Reserved, Reserving
<1>5. ~At("idle") /\ ~At("drifting")
  BY <1>1 DEF At
<1> HIDE DEF next
<1>6. Progress'
  <2>1. s'.at = next
    BY <1>1, <1>3, <1>5, MoveFields DEF Inv, Shape
  <2>2. QED BY <1>3, <2>1, ProgressNone
<1>7. QED BY <1>1, <1>2, <1>3, <1>4, <1>5, <1>6, MoveKeeps

\* A step of the command that leaves the host and the lease as they are.
LEMMA HostKeeps ==
  ASSUME Inv, ~At("drifting"), UNCHANGED <<host, holder>>,
         CommandShape', Progress', Reserved', Captured', s'.captured => LiveWhole
  PROVE  Inv'
<1>1. UNCHANGED <<stage, holder, live, kept, consumer, drift, gate>>
  BY DEF host, staged, driftVars
<1>2. Shape' /\ Holding' /\ Sealing' /\ BackedUp'
  BY <1>1, LiveSame, StageSame, KeptSame, GateSame, DriftSame DEF Inv, Shape
<1>3. Opening'
  BY <1>1 DEF Inv, Opening, LiveWhole, live
<1>4. QED BY <1>2, <1>3 DEF Inv

LEMMA CaptureKeeps == Inv /\ Capture /\ UNCHANGED ops => Inv'
<1> SUFFICES ASSUME Inv, Capture, UNCHANGED ops PROVE Inv' OBVIOUS
<1>1. CommandShape /\ Captured /\ Reserved /\ Opening
  BY DEF Inv, Shape
<1>2. s' = [kind |-> s.kind, at |-> "rust", op |-> s.op, target |-> s.target, config |-> s.config,
            captured |-> TRUE, holds |-> s.holds, copied |-> s.copied, late |-> s.late]
  BY <1>1 DEF Capture, CommandShape
<1>3. s.at = "capture" /\ gate.phase = "open" /\ UNCHANGED <<host, holder>>
  BY DEF Capture, At
<1>4. CommandShape'
  BY <1>1, <1>2, <1>3 DEF CommandShape, At
<1>5. Progress'
  BY <1>2, ProgressNone DEF Cutover, Closing
<1>6. Reserved'
  BY <1>1, <1>2, <1>3 DEF Reserved, At, Reserving, Cutover, Closing, host, driftVars
<1>7. Captured'
  BY <1>1, <1>2, <1>3 DEF Captured, Preparation, Reservation
<1>8. LiveWhole
  BY <1>1, <1>3 DEF Opening
<1>9. QED BY <1>3, <1>4, <1>5, <1>6, <1>7, <1>8, HostKeeps DEF At

LEMMA FinalKeeps == Inv /\ Final /\ UNCHANGED ops => Inv'
<1> SUFFICES ASSUME Inv, Final, UNCHANGED ops PROVE Inv' OBVIOUS
<1>1. CommandShape /\ Captured /\ Reserved /\ Sealing
  BY DEF Inv, Shape
<1>2. s' = [kind |-> s.kind, at |-> "destination", op |-> s.op, target |-> s.target, config |-> s.config,
            captured |-> FALSE, holds |-> s.holds, copied |-> s.copied, late |-> s.late]
  BY <1>1 DEF Final, CommandShape
<1>3. s.at = "final" /\ stage[s.op].sealed /\ UNCHANGED <<host, holder>>
  BY DEF Final, At, Proven
<1>4. CommandShape'
  BY <1>1, <1>2, <1>3 DEF CommandShape, At
<1>5. s.copied = {} /\ gate.phase # "open"
  BY <1>1, <1>3 DEF Captured, Preparation, Reservation, Reserved, Reserving
<1>6. stage'[s'.op].reviewer # NoBuild
  BY <1>1, <1>2, <1>3 DEF Sealing, CommandShape, At, host, staged
<1>7. Progress'
  BY <1>2, <1>5, <1>6 DEF Progress, At, FromCopied, FromManifest, FromSwitch, Linked
<1>8. Reserved'
  BY <1>1, <1>2, <1>3, <1>5 DEF Reserved, At, host, driftVars
<1>9. Captured'
  BY <1>2 DEF Captured, Preparation, Reservation
<1>10. QED BY <1>2, <1>3, <1>4, <1>7, <1>8, <1>9, HostKeeps DEF At

\* A step of the cutover: the stage, the gate and the lease stay as they are.
LEMMA LiveKeeps ==
  ASSUME Inv, s.at \in Cutover, UNCHANGED <<driftVars, holder, stage, ops>>, LiveShape', CommandShape',
         s'.at \in Cutover, s'.op = s.op, s'.kind = s.kind, s'.captured = s.captured, Progress'
  PROVE  Inv'
<1>1. gate.phase # "open" /\ ~s.captured /\ ~At("drifting")
  BY DEF Inv, Reserved, Captured, At, Cutover, Preparation, Reservation
<1>2. UNCHANGED <<stage, holder, kept, consumer, drift, gate>>
  BY DEF driftVars
<1>3. Shape' /\ Holding' /\ Sealing' /\ BackedUp'
  BY <1>1, <1>2, StageSame, KeptSame, GateSame, DriftSame DEF Inv, Shape
<1>4. Reserved'
  BY <1>1, <1>2 DEF Inv, Reserved, At, Cutover
<1>5. Captured'
  BY <1>1 DEF Inv, Captured, Preparation, Reservation, Cutover
<1>6. Opening'
  BY <1>1, <1>2 DEF Opening
<1>7. QED BY <1>3, <1>4, <1>5, <1>6 DEF Inv

LEMMA ReleaseEdits ==
  ASSUME NEW x, x = [source |-> x.source, reviewer |-> x.reviewer], NEW v
  PROVE  /\ [x EXCEPT !.source = v] = [source |-> v, reviewer |-> x.reviewer]
         /\ [x EXCEPT !.reviewer = v] = [source |-> x.source, reviewer |-> v]
<1>1. [x EXCEPT !.source = v] = [source |-> v, reviewer |-> x.reviewer] OBVIOUS
<1>2. [x EXCEPT !.reviewer = v] = [source |-> x.source, reviewer |-> v] OBVIOUS
<1>3. QED BY <1>1, <1>2

LEMMA CopyPartKeeps == Inv /\ CopyPart /\ UNCHANGED ops => Inv'
<1> SUFFICES ASSUME Inv, CopyPart, UNCHANGED ops PROVE Inv' OBVIOUS
<1>1. PICK part \in {"source", "reviewer"} \ s.copied :
        Copy(s.op, s.target, part) /\ s' = [s EXCEPT !.copied = @ \cup {part}]
  BY DEF CopyPart
<1>2. s.at = "copy" /\ UNCHANGED <<driftVars, holder, stage, ops>>
  BY <1>1 DEF CopyPart, At, Copy
<1>3. CommandShape /\ LiveShape /\ Progress
  BY DEF Inv, Shape
<1>4. s' = [kind |-> s.kind, at |-> s.at, op |-> s.op, target |-> s.target, config |-> s.config,
            captured |-> s.captured, holds |-> s.holds, copied |-> s.copied \cup {part}, late |-> s.late]
  BY <1>1, <1>3 DEF CommandShape
<1>5. CommandShape'
  BY <1>2, <1>3, <1>4 DEF CommandShape, At
<1>6. s.op \in Ops /\ s.target \in Targets /\ stage[s.op].reviewer # NoBuild
  BY <1>2, <1>3 DEF CommandShape, Progress, At, Cutover
<1>7. /\ release' = [release EXCEPT ![s.target] = Copied(s.op, s.target, part)]
      /\ UNCHANGED <<manifest, current, codex>>
  BY <1>1 DEF Copy
<1>8. release[s.target] = [source |-> release[s.target].source, reviewer |-> release[s.target].reviewer]
  BY <1>3, <1>6 DEF LiveShape
<1>9. Copied(s.op, s.target, part) =
        IF part = "source" THEN [source |-> TRUE, reviewer |-> release[s.target].reviewer]
                           ELSE [source |-> release[s.target].source, reviewer |-> stage[s.op].reviewer]
  BY <1>8, ReleaseEdits DEF Copied
<1>10. LiveShape'
  BY <1>3, <1>6, <1>7, <1>9 DEF LiveShape
<1>11. Progress'
  <2>1. /\ part = "source" => release'[s.target].source /\ release'[s.target].reviewer = release[s.target].reviewer
        /\ part = "reviewer" => /\ release'[s.target].source = release[s.target].source
                                /\ release'[s.target].reviewer = stage[s.op].reviewer
    <3>1. release'[s.target] = Copied(s.op, s.target, part)
      BY <1>3, <1>6, <1>7 DEF LiveShape
    <3>2. part = "source" =>
            release'[s.target] = [source |-> TRUE, reviewer |-> release[s.target].reviewer]
      BY <1>9, <3>1
    <3>3. part = "reviewer" =>
            release'[s.target] = [source |-> release[s.target].source, reviewer |-> stage[s.op].reviewer]
      BY <1>9, <3>1
    <3>4. QED BY <3>2, <3>3
  <2>2. /\ "source" \in s'.copied => release'[s.target].source
        /\ "reviewer" \in s'.copied => release'[s.target].reviewer = stage[s.op].reviewer
    BY <1>1, <1>2, <1>3, <1>4, <2>1 DEF Progress, LiveReviewer, At
  <2>3. QED BY <1>2, <1>4, <1>6, <2>2
            DEF Progress, LiveReviewer, At, FromCopied, FromManifest, FromSwitch, Linked, Cutover
<1>12. QED BY <1>2, <1>4, <1>5, <1>10, <1>11, LiveKeeps DEF Cutover

\* The steps of the cutover that only move the command, and those that write.
LEMMA ConsumeKeeps == Inv /\ Consume /\ UNCHANGED ops => Inv'
<1> SUFFICES ASSUME Inv, Consume, UNCHANGED ops PROVE Inv' OBVIOUS
<1> DEFINE tools == IF stage[s.op].rust = "staged" THEN "tools" ELSE "manifest"
<1>1. CommandShape /\ LiveShape /\ Progress
  BY DEF Inv, Shape
<1>2. ASSUME NEW next, next \in Cutover, s.at \in Cutover, Goto(next)
      PROVE  /\ CommandShape' /\ s'.at = next /\ s'.op = s.op /\ s'.target = s.target /\ s'.kind = s.kind
             /\ s'.captured = s.captured /\ s'.copied = s.copied /\ s.op \in Ops /\ s.target \in Targets
             /\ stage[s.op].reviewer # NoBuild
  <2>1. ~At("idle") /\ next # "idle"
    BY <1>2 DEF At, Cutover
  <2>2. s.op \in Ops /\ s.target \in Targets /\ stage[s.op].reviewer # NoBuild
    BY <1>1, <1>2, <2>1 DEF CommandShape, Progress
  <2>3. QED BY <1>1, <1>2, <2>1, <2>2, MoveFields
<1> USE DEF FromCopied, FromManifest, FromSwitch, Linked
<1>3. CASE Does("destination", Destination(s.op, s.target) /\ UNCHANGED staged, "copy")
  <2>1. s.at = "destination" /\ Goto("copy") /\ UNCHANGED <<driftVars, holder, stage, live>>
    BY <1>3 DEF Does, At, staged
  <2>2. Progress'
    BY <1>1, <1>2, <2>1 DEF Progress, At, Cutover
  <2>3. QED BY <1>1, <1>2, <2>1, <2>2, LiveSame, LiveKeeps DEF Cutover
<1>4. CASE Does("copy", s.copied = {"source", "reviewer"} /\ UNCHANGED staged, "toolchain")
  <2>1. s.at = "copy" /\ Goto("toolchain") /\ UNCHANGED <<driftVars, holder, stage, live>>
        /\ s.copied = {"source", "reviewer"}
    BY <1>4 DEF Does, At, staged
  <2>2. Progress'
    BY <1>1, <1>2, <2>1 DEF Progress, LiveReviewer, At, Cutover, live
  <2>3. QED BY <1>1, <1>2, <2>1, <2>2, LiveSame, LiveKeeps DEF Cutover
<1>5. CASE Does("toolchain", Destination(s.op, s.target) /\ UNCHANGED staged, tools)
  <2>1. s.at = "toolchain" /\ Goto(tools) /\ UNCHANGED <<driftVars, holder, stage, live>>
    BY <1>5 DEF Does, At, staged
  <2>2. tools \in {"tools", "manifest"} /\ tools \in Cutover
    BY DEF Cutover
  <2> HIDE DEF tools
  <2>3. Progress'
    BY <1>1, <1>2, <2>1, <2>2 DEF Progress, LiveReviewer, At, Cutover, live
  <2>4. QED BY <1>1, <1>2, <2>1, <2>2, <2>3, LiveSame, LiveKeeps DEF Cutover
<1>6. CASE Does("tools", CopyTool, "tools")
  <2>1. s.at = "tools" /\ Goto("tools") /\ UNCHANGED <<driftVars, holder, stage, release, manifest, current, codex>>
    BY <1>6 DEF Does, At, CopyTool
  <2>2. Progress'
    BY <1>1, <1>2, <2>1 DEF Progress, LiveReviewer, At, Cutover
  <2>3. LiveShape'
    BY <1>1, <2>1 DEF LiveShape
  <2>4. QED BY <1>1, <1>2, <2>1, <2>2, <2>3, LiveKeeps DEF Cutover
<1>7. CASE Does("tools", rust = Tools /\ UNCHANGED staged, "manifest")
  <2>1. s.at = "tools" /\ Goto("manifest") /\ UNCHANGED <<driftVars, holder, stage, live>>
    BY <1>7 DEF Does, At, staged
  <2>2. Progress'
    BY <1>1, <1>2, <2>1 DEF Progress, LiveReviewer, At, Cutover, live
  <2>3. QED BY <1>1, <1>2, <2>1, <2>2, LiveSame, LiveKeeps DEF Cutover
<1>8. CASE Does("manifest", WriteManifest(s.op, s.target), "switch")
  <2>1. s.at = "manifest" /\ Goto("switch") /\ UNCHANGED <<driftVars, holder, stage, release, current, codex>>
        /\ manifest' = [manifest EXCEPT ![s.target] = stage[s.op].reviewer]
    BY <1>8 DEF Does, At, WriteManifest
  <2>2. LiveShape' /\ manifest'[s.target] = stage[s.op].reviewer
    BY <1>1, <1>2, <2>1 DEF LiveShape, Cutover
  <2>3. Progress'
    BY <1>1, <1>2, <2>1, <2>2 DEF Progress, LiveReviewer, At, Cutover
  <2>4. QED BY <1>1, <1>2, <2>1, <2>2, <2>3, LiveKeeps DEF Cutover
<1>9. CASE Does("switch", Switch(s.target), "unpack")
  <2>1. s.at = "switch" /\ Goto("unpack") /\ UNCHANGED <<driftVars, holder, stage, release, manifest, codex>>
        /\ current' = s.target
    BY <1>9 DEF Does, At, Switch
  <2>2. LiveShape'
    BY <1>1, <1>2, <2>1 DEF LiveShape, Cutover
  <2>3. Progress'
    BY <1>1, <1>2, <2>1, <2>2 DEF Progress, LiveReviewer, At, Cutover
  <2>4. QED BY <1>1, <1>2, <2>1, <2>2, <2>3, LiveKeeps DEF Cutover
<1>10. ASSUME NEW here \in {"unpack", "unpacked", "unlink", "link"}, NEW next \in FromSwitch \cap Cutover,
              s.at = here, Goto(next), next # "rename",
              UNCHANGED <<driftVars, holder, stage, release, manifest, current>>,
              codex' = [bytes |-> codex'.bytes, linked |-> codex'.linked],
              next \in {"unlink", "link"} => codex'.bytes = "whole", next \in Linked => codex' = Whole
       PROVE  Inv'
  <2>1. LiveShape' /\ here \in Cutover \cap FromSwitch
    BY <1>1, <1>10 DEF LiveShape, Cutover
  <2>2. Progress'
    BY <1>1, <1>2, <1>10, <2>1 DEF Progress, LiveReviewer, At, Cutover
  <2>3. QED BY <1>1, <1>2, <1>10, <2>1, <2>2, LiveKeeps DEF Cutover
<1>11. codex = [bytes |-> codex.bytes, linked |-> codex.linked]
  BY <1>1 DEF LiveShape
<1> USE DEF PutCodex
<1>12. CASE Does("unpack", CodexTorn, "unpacked")
  <2>1. codex' = [bytes |-> "torn", linked |-> codex.linked]
    BY <1>11, <1>12 DEF Does, CodexTorn
  <2>2. QED BY <1>10, <1>12, <2>1 DEF Does, At, CodexTorn, Cutover
<1>13. CASE Does("unpacked", CodexCopied, "unlink")
  <2>1. codex' = [bytes |-> "whole", linked |-> codex.linked]
    BY <1>11, <1>13 DEF Does, CodexCopied
  <2>2. QED BY <1>10, <1>13, <2>1 DEF Does, At, CodexCopied, Cutover
<1>14. CASE Does("unlink", CodexUnlinked, "link")
  <2>1. codex' = [bytes |-> codex.bytes, linked |-> FALSE]
    BY <1>11, <1>14 DEF Does, CodexUnlinked
  <2>2. codex.bytes = "whole"
    BY <1>1, <1>14 DEF Progress, Does, At
  <2>3. QED BY <1>10, <1>14, <2>1, <2>2 DEF Does, At, CodexUnlinked, Cutover
<1>15. CASE Does("link", CodexLinked, "publish")
  <2>1. codex' = [bytes |-> codex.bytes, linked |-> TRUE]
    BY <1>11, <1>15 DEF Does, CodexLinked
  <2>2. codex.bytes = "whole"
    BY <1>1, <1>15 DEF Progress, Does, At
  <2>3. QED BY <1>10, <1>15, <2>1, <2>2 DEF Does, At, CodexLinked, Cutover, Whole
<1>16. QED BY <1>3, <1>4, <1>5, <1>6, <1>7, <1>8, <1>9, <1>12, <1>13, <1>14, <1>15 DEF Consume

-----------------------------------------------------------------------------
(* The steps at the gate                                                   *)

LEMMA GateEdits ==
  ASSUME GateShape, NEW v
  PROVE  /\ [gate EXCEPT !.phase = v] = [phase |-> v, op |-> gate.op, target |-> gate.target, digest |-> gate.digest]
         /\ [gate EXCEPT !.target = v] = [phase |-> gate.phase, op |-> gate.op, target |-> v, digest |-> gate.digest]
         /\ [gate EXCEPT !.digest = v] = [phase |-> gate.phase, op |-> gate.op, target |-> gate.target, digest |-> v]
<1>1. [gate EXCEPT !.phase = v] = [phase |-> v, op |-> gate.op, target |-> gate.target, digest |-> gate.digest]
  BY DEF GateShape
<1>2. [gate EXCEPT !.target = v] = [phase |-> gate.phase, op |-> gate.op, target |-> v, digest |-> gate.digest]
  BY DEF GateShape
<1>3. [gate EXCEPT !.digest = v] = [phase |-> gate.phase, op |-> gate.op, target |-> gate.target, digest |-> v]
  BY DEF GateShape
<1>4. QED BY <1>1, <1>2, <1>3

\* What a step in the preparation or the reservation may rely on.
LEMMA InBefore ==
  ASSUME Inv, s.at \in Before
  PROVE  s.copied = {} /\ s.op \in Ops /\ s.target \in Targets /\ ~At("idle")
  BY DEF Inv, Shape, CommandShape, Captured, Before, Preparation, Reservation, At

LEMMA GatesKeeps ==
  ASSUME Inv, NEW step \in Before, step # "drifting", NEW next \in Before, NEW phases, "open" \notin phases,
         NEW value, Gates(step, phases, next, value), UNCHANGED ops,
         \/ \E p \in Phases \ {"open"} : value = [gate EXCEPT !.phase = p]
         \/ value = [gate EXCEPT !.target = s.target]
  PROVE  Inv'
<1>1. /\ s.at = step /\ gate.phase # "open" /\ gate' = value /\ Goto(next)
      /\ UNCHANGED <<consumer, kept, drift, holder, staged, ops>>
  BY DEF Gates, At
<1>2. s.copied = {} /\ s.op \in Ops /\ s.target \in Targets /\ ~At("idle") /\ ~At("drifting")
  BY <1>1, InBefore DEF At
<1>3. GateShape
  BY DEF Inv, Shape
<1>4. GateShape' /\ gate'.phase # "open"
  <2>1. CASE value = [gate EXCEPT !.target = s.target]
    <3>1. gate' = [phase |-> gate.phase, op |-> gate.op, target |-> s.target, digest |-> gate.digest]
      BY <1>1, <1>3, <2>1, GateEdits
    <3>2. QED BY <1>1, <1>2, <1>3, <3>1 DEF GateShape
  <2>2. CASE \E p \in Phases \ {"open"} : value = [gate EXCEPT !.phase = p]
    <3>1. PICK p \in Phases \ {"open"} : value = [gate EXCEPT !.phase = p]
      BY <2>2
    <3>2. gate' = [phase |-> p, op |-> gate.op, target |-> gate.target, digest |-> gate.digest]
      BY <1>1, <1>3, <3>1, GateEdits
    <3>3. QED BY <1>1, <1>3, <3>2 DEF GateShape
  <2>3. QED BY <2>1, <2>2
<1>5. next # "idle" /\ next \notin Cutover \cup Closing
  BY BeforeIsEarly
<1>6. Progress'
  <2>1. s'.at = next
    BY <1>1, <1>2, <1>5, MoveFields DEF Inv, Shape
  <2>2. QED BY <1>5, <2>1, ProgressNone
<1>7. QED BY <1>1, <1>2, <1>4, <1>5, <1>6, GateKeeps

LEMMA GateStepKeeps == Inv /\ (Bind \/ Drain \/ Applying \/ Retarget \/ Reapply) /\ UNCHANGED ops => Inv'
<1> SUFFICES ASSUME Inv, Bind \/ Drain \/ Applying \/ Retarget \/ Reapply, UNCHANGED ops PROVE Inv' OBVIOUS
<1>1. /\ {"target", "releaseA", "drain", "applying", "lock", "retarget", "reapply", "final"} \subseteq Before
      /\ {"drained", "applying"} \subseteq Phases \ {"open"}
  BY DEF Before, Preparation, Reservation, Phases
<1>2. CASE Bind
  BY <1>1, <1>2, GatesKeeps DEF Bind
<1>3. CASE Drain
  BY <1>1, <1>3, GatesKeeps DEF Drain
<1>4. CASE Applying
  BY <1>1, <1>4, GatesKeeps DEF Applying
<1>5. CASE Retarget
  BY <1>1, <1>5, GatesKeeps DEF Retarget
<1>6. CASE Reapply
  <2> DEFINE next == IF s.kind = "bounded" THEN "final" ELSE "lock"
             value == [gate EXCEPT !.phase = "applying"]
  <2>1. next \in Before
    BY <1>1
  <2>2. \E p \in Phases \ {"open"} : value = [gate EXCEPT !.phase = p]
    BY <1>1
  <2>3. Gates("reapply", {"recovery-required"}, next, value)
    BY <1>6 DEF Reapply
  <2> HIDE DEF next, value
  <2>4. QED BY <1>1, <2>1, <2>2, <2>3, GatesKeeps
<1>7. QED BY <1>2, <1>3, <1>4, <1>5, <1>6

LEMMA QuiesceKeeps == Inv /\ Quiesce /\ UNCHANGED ops => Inv'
<1> SUFFICES ASSUME Inv, Quiesce, UNCHANGED ops PROVE Inv' OBVIOUS
<1>1. /\ s.at = "quiesce" /\ Goto("drain") /\ UNCHANGED <<consumer, kept, drift, holder, staged, ops>>
      /\ gate' = [gate EXCEPT !.phase = IF @ = "open" THEN "quiesced" ELSE @, !.op = s.op, !.target = s.target]
  BY DEF Quiesce, At
<1>2. "quiesce" \in Before /\ "drain" \in Before
  BY DEF Before, Reservation
<1>3. s.copied = {} /\ s.op \in Ops /\ s.target \in Targets /\ ~At("idle") /\ ~At("drifting")
  BY <1>1, <1>2, InBefore DEF At
<1>4. GateShape
  BY DEF Inv, Shape
<1>5. gate' = [phase |-> IF gate.phase = "open" THEN "quiesced" ELSE gate.phase, op |-> s.op,
               target |-> s.target, digest |-> gate.digest]
  BY <1>1, <1>4 DEF GateShape
<1>6. GateShape' /\ gate'.phase # "open"
  BY <1>3, <1>5 DEF GateShape
<1>7. Progress'
  <2>1. s'.at = "drain"
    BY <1>1, <1>3, MoveFields DEF Inv, Shape
  <2>2. QED BY <2>1, ProgressNone DEF Cutover, Closing
<1>8. QED BY <1>1, <1>2, <1>3, <1>6, <1>7, GateKeeps

LEMMA VerifiedKeeps == Inv /\ Verified /\ UNCHANGED ops => Inv'
<1> SUFFICES ASSUME Inv, Verified, UNCHANGED ops PROVE Inv' OBVIOUS
<1>1. /\ s.at = "verified" /\ Goto("resume") /\ UNCHANGED <<consumer, kept, drift, holder, staged, ops>>
      /\ gate' = [gate EXCEPT !.phase = "verified"] /\ gate.phase # "open"
  BY DEF Verified, Gates, At
<1>2. ~At("idle") /\ ~At("drifting") /\ ~s.captured /\ "resume" \notin Before
  BY <1>1, BeforeIsEarly DEF At, Inv, Captured, Preparation, Reservation, Closing
<1>3. GateShape /\ Progress /\ CommandShape
  BY DEF Inv, Shape
<1>4. gate' = [phase |-> "verified", op |-> gate.op, target |-> gate.target, digest |-> gate.digest]
  BY <1>1, <1>3, GateEdits
<1>5. GateShape' /\ gate'.phase # "open"
  BY <1>1, <1>3, <1>4 DEF GateShape
<1>6. Progress'
  <2>1. /\ s'.at = "resume" /\ s'.op = s.op /\ s'.target = s.target
        /\ UNCHANGED <<stage, release, manifest, current, codex>>
    BY <1>1, <1>2, <1>3, MoveFields DEF staged, live
  <2>2. QED BY <1>1, <1>3, <2>1
            DEF Progress, LiveReviewer, At, Closing, FromCopied, FromManifest, FromSwitch, Linked
<1>7. QED BY <1>1, <1>2, <1>5, <1>6, GateKeeps

\* The gate opens over what the cutover has made.
LEMMA ResumeKeeps == Inv /\ Resume /\ UNCHANGED ops => Inv'
<1> SUFFICES ASSUME Inv, Resume, UNCHANGED ops PROVE Inv' OBVIOUS
<1>1. /\ s.at = "resume" /\ s' = Idle /\ gate' = Open
      /\ UNCHANGED <<stage, live, consumer, kept, drift, holder, ops>>
  BY DEF Resume, At, staged
<1>2. GateShape /\ Progress /\ CommandShape
  BY DEF Inv, Shape
<1>3. gate' = [phase |-> "open", op |-> 0, target |-> None, digest |-> gate.digest]
  BY <1>1, <1>2 DEF GateShape, Open
<1>4. LiveWhole'
  BY <1>1, <1>2 DEF Progress, LiveReviewer, LiveWhole, At, Closing, FromSwitch, Linked, live
<1>5. GateShape' /\ CommandShape' /\ ~At("drifting")
  BY <1>1, <1>2, <1>3 DEF GateShape, CommandShape, Idle, At
<1>6. Shape' /\ Holding' /\ Sealing' /\ BackedUp'
  BY <1>1, <1>5, LiveSame, StageSame, KeptSame, DriftSame DEF Inv, Shape
<1>7. Progress' /\ Reserved' /\ Captured'
  BY <1>1 DEF Progress, Reserved, Captured, Idle, At, Reserving, Cutover, Closing, FromCopied,
              FromManifest, FromSwitch, Linked, Preparation, Reservation, None
<1>8. QED BY <1>4, <1>6, <1>7 DEF Inv, Opening

LEMMA PublishKeeps == Inv /\ Publish /\ UNCHANGED ops => Inv'
<1> SUFFICES ASSUME Inv, Publish, UNCHANGED ops PROVE Inv' OBVIOUS
<1>1. s.at = "publish" /\ UNCHANGED <<consumer, gate, drift, holder, stage, live, ops>>
  BY DEF Publish, At, staged
<1>2. GateShape /\ Progress /\ CommandShape /\ KeptShape /\ DriftShape /\ Reserved /\ Captured
  BY DEF Inv, Shape
<1>3. ~At("idle") /\ ~At("drifting") /\ drift.at # "publish"
  BY <1>1, <1>2 DEF At, DriftShape, Locked
<1>4. PICK next \in {"release", "look"} : Goto(next)
  BY DEF Publish
<1>5. /\ CommandShape' /\ s'.at = next /\ s'.op = s.op /\ s'.target = s.target /\ s'.kind = s.kind
      /\ s'.captured = s.captured /\ s.op \in Ops
  BY <1>1, <1>2, <1>3, <1>4, MoveFields DEF CommandShape
<1>6. gate.phase # "open" /\ ~s.captured
  BY <1>1, <1>2 DEF Reserved, Captured, Cutover, Preparation, Reservation
<1>7. KeptShape'
  <2>1. CASE UNCHANGED kept
    BY <1>2, <2>1 DEF KeptShape
  <2>2. CASE kept' = [kept EXCEPT !["before"][s.op] = consumer]
    <3>1. kept = [b \in Backups |-> kept[b]] /\ kept["before"] = [o \in Ops |-> kept["before"][o]]
      BY <1>2 DEF KeptShape, Backups
    <3>2. QED BY <1>2, <1>5, <2>2, <3>1 DEF KeptShape
  <2>3. QED BY <2>1, <2>2 DEF Publish
<1>8. Progress'
  BY <1>1, <1>2, <1>4, <1>5 DEF Progress, LiveReviewer, At, Cutover, live, FromCopied, FromManifest, FromSwitch, Linked
<1>9. Shape' /\ Holding' /\ Sealing'
  BY <1>1, <1>3, <1>5, <1>7, LiveSame, StageSame, GateSame, DriftSame DEF Inv, Shape
<1>10. Reserved' /\ Captured' /\ Opening' /\ BackedUp'
  BY <1>1, <1>2, <1>3, <1>4, <1>5, <1>6 DEF Reserved, Captured, Opening, BackedUp, At, Preparation, Reservation
<1>11. QED BY <1>8, <1>9, <1>10 DEF Inv

LEMMA LookKeeps == Inv /\ Look /\ UNCHANGED ops => Inv'
<1> SUFFICES ASSUME Inv, Look, UNCHANGED ops PROVE Inv' OBVIOUS
<1>1. /\ s.at = "look" /\ Goto("rename") /\ consumer = kept["before"][s.op]
      /\ UNCHANGED <<driftVars, consumer, kept, holder, stage, live, ops>>
  BY DEF Look, At, host, staged, driftVars
<1>2. CommandShape /\ Progress /\ LiveShape'
  BY <1>1, LiveSame DEF Inv, Shape
<1>3. /\ CommandShape' /\ s'.at = "rename" /\ s'.op = s.op /\ s'.target = s.target /\ s'.kind = s.kind
      /\ s'.captured = s.captured
  BY <1>1, <1>2, MoveFields DEF At
<1>4. Progress'
  BY <1>1, <1>2, <1>3 DEF Progress, LiveReviewer, At, Cutover, live, FromCopied, FromManifest, FromSwitch, Linked
<1>5. QED BY <1>1, <1>2, <1>3, <1>4, LiveKeeps DEF Cutover

LEMMA RenameKeeps == Inv /\ Rename /\ UNCHANGED ops => Inv'
<1> SUFFICES ASSUME Inv, Rename, UNCHANGED ops PROVE Inv' OBVIOUS
<1>1. s.at = "rename" /\ UNCHANGED <<kept, drift, holder, stage, live, ops>>
  BY DEF Rename, At, staged
<1>2. GateShape /\ Progress /\ CommandShape /\ KeptShape /\ DriftShape /\ Reserved /\ Captured
  BY DEF Inv, Shape
<1>3. ~At("idle") /\ ~At("drifting") /\ drift.at # "publish"
  BY <1>1, <1>2 DEF At, DriftShape, Locked
<1>4. s' = [kind |-> s.kind, at |-> "release", op |-> s.op, target |-> s.target, config |-> s.config,
            captured |-> s.captured, holds |-> s.holds, copied |-> s.copied, late |-> FALSE]
  BY <1>2 DEF Rename, CommandShape
<1>5. CommandShape'
  BY <1>1, <1>2, <1>3, <1>4 DEF CommandShape, At
<1>6. gate.phase # "open" /\ ~s.captured
  BY <1>1, <1>2 DEF Reserved, Captured, Cutover, Preparation, Reservation
<1>7. GateShape' /\ gate'.phase = gate.phase
  <2>1. gate' = [phase |-> gate.phase, op |-> gate.op, target |-> gate.target, digest |-> Digest[s.config]]
    BY <1>2, GateEdits DEF Rename
  <2>2. QED BY <1>2, <2>1 DEF GateShape
<1>8. Progress'
  BY <1>1, <1>2, <1>4 DEF Progress, LiveReviewer, At, Cutover, live, FromCopied, FromManifest, FromSwitch, Linked
<1>9. KeptShape'
  BY <1>1, <1>2 DEF KeptShape
<1>10. Shape' /\ Holding' /\ Sealing'
  BY <1>1, <1>3, <1>5, <1>7, <1>9, LiveSame, StageSame, DriftSame DEF Inv, Shape
<1>11. Reserved' /\ Captured' /\ Opening' /\ BackedUp'
  BY <1>1, <1>2, <1>3, <1>4, <1>6, <1>7 DEF Reserved, Captured, Opening, BackedUp, At, Preparation, Reservation
<1>12. QED BY <1>8, <1>10, <1>11 DEF Inv

-----------------------------------------------------------------------------
(* The helper of a drifted consumer                                        *)

LEMMA OffIs == Off = [at |-> "off", op |-> 0, target |-> None, desired |-> None, actual |-> None, raw |-> None,
              late |-> FALSE]
  BY DEF Off

LEMMA OffEdits ==
  ASSUME NEW v
  PROVE  [Off EXCEPT !.at = v] = [at |-> v, op |-> 0, target |-> None, desired |-> None, actual |-> None,
                                  raw |-> None, late |-> FALSE]
<1> DEFINE row(at, late) == [at |-> at, op |-> 0, target |-> None, desired |-> None, actual |-> None,
                             raw |-> None, late |-> late]
<1>1. \A late : [row("off", late) EXCEPT !.at = v] = row(v, late)
  OBVIOUS
<1>2. Off = row("off", FALSE)
  BY DEF Off
<1> HIDE DEF row
<1>3. [Off EXCEPT !.at = v] = row(v, FALSE)
  BY <1>1, <1>2
<1>4. QED BY <1>3 DEF row

LEMMA DriftKeeps == Inv /\ Drift /\ UNCHANGED ops => Inv'
<1> SUFFICES ASSUME Inv, Drift, UNCHANGED ops PROVE Inv' OBVIOUS
<1>1. s.at = "drift" /\ Goto("drifting") /\ UNCHANGED <<consumer, gate, kept, holder, stage, live, ops>>
  BY DEF Drift, At, staged
<1>2. drift' = [at |-> "assess", op |-> s.op, target |-> s.target, desired |-> s.config, actual |-> None, raw |-> None,
              late |-> FALSE]
  BY OffIs DEF Drift, StartDrift, Off
<1>3. "drift" \in Before
  BY DEF Before, Reservation
<1>4. s.copied = {} /\ s.op \in Ops /\ s.target \in Targets /\ ~At("idle")
  BY <1>1, <1>3, InBefore
<1>5. /\ CommandShape' /\ s'.at = "drifting" /\ s'.kind = s.kind /\ s'.captured = s.captured /\ s'.copied = s.copied
  BY <1>1, <1>4, MoveFields DEF Inv, Shape
<1>6. DriftShape' /\ KeptShape' /\ BackedUp'
  BY <1>1, <1>2, <1>4, <1>5 DEF DriftShape, At, BackedUp, Inv, Shape, KeptShape
<1>7. Shape' /\ Holding' /\ Sealing'
  BY <1>1, <1>5, <1>6, LiveSame, StageSame, GateSame DEF Inv, Shape
<1>8. Progress' /\ Reserved' /\ Captured' /\ Opening'
  BY <1>1, <1>4, <1>5, ProgressNone
     DEF Inv, Reserved, Captured, Opening, LiveWhole, live, At, Reserving, Cutover, Closing, Preparation, Reservation
<1>9. QED BY <1>6, <1>7, <1>8 DEF Inv

LEMMA DriftedKeeps == Inv /\ Drifted /\ UNCHANGED ops => Inv'
<1> SUFFICES ASSUME Inv, Drifted, UNCHANGED ops PROVE Inv' OBVIOUS
<1>1. s.at = "drifting" /\ Goto("quiesce") /\ UNCHANGED <<consumer, gate, kept, holder, stage, live, ops>>
      /\ drift' = Off
  BY DEF Drifted, At, staged
<1>3. "drifting" \in Before
  BY DEF Before, Reservation
<1>4. s.copied = {} /\ s.op \in Ops /\ s.target \in Targets /\ ~At("idle")
  BY <1>1, <1>3, InBefore
<1>5. /\ CommandShape' /\ s'.at = "quiesce" /\ s'.kind = s.kind /\ s'.captured = s.captured /\ s'.copied = s.copied
  BY <1>1, <1>4, MoveFields DEF Inv, Shape
<1>6. DriftShape' /\ KeptShape' /\ BackedUp'
  BY <1>1, OffIs DEF DriftShape, Locked, BackedUp, Inv, Shape, KeptShape
<1>7. Shape' /\ Holding' /\ Sealing'
  BY <1>1, <1>5, <1>6, LiveSame, StageSame, GateSame DEF Inv, Shape
<1>8. Progress' /\ Reserved' /\ Captured' /\ Opening'
  BY <1>1, <1>4, <1>5, ProgressNone
     DEF Inv, Reserved, Captured, Opening, LiveWhole, live, At, Reserving, Cutover, Closing, Preparation, Reservation
<1>9. QED BY <1>6, <1>7, <1>8 DEF Inv

\* Every step of the helper, and its death, while the command waits.
LEMMA WaitingKeeps ==
  ASSUME Inv, At("drifting"), UNCHANGED <<holder, staged, s, ops>>,
         GateShape', DriftShape', KeptShape', BackedUp', gate'.phase = "open" => gate.phase = "open"
  PROVE  Inv'
<1>1. UNCHANGED <<stage, live, holder, s, ops>>
  BY DEF staged
<1>2. CommandShape'
  BY <1>1 DEF Inv, Shape, CommandShape, At
<1>3. Shape' /\ Holding' /\ Sealing'
  BY <1>1, <1>2, LiveSame, StageSame DEF Inv, Shape
<1>4. Progress' /\ Reserved' /\ Captured' /\ Opening'
  BY <1>1, ProgressNone
     DEF Inv, Reserved, Captured, Opening, LiveWhole, live, At, Reserving, Cutover, Closing
<1>5. QED BY <1>3, <1>4 DEF Inv

LEMMA HelperKeeps == Inv /\ Helper /\ UNCHANGED ops => Inv'
<1> SUFFICES ASSUME Inv, Helper, UNCHANGED ops PROVE Inv' OBVIOUS
<1>1. At("drifting") /\ UNCHANGED <<holder, staged, s, ops>> /\ DriftStep
  BY DEF Helper
<1>2. GateShape /\ DriftShape /\ KeptShape
  BY DEF Inv, Shape
<1>3. ASSUME NEW v, drift' = [Off EXCEPT !.at = v], v \notin Locked PROVE DriftShape' /\ drift'.at = v
  BY <1>3, OffEdits DEF DriftShape
<1>4. At("drifting")'
  BY <1>1 DEF At
<1>5. "unchanged" \notin Locked /\ "failed" \notin Locked /\ "restored" \notin Locked
  BY DEF Locked
<1>6. CASE Unchanged
  BY <1>1, <1>2, <1>3, <1>5, <1>6, WaitingKeeps, GateSame DEF Unchanged, KeptShape, BackedUp
<1>7. CASE Recognise
  <2>1. PICK raw \in Candidates : drift' = [drift EXCEPT !.at = "quiesce", !.actual = consumer, !.raw = raw]
    BY <1>7 DEF Recognise
  <2>2. drift' = [at |-> "quiesce", op |-> drift.op, target |-> drift.target,
                  desired |-> drift.desired, actual |-> consumer, raw |-> raw, late |-> drift.late]
    BY <1>2, <2>1 DEF DriftShape
  <2>3. drift.at \in Locked /\ UNCHANGED <<consumer, gate, kept>>
    BY <1>7 DEF Recognise, Recognisable, Locked
  <2>4. DriftShape'
    BY <1>2, <1>4, <2>2, <2>3 DEF DriftShape
  <2>5. KeptShape' /\ BackedUp'
    BY <1>2, <2>2, <2>3 DEF KeptShape, BackedUp
  <2>6. QED BY <1>1, <1>2, <2>3, <2>4, <2>5, WaitingKeeps, GateSame
<1>8. ASSUME NEW v, Goes(v) PROVE drift' = [at |-> v, op |-> drift.op, target |-> drift.target,
                  desired |-> drift.desired, actual |-> drift.actual, raw |-> drift.raw, late |-> drift.late]
  BY <1>2, <1>8 DEF DriftShape, Goes
<1>9. CASE Reserve
  <2>1. /\ drift.at \in Locked /\ UNCHANGED <<consumer, kept>> /\ Goes("backup")
        /\ gate' = [gate EXCEPT !.phase = "quiesced", !.op = drift.op, !.target = drift.target]
    BY <1>9 DEF Reserve, Locked
  <2>2. gate' = [phase |-> "quiesced", op |-> drift.op, target |-> drift.target, digest |-> gate.digest]
    BY <1>2, <2>1 DEF GateShape
  <2>3. GateShape' /\ DriftShape'
    <3>1. drift.op \in Ops /\ drift.target \in Targets
      BY <1>2, <2>1 DEF DriftShape
    <3>2. GateShape'
      BY <2>2, <3>1 DEF GateShape
    <3>3. DriftShape'
      BY <1>4, <1>8, <2>1, <3>1 DEF DriftShape
    <3>4. QED BY <3>2, <3>3
  <2>4. KeptShape' /\ BackedUp'
    BY <1>2, <1>8, <2>1 DEF KeptShape, BackedUp
  <2>5. QED BY <1>1, <2>2, <2>3, <2>4, WaitingKeeps
<1>10. CASE Backup
  <2>1. /\ drift.at \in Locked /\ UNCHANGED <<consumer, gate>> /\ Goes("publish")
        /\ kept' = [kept EXCEPT !["drift"][drift.op] = consumer]
    BY <1>10 DEF Backup, Locked
  <2>2. DriftShape'
    BY <1>2, <1>4, <1>8, <2>1 DEF DriftShape
  <2>3. drift.op \in Ops /\ "drift" \in Backups
    BY <1>2, <2>1 DEF DriftShape, Backups
  <2>4. KeptShape' /\ kept'["drift"][drift.op] = consumer
    BY <1>2, <2>1, <2>3 DEF KeptShape
  <2>5. BackedUp'
    BY <1>8, <2>1, <2>4 DEF BackedUp
  <2>6. QED BY <1>1, <1>2, <2>1, <2>2, <2>4, <2>5, WaitingKeeps, GateSame
<1>11. ASSUME NEW v \in {"restored", "failed"}, Finish(v), UNCHANGED <<gate, kept>> PROVE Inv'
  <2>1. DriftShape' /\ drift'.at = v
    BY <1>3, <1>5, <1>11 DEF Finish
  <2>2. KeptShape' /\ BackedUp'
    BY <1>2, <1>11, <2>1 DEF KeptShape, BackedUp
  <2>3. QED BY <1>1, <1>2, <1>11, <2>1, <2>2, WaitingKeeps, GateSame
<1>12. CASE Restore
  BY <1>11, <1>12 DEF Restore
<1>13. CASE Refused
  <2>1. CASE drift' = [Off EXCEPT !.at = "failed"]
    BY <1>1, <1>2, <1>3, <1>5, <1>13, <2>1, WaitingKeeps, GateSame DEF Refused, KeptShape, BackedUp
  <2>2. CASE Finish("failed")
    BY <1>11, <1>13, <2>2 DEF Refused
  <2>3. QED BY <1>13, <2>1, <2>2 DEF Refused
<1>14. QED BY <1>1, <1>6, <1>7, <1>9, <1>10, <1>12, <1>13 DEF DriftStep

LEMMA HelperDiesKeeps == Inv /\ HelperDies => Inv'
<1> SUFFICES ASSUME Inv, HelperDies PROVE Inv' OBVIOUS
<1>1. At("drifting") /\ UNCHANGED <<holder, staged, s, ops, consumer, gate, kept>>
  BY DEF HelperDies, Helping, DriftDies
<1>2. drift' = [Off EXCEPT !.at = "failed"]
  BY DEF HelperDies, DriftDies, Finish
<1>3. GateShape' /\ DriftShape' /\ KeptShape' /\ BackedUp'
  BY <1>1, <1>2, OffEdits, GateSame DEF Inv, Shape, DriftShape, KeptShape, BackedUp, Locked
<1>4. QED BY <1>1, <1>3, WaitingKeeps

-----------------------------------------------------------------------------
(* The lease                                                               *)

\* One row's lease is written; what it does to the rest of the stage.
LEMMA LeaseEdit ==
  ASSUME Inv, NEW o \in Ops, NEW v, stage' = [stage EXCEPT ![o].lease = v], UNCHANGED live
  PROVE  /\ StageShape' /\ Sealing'
         /\ \A p \in Ops : stage'[p].made = stage[p].made /\ stage'[p].reviewer = stage[p].reviewer
         /\ stage'[o].lease = v /\ \A p \in Ops \ {o} : stage'[p].lease = stage[p].lease
<1>1. StageShape /\ Sealing
  BY DEF Inv, Shape
<1>2. stage' = [p \in Ops |-> stage'[p]] /\ stage'[o] = [stage[o] EXCEPT !.lease = v]
      /\ \A p \in Ops \ {o} : stage'[p] = stage[p]
  BY <1>1 DEF StageShape
<1>0. Row(stage[o])
  BY <1>1 DEF StageShape
<1>3. Edited(stage[o], stage'[o], {"lease"}) /\ stage'[o].lease = v
  <2> DEFINE x == stage[o]
  <2>1. Edited(x, [x EXCEPT !.lease = v], {"lease"}) /\ [x EXCEPT !.lease = v].lease = v
    <3>1. Row(x) BY <1>0
    <3> HIDE DEF x
    <3>2. QED BY <3>1, RowEdits
  <2>2. QED BY <1>2, <2>1
<1>4. /\ Row(stage'[o]) /\ stage'[o].made = stage[o].made /\ stage'[o].reviewer = stage[o].reviewer
      /\ stage'[o].packages = stage[o].packages /\ stage'[o].sealed = stage[o].sealed
  BY <1>3 DEF Edited
<1>5. StageShape'
  BY <1>1, <1>2, <1>4 DEF StageShape, Row
<1>6. Sealing'
  BY <1>1, <1>2, <1>4 DEF Sealing
<1>7. QED BY <1>2, <1>3, <1>4, <1>5, <1>6

\* A step that takes or drops a lease and leaves the rest of the host alone.
LEMMA LeaseKeeps ==
  ASSUME Inv, ~At("drifting"), NEW o \in Ops, NEW v, stage' = [stage EXCEPT ![o].lease = v],
         UNCHANGED <<live, consumer, gate, kept, drift>>, Holding',
         CommandShape', Reserved', Captured', s'.captured => s.captured,
         (\A p \in Ops : stage'[p].reviewer = stage[p].reviewer) => Progress'
  PROVE  Inv'
<1>1. StageShape' /\ Sealing' /\ \A p \in Ops : stage'[p].reviewer = stage[p].reviewer
  BY LeaseEdit
<1>2. Shape' /\ BackedUp'
  BY <1>1, LiveSame, KeptSame, GateSame, DriftSame DEF Inv, Shape
<1>3. Opening'
  BY DEF Inv, Opening, LiveWhole, live
<1>4. QED BY <1>1, <1>2, <1>3 DEF Inv

LEMMA LockKeeps == Inv /\ Lock /\ UNCHANGED ops => Inv'
<1> SUFFICES ASSUME Inv, Lock, UNCHANGED ops PROVE Inv' OBVIOUS
<1> DEFINE next == IF s.kind = "bounded" THEN "retarget" ELSE "final"
<1>1. ASSUME NEW step \in {"lockA", "lock"}, NEW to \in Before, Holds(step, to), to \in Reserving => step = "lock"
      PROVE  Inv'
  <2>1. /\ s.at = step /\ s' = [s EXCEPT !.at = to, !.holds = TRUE] /\ UNCHANGED <<live, consumer, gate, kept, drift, ops>>
        /\ holder' = s.op /\ stage[s.op].made /\ stage' = [stage EXCEPT ![s.op].lease = s.target]
    BY <1>1 DEF Holds, At, TakeLease, driftVars
  <2>2. step \in Before
    BY DEF Before, Preparation, Reservation
  <2>3. s.copied = {} /\ s.op \in Ops /\ s.target \in Targets /\ ~At("idle") /\ ~At("drifting")
    BY <2>1, <2>2, InBefore DEF At
  <2>4. CommandShape
    BY DEF Inv, Shape
  <2>5. s' = [kind |-> s.kind, at |-> to, op |-> s.op, target |-> s.target, config |-> s.config,
              captured |-> s.captured, holds |-> TRUE, copied |-> s.copied, late |-> s.late]
    BY <2>1, <2>4 DEF CommandShape
  <2>6. to # "idle" /\ to \notin Cutover \cup Closing
    BY BeforeIsEarly
  <2>7. CommandShape' /\ Progress'
    BY <2>1, <2>3, <2>4, <2>5, <2>6, ProgressNone DEF CommandShape, At
  <2>8. Reserved' /\ Captured'
    BY <1>1, <2>1, <2>3, <2>5, <2>6 DEF Inv, Reserved, Captured, At, Before, Reserving
  <2>9. Holding'
    <3>1. stage'[s.op].made = stage[s.op].made /\ stage'[s.op].lease = s.target
      BY <2>1, <2>3, LeaseEdit
    <3>2. QED BY <2>1, <2>3, <3>1, DriftAssumption DEF Holding, HolderIsNamed
  <2>10. QED BY <2>1, <2>3, <2>5, <2>7, <2>8, <2>9, LeaseKeeps
<1>2. {"target", "retarget", "final", "lockA", "lock"} \subseteq Before /\ "target" \notin Reserving
  BY DEF Before, Preparation, Reservation, Reserving
<1>3. next \in Before
  BY <1>2
<1> HIDE DEF next
<1>4. Holds("lockA", "target") \/ Holds("lock", next)
  BY DEF Lock, next
<1>5. QED BY <1>1, <1>2, <1>3, <1>4

\* Whoever drops a lease drops the holder's own.
LEMMA DropHolds ==
  ASSUME Inv, DropLease
  PROVE  holder \in Ops /\ stage' = [stage EXCEPT ![holder].lease = None] /\ UNCHANGED live /\ Holding'
  BY DEF DropLease, Inv, Holding, HolderIsNamed

LEMMA ReleaseKeeps == Inv /\ Release /\ UNCHANGED ops => Inv'
<1> SUFFICES ASSUME Inv, Release, UNCHANGED ops PROVE Inv' OBVIOUS
<1>1. ASSUME NEW step, NEW to, LetsGo(step, to),
             \/ step = "releaseA" /\ to = "rust"
             \/ step = "release" /\ to = "verified"
      PROVE  Inv'
  <2>1. /\ s.at = step /\ s' = [s EXCEPT !.at = to, !.holds = FALSE] /\ UNCHANGED <<consumer, gate, kept, drift, ops>>
        /\ DropLease
    BY <1>1 DEF LetsGo, At, driftVars
  <2>2. CommandShape /\ Progress /\ Captured /\ Reserved
    BY DEF Inv, Shape
  <2>3. s' = [kind |-> s.kind, at |-> to, op |-> s.op, target |-> s.target, config |-> s.config,
              captured |-> s.captured, holds |-> FALSE, copied |-> s.copied, late |-> s.late]
    BY <2>1, <2>2 DEF CommandShape
  <2>4. CommandShape'
    BY <1>1, <2>1, <2>2, <2>3 DEF CommandShape, At
  <2>5. Reserved' /\ Captured'
    BY <1>1, <2>1, <2>2, <2>3 DEF Reserved, Captured, At, Reserving, Cutover, Closing, Preparation, Reservation
  <2>6. (\A p \in Ops : stage'[p].reviewer = stage[p].reviewer) => Progress'
    <3>1. CASE step = "releaseA"
      BY <1>1, <2>3, <3>1, ProgressNone DEF Cutover, Closing
    <3>2. CASE step = "release"
      <4>1. s.op \in Ops /\ UNCHANGED <<release, manifest, current, codex>>
        BY <2>1, <2>2, <3>2 DEF CommandShape, At, DropLease, live
      <4>2. QED BY <1>1, <2>1, <2>2, <2>3, <3>2, <4>1
                DEF Progress, LiveReviewer, At, Cutover, Closing, FromCopied, FromManifest, FromSwitch, Linked
    <3>3. QED BY <1>1, <3>1, <3>2
  <2>7. ~At("drifting")
    BY <1>1, <2>1 DEF At
  <2>8. QED BY <2>1, <2>3, <2>4, <2>5, <2>6, <2>7, DropHolds, LeaseKeeps
<1>2. QED BY <1>1 DEF Release

LEMMA HolderLeavesKeeps == Inv /\ HolderLeaves => Inv'
<1> SUFFICES ASSUME Inv, HolderLeaves PROVE Inv' OBVIOUS
<1>1. DropLease /\ UNCHANGED <<consumer, gate, kept, drift, s, ops>>
  BY DEF HolderLeaves, driftVars
<1>2. /\ holder \in Ops /\ stage' = [stage EXCEPT ![holder].lease = None] /\ UNCHANGED live /\ Holding'
  BY <1>1, DropHolds
<1>3. StageShape' /\ Sealing' /\ \A p \in Ops : stage'[p].reviewer = stage[p].reviewer
  BY <1>2, LeaseEdit
<1>4. CommandShape' /\ Reserved' /\ Captured' /\ DriftShape'
  BY <1>1 DEF Inv, Shape, CommandShape, Reserved, Captured, DriftShape, At
<1>5. Progress'
  <2>1. s.at \in Cutover \cup Closing => s.op \in Ops
    BY DEF Inv, Shape, CommandShape, At, Cutover, Closing
  <2>2. QED BY <1>1, <1>2, <1>3, <2>1
            DEF Inv, Progress, LiveReviewer, At, live, Cutover, Closing, FromCopied, FromManifest, FromSwitch, Linked
<1>6. Shape' /\ BackedUp'
  BY <1>1, <1>2, <1>3, <1>4, LiveSame, KeptSame, GateSame DEF Inv, Shape
<1>7. Opening'
  BY <1>1, <1>2 DEF Inv, Opening, LiveWhole, live
<1>8. QED BY <1>2, <1>3, <1>4, <1>5, <1>6, <1>7 DEF Inv

LEMMA HolderDiesKeeps == Inv /\ HolderDies => Inv'
<1> SUFFICES ASSUME Inv, HolderDies PROVE Inv' OBVIOUS
<1>1. holder' = 0 /\ UNCHANGED <<stage, live, consumer, gate, kept, drift, s, ops>>
  BY DEF HolderDies, LoseLease, staged, driftVars
<1>2. Holding' /\ StageShape' /\ Sealing'
  BY <1>1 DEF Holding, HolderIsNamed, Inv, Shape, StageShape, Row, Sealing
<1>3. CommandShape' /\ DriftShape'
  BY <1>1 DEF Inv, Shape, CommandShape, DriftShape, At
<1>4. Reserved' /\ Captured' /\ Progress' /\ Opening'
  BY <1>1 DEF Inv, Reserved, Captured, Progress, LiveReviewer, At, live, Opening, LiveWhole
<1>5. Shape' /\ BackedUp'
  BY <1>1, <1>2, <1>3, LiveSame, KeptSame, GateSame DEF Inv, Shape
<1>6. QED BY <1>2, <1>4, <1>5 DEF Inv

LEMMA LeaseTornKeeps == Inv /\ LeaseTorn => Inv'
<1> SUFFICES ASSUME Inv, LeaseTorn PROVE Inv' OBVIOUS
<1>1. /\ s.at \in {"lockA", "lock"} /\ holder = 0
      /\ stage' = [stage EXCEPT ![s.op].lease = Torn]
      /\ UNCHANGED <<live, consumer, gate, kept, drift, holder, s, ops>>
  BY DEF LeaseTorn, TearLease, WriterFree, At, driftVars
<1>2. s.op \in Ops /\ ~At("drifting") /\ s.at \notin Cutover \cup Closing
  BY <1>1 DEF Inv, Shape, CommandShape, At, Cutover, Closing
<1>3. CommandShape' /\ Reserved' /\ Captured'
  BY <1>1 DEF Inv, Shape, CommandShape, Reserved, Captured, At
<1>4. Holding'
  BY <1>1 DEF Holding, HolderIsNamed
<1>5. Progress'
  BY <1>1, <1>2, ProgressNone
<1>6. QED BY <1>1, <1>2, <1>3, <1>4, <1>5, LeaseKeeps

LEMMA CommandsKeep == Inv /\ Owner => Inv'
<1> SUFFICES ASSUME Inv, Owner PROVE Inv' OBVIOUS
<1> USE DriftLimits DEF Inv, Shape, StageShape, LiveShape, GateShape, DriftShape, KeptShape, CommandShape, Holding, HolderIsNamed,
        Sealing, Progress, Reserved, Captured, Opening, BackedUp, Row, LiveWhole, LiveReviewer,
        FromCopied, FromManifest, FromSwitch, Linked, Reserving, Preparation, Reservation, Cutover, Closing,
        At, Goto, host, driftVars, staged, live, Locked, Command, Idle, None, Ops
<1>1. ASSUME NEW t \in Targets, NEW c \in Wanted, Install(t, c) PROVE Inv'
  <2>1. ops + 1 \in Ops /\ ops' = ops + 1 /\ ops' \in 0..MaxOps /\ gate.phase = "open"
    BY <1>1 DEF Install
  <2>2. /\ UNCHANGED <<host, holder>> /\ At("idle")
        /\ s' = [kind |-> "install", at |-> "create", op |-> ops + 1, target |-> t, config |-> c,
                captured |-> FALSE, holds |-> FALSE, copied |-> {}, late |-> FALSE]
    BY <1>1 DEF Install
  <2> HIDE DEF Ops
  <2>3. QED BY <2>1, <2>2
<1>2. ASSUME NEW c \in Wanted, Recover(c) PROVE Inv'
  <2>1. gate.phase # "open" /\ gate.op \in Ops /\ gate.target \in Targets /\ UNCHANGED ops
    BY <1>2 DEF Recover
  <2>2. /\ UNCHANGED <<host, holder>> /\ At("idle")
        /\ s' = [kind |-> "recover", at |-> "create", op |-> gate.op, target |-> gate.target, config |-> c,
                captured |-> FALSE, holds |-> FALSE, copied |-> {}, late |-> FALSE]
    BY <1>2 DEF Recover
  <2> HIDE DEF Ops
  <2>3. QED BY <2>1, <2>2
<1>3. ASSUME NEW t \in Targets, NEW c \in Wanted, Bounded(t, c) PROVE Inv'
  <2>1. gate.phase # "open" /\ gate.op \in Ops /\ UNCHANGED ops
    BY <1>3 DEF Bounded
  <2>2. /\ UNCHANGED <<host, holder>> /\ At("idle")
        /\ s' = [kind |-> "bounded", at |-> "create", op |-> gate.op, target |-> t, config |-> c,
                captured |-> FALSE, holds |-> FALSE, copied |-> {}, late |-> FALSE]
    BY <1>3 DEF Bounded
  <2> HIDE DEF Ops
  <2>3. QED BY <2>1, <2>2
<1>4. CASE DeclareRecovery
  <2>1. /\ At("idle") /\ gate.phase # "open"
        /\ gate' = [phase |-> "recovery-required", op |-> gate.op, target |-> gate.target, digest |-> gate.digest]
        /\ UNCHANGED <<consumer, kept, drift, holder, stage, live, s, ops>>
    BY <1>4 DEF DeclareRecovery
  <2> HIDE DEF Ops
  <2>2. QED BY <2>1
<1>5. QED BY <1>1, <1>2, <1>3, <1>4 DEF Owner

-----------------------------------------------------------------------------
(* Failures and the world outside                                          *)

\* A command that stops, or dies: the host, the gate and the stage stay.
LEMMA EndKeeps ==
  ASSUME Inv, UNCHANGED <<consumer, gate, kept, holder, staged, ops>>,
         drift' = Off \/ (UNCHANGED drift /\ ~At("drifting")),
         s' = Idle \/ (Goto("stopped") /\ ~At("idle"))
  PROVE  Inv'
<1>1. UNCHANGED <<stage, live>>
  BY DEF staged
<1>2. CommandShape /\ KeptShape /\ DriftShape
  BY DEF Inv, Shape
<1>3. CommandShape' /\ s'.at \in {"idle", "stopped"}
      /\ (s'.captured => s.captured /\ s'.at = "stopped") /\ s'.captured \in BOOLEAN
      /\ s'.kind \in {s.kind, None} /\ (s'.at = "idle" => s'.kind = None)
  <2>1. CASE s' = Idle
    BY <1>2, <2>1 DEF CommandShape, Idle, At
  <2>2. CASE Goto("stopped") /\ ~At("idle")
    BY <1>2, <2>2, MoveFields DEF Inv, Captured
  <2>3. QED BY <2>1, <2>2
<1>4. DriftShape' /\ BackedUp'
  <2>1. CASE drift' = Off
    BY <2>1, OffIs DEF DriftShape, BackedUp, Locked
  <2>2. CASE UNCHANGED drift /\ ~At("drifting")
    BY <1>2, <2>2 DEF DriftShape, BackedUp, Locked
  <2>3. QED BY <2>1, <2>2
<1>5. KeptShape'
  BY <1>2 DEF KeptShape
<1>6. Shape' /\ Holding' /\ Sealing'
  BY <1>1, <1>3, <1>4, <1>5, LiveSame, StageSame, GateSame DEF Inv, Shape
<1>7. Progress'
  BY <1>3, ProgressNone DEF Cutover, Closing
<1>8. Reserved'
  BY <1>3 DEF Inv, Reserved, At, Reserving, Cutover, Closing, None
<1>9. Captured'
  BY <1>3 DEF Captured, Preparation, Reservation
<1>10. Opening'
  BY <1>1, <1>3 DEF Inv, Opening, LiveWhole, live
<1>11. QED BY <1>4, <1>6, <1>7, <1>8, <1>9, <1>10 DEF Inv

LEMMA FailuresKeep == Inv /\ (Stops \/ Fails \/ Dies) => Inv'
<1> SUFFICES ASSUME Inv, Stops \/ Fails \/ Dies PROVE Inv' OBVIOUS
<1>1. ASSUME Goto("stopped"), HelperEnds, Working, UNCHANGED <<consumer, gate, kept, holder, staged, ops>>
      PROVE  Inv'
  BY <1>1, EndKeeps DEF HelperEnds, Working, At
<1>2. CASE Stops
  <2>1. Working
    BY <1>2 DEF Stops, Polled, Working, Cutover
  <2>2. QED BY <1>1, <1>2, <2>1 DEF Stops
<1>3. CASE Fails
  BY <1>1, <1>3 DEF Fails
<1>4. CASE Dies
  BY <1>4, EndKeeps DEF Dies
<1>5. QED BY <1>2, <1>3, <1>4

\* The end of a stopped command: the gate is reopened, marked or left.
LEMMA LeaveKeeps == Inv /\ Leave => Inv'
<1> SUFFICES ASSUME Inv, Leave PROVE Inv' OBVIOUS
<1>1. Leaves
  BY DEF Leave, Abort, Mark, GiveUp
<1>2. s.at = "stopped" /\ s' = Idle /\ UNCHANGED <<live, consumer, kept, drift, ops>>
  BY <1>1 DEF Leaves, At, DropLease, staged
<1>3. Holding' /\ StageShape' /\ Sealing'
  <2>1. CASE Held
    <3>1. DropLease
      BY <1>1, <2>1 DEF Leaves
    <3>2. QED BY <3>1, DropHolds, LeaseEdit
  <2>2. CASE ~Held
    BY <1>1, <2>2, StageSame DEF Leaves, staged, Inv, Shape
  <2>3. QED BY <2>1, <2>2
<1>4. GateShape /\ CommandShape /\ Opening
  BY DEF Inv, Shape
<1>5. GateShape' /\ Opening'
  <2>1. ASSUME gate'.phase = "open" => LiveWhole PROVE Opening'
    BY <1>2, <2>1 DEF Opening, LiveWhole, live, Idle
  <2>2. CASE Abort
    <3>1. s.captured /\ gate' = Open
      BY <2>2 DEF Abort, Restorable
    <3>2. gate' = [phase |-> "open", op |-> 0, target |-> None, digest |-> gate.digest]
      BY <1>4, <3>1 DEF GateShape, Open
    <3>3. QED BY <1>4, <2>1, <3>1, <3>2 DEF GateShape, Opening
  <2>3. CASE Mark
    <3>1. gate.phase # "open" /\ gate' = [gate EXCEPT !.phase = "recovery-required"]
      BY <2>3 DEF Mark, Markable
    <3>2. gate' = [phase |-> "recovery-required", op |-> gate.op, target |-> gate.target, digest |-> gate.digest]
      BY <1>4, <3>1, GateEdits
    <3>3. QED BY <1>4, <2>1, <3>1, <3>2 DEF GateShape
  <2>4. CASE GiveUp
    BY <1>4, <2>1, <2>4, GateSame DEF GiveUp, Opening
  <2>5. QED BY <2>2, <2>3, <2>4 DEF Leave
<1>6. CommandShape' /\ DriftShape' /\ KeptShape' /\ BackedUp'
  BY <1>2, KeptSame, DriftSame DEF Inv, Shape, CommandShape, Idle, At
<1>7. Progress' /\ Reserved' /\ Captured'
  BY <1>2 DEF Progress, Reserved, Captured, Idle, At, Reserving, Cutover, Closing, FromCopied,
              FromManifest, FromSwitch, Linked, Preparation, Reservation, None
<1>8. QED BY <1>2, <1>3, <1>5, <1>6, <1>7, LiveSame DEF Inv, Shape

\* An edit marks the process that is about to rename.
LEMMA EditsKeep == Inv /\ Edits /\ UNCHANGED <<holder, ops>> => Inv'
<1> SUFFICES ASSUME Inv, Edits, UNCHANGED <<holder, ops>> PROVE Inv' OBVIOUS
<1>1. UNCHANGED <<stage, live, gate, kept, holder, ops>>
  BY DEF Edits, Edit, staged
<1>2. DriftShape /\ CommandShape /\ KeptShape
  BY DEF Inv, Shape
<1>3. drift' = [at |-> drift.at, op |-> drift.op, target |-> drift.target, desired |-> drift.desired,
                actual |-> drift.actual, raw |-> drift.raw, late |-> drift.at = "publish" \/ drift.late]
  BY <1>2 DEF Edits, Edit, DriftShape
<1>4. s' = [kind |-> s.kind, at |-> s.at, op |-> s.op, target |-> s.target, config |-> s.config,
            captured |-> s.captured, holds |-> s.holds, copied |-> s.copied, late |-> At("rename") \/ s.late]
  BY <1>2 DEF Edits, CommandShape
<1>5. DriftShape' /\ CommandShape' /\ KeptShape' /\ BackedUp'
  BY <1>1, <1>2, <1>3, <1>4 DEF DriftShape, CommandShape, KeptShape, BackedUp, At
<1>6. Shape' /\ Holding' /\ Sealing'
  BY <1>1, <1>5, LiveSame, StageSame, GateSame DEF Inv, Shape
<1>7. /\ s'.at = s.at /\ s'.op = s.op /\ s'.target = s.target /\ s'.kind = s.kind
      /\ s'.captured = s.captured /\ s'.copied = s.copied /\ (s'.at = "rename" => s'.late)
  BY <1>4 DEF At
<1>8. Progress'
  BY <1>1, <1>7 DEF Inv, Progress, LiveReviewer, At, live
<1>9. Reserved' /\ Captured'
  BY <1>1, <1>7 DEF Inv, Reserved, Captured, At
<1>10. Opening'
  BY <1>1, <1>7 DEF Inv, Opening, LiveWhole, live
<1>11. QED BY <1>5, <1>6, <1>8, <1>9, <1>10 DEF Inv

LEMMA OutsideKeeps == Inv /\ (Outside \/ RunnerUpdated) => Inv'
<1> SUFFICES ASSUME Inv, (Updates /\ UNCHANGED <<holder, ops>>) \/ RunnerUpdated PROVE Inv'
  BY EditsKeep DEF Outside
<1>1. UNCHANGED <<stage, release, manifest, current, codex, consumer, gate, kept, drift, holder, s, ops>>
  BY DEF Updates, RunnerUpdated, SelfUpdate, Updated, driftVars
<1>2. Shape'
  BY <1>1 DEF Inv, Shape, StageShape, Row, LiveShape, GateShape, DriftShape, KeptShape, CommandShape, At
<1>3. Holding' /\ Sealing' /\ BackedUp'
  BY <1>1, StageSame, KeptSame DEF Inv, Shape
<1>4. Progress' /\ Reserved' /\ Captured' /\ Opening'
  BY <1>1 DEF Inv, Progress, LiveReviewer, Reserved, Captured, Opening, LiveWhole, At
<1>5. QED BY <1>2, <1>3, <1>4 DEF Inv

-----------------------------------------------------------------------------
(* The theorems                                                            *)

LEMMA InitEstablishes == Init => Inv
<1> SUFFICES ASSUME Init PROVE Inv OBVIOUS
<1>1. s = Idle /\ ops = 0 /\ drift = Off /\ holder = 0
  BY DEF Init, DriftInit, StageInit
<1>2. gate = [phase |-> "open", op |-> 0, target |-> None, digest |-> Digest[consumer]]
      /\ kept = [b \in Backups |-> [o \in Ops |-> None]]
  BY DEF Init, DriftInit
<1>3. /\ stage = [o \in Ops |-> NoStage] /\ current = FirstTarget /\ codex = Whole
      /\ release = [t \in Targets |-> [source |-> t = current, reviewer |-> IF t = current THEN FirstBuild ELSE NoBuild]]
      /\ manifest = [t \in Targets |-> release[t].reviewer]
  BY DEF Init, StageInit
<1>4. NoStage.packages = {} /\ NoStage.sealed = FALSE /\ Row(NoStage)
  BY DEF NoStage, Row
<1>5. StageShape
  BY <1>3, <1>4 DEF StageShape
<1>6. LiveShape
  BY <1>3, StageAssumption DEF LiveShape, Whole
<1>7. GateShape /\ KeptShape /\ DriftShape
  BY <1>1, <1>2, OffIs DEF GateShape, KeptShape, DriftShape, Locked
<1>8. CommandShape
  BY <1>1, DriftLimits DEF CommandShape, Idle, At
<1>9. Holding /\ Sealing /\ BackedUp
  BY <1>1, <1>3, <1>4, OffIs DEF Holding, HolderIsNamed, Sealing, BackedUp
<1>10. Progress /\ Reserved /\ Captured
  BY <1>1 DEF Progress, Reserved, Captured, Idle, At, Reserving, Cutover, Closing, FromCopied,
              FromManifest, FromSwitch, Linked, Preparation, Reservation, None
<1>11. Opening
  <2>1. FirstTarget \in Targets /\ FirstBuild # NoBuild
    BY StageAssumption DEF NoBuild
  <2>2. release[current].source = TRUE /\ release[current].reviewer = FirstBuild
    BY <1>3, <2>1
  <2>3. manifest[current] = release[current].reviewer
    BY <1>3, <2>1
  <2>4. QED BY <1>3, <2>1, <2>2, <2>3 DEF Opening, LiveWhole
<1>12. QED BY <1>5, <1>6, <1>7, <1>8, <1>9, <1>10, <1>11 DEF Inv, Shape

LEMMA StepKeeps == Inv /\ [Next]_vars => Inv'
<1> SUFFICES ASSUME Inv, [Next]_vars PROVE Inv' OBVIOUS
<1>1. CASE Owner
  BY <1>1, CommandsKeep
<1>2. CASE CommandStep
  BY <1>2, StageStepKeeps, GateStepKeeps, CaptureKeeps, ProveKeeps, DriftKeeps, HelperKeeps, DriftedKeeps,
     QuiesceKeeps, LockKeeps, FinalKeeps, CopyPartKeeps, ConsumeKeeps, PublishKeeps, LookKeeps, RenameKeeps, ReleaseKeeps,
     VerifiedKeeps, ResumeKeeps DEF CommandStep
<1>3. CASE Stops \/ Fails \/ Dies
  BY <1>3, FailuresKeep
<1>4. CASE Leave
  BY <1>4, LeaveKeeps
<1>5. CASE HelperDies \/ HolderDies \/ HolderLeaves \/ LeaseTorn
  BY <1>5, HelperDiesKeeps, HolderDiesKeeps, HolderLeavesKeeps, LeaseTornKeeps
<1>6. CASE Outside \/ RunnerUpdated
  BY <1>6, OutsideKeeps
<1>7. CASE UNCHANGED vars
  <2>1. UNCHANGED <<stage, release, manifest, current, codex, consumer, gate, kept, drift, holder, s, ops>>
    BY <1>7 DEF vars, driftVars, staged, live
  <2>2. Shape'
    BY <2>1 DEF Inv, Shape, StageShape, Row, LiveShape, GateShape, DriftShape, KeptShape, CommandShape, At
  <2>3. Holding' /\ Sealing' /\ BackedUp'
    BY <2>1, StageSame, KeptSame DEF Inv, Shape
  <2>4. Progress' /\ Reserved' /\ Captured' /\ Opening'
    BY <2>1 DEF Inv, Progress, LiveReviewer, Reserved, Captured, Opening, LiveWhole, At
  <2>5. QED BY <2>2, <2>3, <2>4 DEF Inv
<1>8. QED BY <1>1, <1>2, <1>3, <1>4, <1>5, <1>6, <1>7 DEF Next, Faults

(* The state of an installation has the shape its steps rely on, and every
   step of the command has behind it what the steps before it made
   (install_preflight.py, relay-deploy.py). *)
THEOREM InstallInvariance == Spec => []Inv
<1>1. QED BY InitEstablishes, StepKeeps, PTL DEF Spec

(* Admission is open only over a whole installation, whatever the number of
   installations, builds and failures (install_preflight.py:634). *)
THEOREM OpenOverWhole == Spec => []OpenIsInstalled
<1>1. Inv => OpenIsInstalled
  BY DEF Inv, Opening, LiveWhole, OpenIsInstalled
<1>2. QED BY <1>1, InstallInvariance, PTL

(* Whoever holds the Writer flock is named by the lease in its operation's
   stage (install_preflight.py:229-286). *)
THEOREM LeaseNamesHolder == Spec => []HolderIsNamed
<1>1. Inv => HolderIsNamed
  BY DEF Inv, Holding
<1>2. QED BY <1>1, InstallInvariance, PTL

\* Three steps write the consumer, two a backup.
LEMMA ConsumerWriters ==
  ASSUME Next
  PROVE  /\ UNCHANGED consumer \/ Rename \/ (Helper /\ Restore) \/ Edit
         /\ UNCHANGED kept \/ Publish \/ (Helper /\ Backup)
<1>1. CASE Owner
  BY <1>1 DEF Owner, Install, Recover, Bounded, DeclareRecovery, Command, host, driftVars
<1>2. CASE CommandStep
  <2>1. CASE Stage \/ Capture \/ Prove \/ Final \/ CopyPart \/ Consume \/ Look
    BY <2>1 DEF Stage, Capture, Prove, Final, CopyPart, Consume, Look, Does, host, driftVars
  <2>2. CASE Bind \/ Drain \/ Applying \/ Retarget \/ Reapply \/ Verified \/ Quiesce \/ Resume
    BY <2>2 DEF Bind, Drain, Applying, Retarget, Reapply, Verified, Quiesce, Resume, Gates
  <2>3. CASE Drift \/ Drifted \/ Lock \/ Release
    BY <2>3 DEF Drift, Drifted, Lock, Release, Holds, LetsGo, driftVars
  <2>4. CASE Helper
    BY <2>4 DEF Helper, DriftStep, Unchanged, Recognise, Reserve, Backup, Refused, Restore
  <2>5. CASE Publish \/ Rename
    BY <2>5 DEF Publish, Rename
  <2>6. QED BY <1>2, <2>1, <2>2, <2>3, <2>4, <2>5 DEF CommandStep
<1>3. CASE Stops \/ Leave \/ Faults \/ HolderLeaves \/ RunnerUpdated
  BY <1>3 DEF Stops, Leave, Abort, Mark, GiveUp, Leaves, Faults, Fails, HelperDies, DriftDies, Dies, HolderDies,
              LeaseTorn, HolderLeaves, RunnerUpdated, driftVars
<1>4. CASE Outside
  BY <1>4 DEF Outside, Edits, Edit, Updates, driftVars
<1>5. QED BY <1>1, <1>2, <1>3, <1>4 DEF Next

\* A backup is written once, or again with what it has.
LEMMA BackupsStay ==
  ASSUME Inv, Next, NEW b \in Backups, NEW o \in Ops
  PROVE  kept[b][o] \in {None, kept'[b][o]}
<1>1. KeptShape /\ CommandShape /\ DriftShape
  BY DEF Inv, Shape
<1>2. CASE UNCHANGED kept
  BY <1>2
<1>3. CASE Publish /\ ~UNCHANGED kept
  <2>1. kept["before"][s.op] \in {None, consumer} /\ kept' = [kept EXCEPT !["before"][s.op] = consumer]
    BY <1>3 DEF Publish
  <2>2. QED BY <1>1, <2>1 DEF KeptShape
<1>4. CASE Helper /\ Backup
  <2>1. kept["drift"][drift.op] = None /\ kept' = [kept EXCEPT !["drift"][drift.op] = drift.actual]
    BY <1>4 DEF Backup
  <2>2. QED BY <1>1, <2>1 DEF KeptShape
<1>5. QED BY <1>2, <1>3, <1>4, ConsumerWriters

(* No step of the installer replaces bytes of the live consumer that no
   backup has, unless they were written after its last look, and no backup
   is written over (consumer_drift.py:308-316, publish_git_consumer.py:299). *)
THEOREM EditsAreBackedUp == Spec => EditsAreKept
<1> DEFINE Kept == /\ consumer' # consumer /\ ~Edit =>
                        s.late \/ drift.late \/ \E b \in Backups, o \in Ops : kept'[b][o] = consumer
                   /\ \A b \in Backups, o \in Ops : kept[b][o] \in {None, kept'[b][o]}
<1>1. Inv /\ [Next]_vars => [Kept]_vars
  <2>1. ASSUME Inv, Next, consumer' # consumer, ~Edit, ~s.late, ~drift.late
        PROVE  \E b \in Backups, o \in Ops : kept'[b][o] = consumer
    <3>1. CASE Rename
      <4>1. s.op \in Ops /\ "before" \in Backups /\ kept["before"][s.op] = consumer
        BY <2>1, <3>1 DEF Rename, At, Inv, Shape, CommandShape, Progress, Backups
      <4>2. QED BY <3>1, <4>1 DEF Rename
    <3>2. CASE Helper /\ Restore
      <4>1. drift.at = "publish" /\ kept' = kept
        BY <3>2 DEF Restore
      <4>2. drift.op \in Ops /\ "drift" \in Backups /\ kept["drift"][drift.op] = consumer
        BY <2>1, <4>1 DEF Inv, Shape, DriftShape, Locked, BackedUp, Backups
      <4>3. QED BY <4>1, <4>2
    <3>3. QED BY <2>1, <3>1, <3>2, ConsumerWriters
  <2>2. QED BY <2>1, BackupsStay
<1>2. QED BY <1>1, InstallInvariance, PTL DEF Spec, EditsAreKept

=============================================================================
