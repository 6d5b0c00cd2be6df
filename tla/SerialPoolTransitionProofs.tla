----------------------- MODULE SerialPoolTransitionProofs -----------------------
(***************************************************************************)
(* Theorems about SerialPoolTransition, for all targets and any number of  *)
(* failures.  The command is repeated by the owner from whatever is left,  *)
(* so everything it relies on is tied to the durable phase: where a        *)
(* command may be in each phase (Course), what the phase says of the old   *)
(* runner (Quiet) and of the original context (Sealed), and how often the  *)
(* registration was deleted (Counted).                                     *)
(***************************************************************************)
EXTENDS SerialPoolTransition, TLAPS

Shape == /\ oldGate = [phase |-> oldGate.phase, snap |-> oldGate.snap]
         /\ oldGate.phase \in {"open", "quiesced", "drained", "applying"}
         /\ legacy = [unit |-> legacy.unit, enabled |-> legacy.enabled, job |-> legacy.job]
         /\ legacy.enabled \in BOOLEAN
         /\ coord = [at |-> coord.at, target |-> coord.target,
                     forward |-> coord.forward, bound |-> coord.bound]
         /\ attempt \in BOOLEAN /\ deletes \in {0, 1}

Replaceable == {"stopped", "target-ready", "remove-intent", "retired"}
Closing  == {"quiesce", "drain", "applying", "snapshot", "copy", "receipt", "prepared"}
Stopping == {"look", "freeze", "inspect", "disable", "thaw", "stopped"}
Changing == {"installed", "gate", "backend", "replace", "reconcile", "check", "finish",
             "verify", "resume"}

\* Where a command may be in each phase.
Course == /\ coord.at \in Closing => phase = "reserved"
          /\ At("advance") => phase \notin {"none", "reserved"}
          /\ At("stop") => phase \in {"prepared", "stop-intent"}
          /\ coord.at \in Stopping => phase = "stop-intent"
          /\ coord.at \in Changing => phase \in Replaceable
          /\ At("ready") => phase = "stopped"
          /\ At("remove") => phase \in Replaceable
          /\ coord.at \in {"delete", "deleted"} => phase = "remove-intent"
          /\ phase \in Phases

\* The old runner is down before the target is installed.
Quiet == /\ host # "original" => phase \in Replaceable
         /\ phase \in Replaceable => LegacyStopped

\* The original gate is closed and silent before its context is copied, and sealed with the copy.
SealedGate == oldGate = [phase |-> "applying", snap |-> TRUE] /\ ~attempt
Sealed == /\ At("applying") => oldGate.phase \in {"drained", "applying"} /\ ~attempt
          /\ At("drain") => oldGate.phase # "open"
          /\ At("snapshot") => oldGate.phase = "applying" /\ ~attempt
          /\ coord.at \in {"copy", "receipt", "prepared"} => SealedGate
          /\ coord.at \in {"receipt", "prepared"} => copies = Whole
          /\ At("prepared") => receipt = oldGate
          /\ phase \notin {"none", "reserved"} => SealedGate /\ copies = Whole /\ receipt = oldGate

\* The reservation of the removal precedes its one request.
Counted == /\ phase \notin {"remove-intent", "retired"} => deletes = 0
           /\ At("delete") => deletes = 0

Inv == Shape /\ Course /\ Quiet /\ Sealed /\ Counted

-----------------------------------------------------------------------------

LEMMA Initially == Init => Inv
<1> SUFFICES ASSUME Init PROVE Inv OBVIOUS
<1>1. legacy = [unit |-> legacy.unit, enabled |-> legacy.enabled, job |-> legacy.job] /\ legacy.enabled = TRUE
  BY DEF Init
<1>2. coord.at = "idle" /\ coord = [at |-> coord.at, target |-> coord.target,
                                     forward |-> coord.forward, bound |-> coord.bound]
  BY DEF Init, Idle
<1>3. Shape
  BY <1>1, <1>2 DEF Init, Shape
<1>4. Course /\ Quiet /\ Sealed /\ Counted
    BY <1>2 DEF Init, Course, Quiet, Sealed, Counted, At, Closing, Stopping, Changing,
     Replaceable, Phases
<1>5. QED BY <1>3, <1>4 DEF Inv

LEMMA Unchanged == Inv /\ UNCHANGED vars => Inv'
    BY DEF vars, durable, gates, outside, Inv, Shape, Course, Quiet, Sealed, SealedGate, Counted,
     At, Closing, Stopping,
     Changing, Replaceable, Phases, Worker, LegacyStopped, Whole

\* Each step of the owner's command.
LEMMA OwnerKeeps == Inv /\ Owner => Inv'
<1> SUFFICES ASSUME Inv, Owner PROVE Inv' OBVIOUS
<1> USE DEF Inv, Shape, Course, Quiet, Sealed, SealedGate, Counted, At, Goto, Closing, Stopping, Changing,
        Replaceable, Phases, Worker, LegacyStopped, Whole, durable, gates, outside
<1>1. CASE \E t \in Targets : Start(t)
  BY <1>1 DEF Start, Idle
<1>2. CASE Reserve
  BY <1>2 DEF Reserve
<1>3. CASE Quiesce
  BY <1>3 DEF Quiesce, SetGate
<1>4. CASE Drain
  BY <1>4 DEF Drain, SetGate
<1>5. CASE Applying
  BY <1>5 DEF Applying, SetGate
<1>6. CASE Snapshot
  BY <1>6 DEF Snapshot
<1>7. CASE Copy
  BY <1>7 DEF Copy
<1>8. CASE Receipt
  BY <1>8 DEF Receipt
<1>9. CASE Prepared
  BY <1>9 DEF Prepared, SetPhase
<1>10. CASE Advance
  BY <1>10 DEF Advance, Move, Advanceable
<1>11. CASE StopIntent
  <2>1. coord.at = "stop"
    BY <1>11 DEF StopIntent
  <2>2. CASE LegacyStopped /\ SetPhase("stopped", "installed")
    BY <2>1, <2>2 DEF SetPhase
  <2>3. CASE phase = "prepared" /\ SetPhase("stop-intent", "look")
    BY <2>1, <2>3 DEF SetPhase
  <2>4. QED BY <1>11, <2>2, <2>3 DEF StopIntent
<1>12. CASE Look
  BY <1>12 DEF Look, Move
<1>13. CASE Freeze
  <2>1. coord.at = "freeze"
    BY <1>13 DEF Freeze
  <2>2. CASE SetUnit("inactive", FALSE, "stopped")
    BY <2>1, <2>2 DEF SetUnit
  <2>3. CASE SetUnit("frozen", legacy.enabled, "inspect")
    BY <2>1, <2>3 DEF SetUnit
  <2>4. QED BY <1>13, <2>2, <2>3 DEF Freeze
<1>14. CASE Kill
  BY <1>14 DEF Kill, SetUnit
<1>15. CASE Disable
  BY <1>15 DEF Disable, SetUnit
<1>16. CASE Thaw
  BY <1>16 DEF Thaw, SetUnit
<1>17. CASE Stopped
  BY <1>17 DEF Stopped, SetPhase
<1>18. CASE TargetInstalled
  BY <1>18 DEF TargetInstalled
<1>19. CASE WriteNewGate
  BY <1>19 DEF WriteNewGate
<1>20. CASE Backend
  <2>1. CASE At("backend")
    <3>1. /\ host' = "mixed" /\ phase \in Replaceable
          /\ coord' = [coord EXCEPT !.at = "replace"] /\ UNCHANGED <<durable, gates, legacy, outside>>
      BY <1>20, <2>1 DEF Backend, BackendProof
    <3>2. QED BY <2>1, <3>1
  <2>2. CASE At("replace")
    <3>1. /\ phase \in Replaceable
          /\ coord' = [coord EXCEPT !.at = "reconcile", !.bound = TRUE]
          /\ UNCHANGED <<durable, gates, legacy, outside>>
      BY <1>20, <2>2 DEF Backend
    <3>2. QED BY <2>2, <3>1
  <2>3. QED BY <1>20, <2>1, <2>2 DEF Backend
<1>21. CASE Reconcile
  <2>1. coord.at = "reconcile" /\ UNCHANGED <<durable, gates, host, legacy, attempt, deletes>>
    BY <1>21 DEF Reconcile
  <2>2. \E next \in {"check", "finish"} : coord' = [coord EXCEPT !.at = next]
    BY <1>21 DEF Reconcile
  <2>3. QED BY <2>1, <2>2
<1>22. CASE Check
  BY <1>22 DEF Check
<1>23. CASE Finish
  BY <1>23 DEF Finish, Move
<1>24. CASE TargetReady
  BY <1>24 DEF TargetReady, SetPhase
<1>25. CASE RemoveIntent
  BY <1>25 DEF RemoveIntent, SetPhase
<1>26. CASE Delete
  BY <1>26 DEF Delete
<1>27. CASE Deleted
  BY <1>27 DEF Deleted, SetPhase
<1>28. CASE Verify
  BY <1>28 DEF Verify, SetNewGate, Move
<1>29. CASE Resume
  BY <1>29 DEF Resume, Idle
<1>30. CASE Raise
  BY <1>30 DEF Raise, Leave, Thawed, Idle
<1>31. QED
    BY <1>1, <1>2, <1>3, <1>4, <1>5, <1>6, <1>7, <1>8, <1>9, <1>10, <1>11, <1>12, <1>13, <1>14,
     <1>15, <1>16, <1>17, <1>18, <1>19, <1>20, <1>21, <1>22, <1>23, <1>24, <1>25, <1>26, <1>27,
     <1>28, <1>29, <1>30 DEF Owner

\* A command that ends otherwise.
LEMMA EndKeeps == Inv /\ (Fail \/ Die) => Inv'
<1> SUFFICES ASSUME Inv, Fail \/ Die PROVE Inv' OBVIOUS
<1> USE DEF Inv, Shape, Course, Quiet, Sealed, SealedGate, Counted, At, Closing, Stopping, Changing, Replaceable,
        Phases, Worker, LegacyStopped, Whole, durable, gates, outside, Idle
<1>1. CASE Fail
  BY <1>1 DEF Fail, Leave, Thawed
<1>2. CASE Die
  BY <1>2 DEF Die
<1>3. QED BY <1>1, <1>2

\* systemd, GitHub, jobs, reboots and other installations.
LEMMA WorldKeeps == Inv /\ World => Inv'
<1> SUFFICES ASSUME Inv, World PROVE Inv' OBVIOUS
<1> USE DEF Inv, Shape, Course, Quiet, Sealed, SealedGate, Counted, At, Closing, Stopping, Changing, Replaceable,
        Phases, Worker, LegacyStopped, Whole, durable, gates, outside
<1>1. CASE Acquire \/ Spawn \/ EndJob
  BY <1>1 DEF Acquire, Spawn, EndJob, SetJob, Listens
<1>2. CASE BeginAttempt
  BY <1>2 DEF BeginAttempt
<1>3. CASE EndAttempt
  BY <1>3 DEF EndAttempt
<1>4. CASE StopDone
  BY <1>4 DEF StopDone
<1>5. CASE PoolCrash \/ PoolStart \/ PeerApply
  BY <1>5 DEF PoolCrash, PoolStart, PeerApply, SetPool
<1>6. CASE Reboot
  BY <1>6 DEF Reboot, Idle
<1>7. CASE Expire
  BY <1>7 DEF Expire
<1>8. QED BY <1>1, <1>2, <1>3, <1>4, <1>5, <1>6, <1>7 DEF World

\* Phase, command, runner, gate and request count fit together (serial_pool_transition.py under
\* every failure of its command and its host).
THEOREM TransitionInvariance == Spec => []Inv
<1>1. Inv /\ [Next]_vars => Inv'
  BY OwnerKeeps, EndKeeps, WorldKeeps, Unchanged DEF Next
<1>2. QED BY Initially, <1>1, PTL DEF Spec

\* SERIAL and pool capacity are never side by side.
THEOREM CapacityIsOne == Spec => []OneCapacity
<1>1. Inv => OneCapacity
  BY DEF Inv, Quiet, OneCapacity
<1>2. QED BY <1>1, TransitionInvariance, PTL

\* The original context stays readable from the first irreversible step on.
THEOREM OriginalStaysReadable == Spec => []OriginalReadable
<1>1. Inv => OriginalReadable
  BY DEF Inv, Quiet, Sealed, SealedGate, Replaceable, OriginalReadable
<1>2. QED BY <1>1, TransitionInvariance, PTL

\* However often the owner applies again, one DELETE is sent.
THEOREM RegistrationDeletedOnce == Spec => []DeletedOnce
<1>1. Inv => DeletedOnce
  BY DEF Inv, Shape, DeletedOnce
<1>2. QED BY <1>1, TransitionInvariance, PTL
=============================================================================
