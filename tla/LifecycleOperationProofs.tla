----------------------- MODULE LifecycleOperationProofs -----------------------
(***************************************************************************)
(* Proofs about AdmissionGate and LifecycleOperation, for every set of runs, *)
(* slots, operations, targets and snapshots and every bound on the faults.  *)
(* First the gate: its inductive invariant IInv is proved action by action,  *)
(* its types, then the invariant of the run that moves, then the            *)
(* exclusiveness of the slots, which only a fresh admission can disturb.     *)
(* Then the lifecycle: every step of it is a step of the gate or leaves gate *)
(* and attempts alone, so IInv is at hand; LInv is proved beside it, and the *)
(* promises of QuietUpgrade from both.                                      *)
(***************************************************************************)
EXTENDS LifecycleOperation, TLAPS

-----------------------------------------------------------------------------
(* The gate and the attempts *)


(* Every field update the actions apply to a Writer record keeps its type.  *)
LEMMA RecordUpdates ==
  ASSUME NEW x \in WriterRecords, NEW left \in SUBSET Effects
  PROVE  /\ [x EXCEPT !.ready = TRUE] \in WriterRecords
         /\ [x EXCEPT !.pending = left] \in WriterRecords
         /\ [x EXCEPT !.life = "complete"] \in WriterRecords
         /\ [x EXCEPT !.outcome = "BLOCKED"] \in WriterRecords
         /\ [x EXCEPT !.outcome = "BLOCKED", !.pending = left] \in WriterRecords
         /\ [x EXCEPT !.outcome = "IMPLEMENTED", !.handoff = "open", !.pending = left] \in WriterRecords
         /\ [x EXCEPT !.life = "complete", !.pending = left] \in WriterRecords
         /\ [x EXCEPT !.life = "complete", !.outcome = "BLOCKED", !.pending = left] \in WriterRecords
         /\ [x EXCEPT !.life = "complete", !.handoff = "done", !.pending = left] \in WriterRecords
         /\ [x EXCEPT !.pending = left, !.republished = TRUE] \in WriterRecords
         /\ [x EXCEPT !.recovery = "reserved"] \in WriterRecords
         /\ [x EXCEPT !.recovery = "published", !.pending = left] \in WriterRecords
         /\ [x EXCEPT !.recovery = "complete", !.pending = left] \in WriterRecords
  BY ZenonT(60) DEF WriterRecords, Outcomes

(* So do the named updates of a Writer record.                              *)
LEMMA RecordOperators ==
  ASSUME NEW x \in WriterRecords
  PROVE  /\ \A superseded \in BOOLEAN : /\ Implemented(x, superseded) \in WriterRecords
                                       /\ Blocked(x, superseded) \in WriterRecords
                                       /\ HandedOff(x, superseded) \in WriterRecords
         /\ \A published \in BOOLEAN, left \in Unsent("complete") :
              Released(x, published, left) \in WriterRecords
<1>1. x.pending \in SUBSET Effects
  BY SMT DEF WriterRecords
<1>2. \A some : x.pending \ some \in SUBSET Effects
  BY <1>1
<1>3. ASSUME NEW superseded \in BOOLEAN PROVE Implemented(x, superseded) \in WriterRecords
  BY <1>2, RecordUpdates DEF Implemented
<1>4. ASSUME NEW superseded \in BOOLEAN PROVE Blocked(x, superseded) \in WriterRecords
  BY <1>2, RecordUpdates DEF Blocked
<1>6. ASSUME NEW superseded \in BOOLEAN PROVE HandedOff(x, superseded) \in WriterRecords
  BY <1>2, RecordUpdates DEF HandedOff
<1>5. ASSUME NEW published \in BOOLEAN, NEW left \in Unsent("complete")
      PROVE  Released(x, published, left) \in WriterRecords
  <2>1. left \in SUBSET Effects
    BY DEF Unsent, Effects
  <2> QED BY <2>1, ZenonT(60) DEF Released, WriterRecords, Outcomes
<1> QED BY <1>3, <1>4, <1>5, <1>6

(* What a stopped Outcome or finish leaves are effects.                     *)
LEMMA LeftAreEffects ==
  /\ \A life : Unsent(life) \subseteq SUBSET Effects
  /\ Unfinished \subseteq SUBSET Effects
BY SMT DEF Unsent, Unfinished, Effects

(* The records a Writer admission creates are Writer records.               *)
LEMMA NewRecords ==
  ASSUME NEW s \in Slots
  PROVE  Reserved(s) \in WriterRecords /\ Refused(s) \in WriterRecords
BY Zenon DEF Reserved, Refused, NoRecord, WriterRecords, Outcomes

(* Every field update the actions apply to a journal keeps its type.        *)
LEMMA JournalUpdates ==
  ASSUME NEW y \in Journals, NEW outcome \in Outcomes \cup {"none"}
  PROVE  /\ [y EXCEPT !.exec = "null"] \in Journals
         /\ [y EXCEPT !.exec = "reserved"] \in Journals
         /\ [y EXCEPT !.exec = "refused"] \in Journals
         /\ [y EXCEPT !.exec = "unproven"] \in Journals
         /\ \A success \in BOOLEAN : [y EXCEPT !.exec = "reaped", !.success = success] \in Journals
         /\ [y EXCEPT !.collected = TRUE] \in Journals
         /\ [y EXCEPT !.diagnostic = TRUE] \in Journals
         /\ [y EXCEPT !.diagnostic = TRUE, !.collected = FALSE] \in Journals
         /\ [y EXCEPT !.outcome = outcome] \in Journals
         /\ [y EXCEPT !.outcome = "IMPLEMENTED", !.diagnostic = FALSE] \in Journals
         /\ [y EXCEPT !.outcome = "IMPLEMENTED", !.diagnostic = FALSE, !.collected = FALSE] \in Journals
  BY ZenonT(60) DEF Journals, Outcomes

(* What the type invariant says of one run.                                 *)
LEMMA RunTyped ==
  ASSUME TypeOK, NEW r \in Runs
  PROVE  /\ rec[r] \in WriterRecords
         /\ jrn[r] \in Journals
         /\ rec[r].pending \in SUBSET Effects
         /\ rec[r].outcome \in Outcomes \cup {"none"}
  BY SMT DEF TypeOK, WriterRecords

USE DEF KeepWorker, Goto, At, runVars

(* Admission keeps the type invariant.                                      *)
LEMMA TypeAdmission ==
  ASSUME TypeOK, NEW r \in Runs, Admission(r)
  PROVE  TypeOK'
<1> USE FaultsAssumption DEF TypeOK, ControllerSteps
<1>r. TypeOK
  OBVIOUS
<1>1. ASSUME NEW s \in Slots, Admit(r, s) PROVE TypeOK'
  <2>1. [Reserved(s) EXCEPT !.ready = TRUE] \in WriterRecords
    BY RunTyped, RecordUpdates, NewRecords
  <2> QED BY <1>1, <2>1, SMT DEF Admit
<1>2. ASSUME NEW s \in Slots, AdmitBlocked(r, s) PROVE TypeOK'
  <2>1. [Refused(s) EXCEPT !.outcome = "BLOCKED"] \in WriterRecords
    BY RunTyped, RecordUpdates, NewRecords
  <2> QED BY <1>2, <2>1, SMT DEF AdmitBlocked
<1>3. ASSUME NEW s \in Slots, AdmitInterrupted(r, s) PROVE TypeOK'
  <2>1. Reserved(s) \in WriterRecords
    BY RunTyped, RecordOperators, NewRecords
  <2> QED BY <1>3, <2>1, SMT DEF AdmitInterrupted, Fault
<1>4. ASSUME NEW s \in Slots, AdmitUnconsumed(r, s) PROVE TypeOK'
  <2>1. \A published \in BOOLEAN, left \in Unsent("complete") :
          Released(Reserved(s), published, left) \in WriterRecords
    BY RunTyped, RecordOperators, NewRecords
  <2> QED BY <1>4, <2>1, SMT DEF AdmitUnconsumed, Fault
<1>5. ASSUME NEW s \in Slots, AdmitBlockedInterrupted(r, s) PROVE TypeOK'
  <2>1. \A left \in Unsent("blocked") : [Refused(s) EXCEPT !.pending = left] \in WriterRecords
    BY RecordUpdates, NewRecords, LeftAreEffects
  <2>2. rec' \in [Runs -> WriterRecords]
    BY <1>5, <2>1, SMT DEF AdmitBlockedInterrupted, Fault
  <2> QED BY <1>5, <2>2, SMT DEF AdmitBlockedInterrupted, Fault
<1>6. CASE Replay(r)
  <2>1. [rec[r] EXCEPT !.ready = TRUE] \in WriterRecords
    BY RunTyped, RecordUpdates
  <2> QED BY <1>6, <2>1, SMT DEF Replay
<1>7. CASE ReplayRefused(r)
  <2>1. \A superseded \in BOOLEAN : Blocked(rec[r], superseded) \in WriterRecords
    BY RunTyped, RecordOperators
  <2> QED BY <1>7, <2>1, SMT DEF ReplayRefused
<1>8. CASE ReplayUnconsumed(r)
  <2>1. \A published \in BOOLEAN, left \in Unsent("complete") :
          Released(rec[r], published, left) \in WriterRecords
    BY RunTyped, RecordOperators
  <2> QED BY <1>8, <2>1, SMT DEF ReplayUnconsumed, Fault
<1>9. CASE ReplayRefusedInterrupted(r)
  <2>1. PICK left \in Unsent(rec[r].life) : rec' = [rec EXCEPT ![r].pending = @ \cup left]
    BY <1>9 DEF ReplayRefusedInterrupted
  <2>2. [rec[r] EXCEPT !.pending = rec[r].pending \cup left] \in WriterRecords
    BY RunTyped, RecordUpdates, LeftAreEffects DEF Effects
  <2>3. rec' \in [Runs -> WriterRecords]
    BY <2>1, <2>2, SMT
  <2> QED BY <1>9, <2>3, SMT DEF ReplayRefusedInterrupted, Fault
<1> QED BY <1>1, <1>2, <1>3, <1>4, <1>5, <1>6, <1>7, <1>8, <1>9 DEF Admission

(* The controller's own steps keep the type invariant.                      *)
LEMMA TypeController ==
  ASSUME TypeOK, NEW r \in Runs, Controller(r)
  PROVE  TypeOK'
<1> USE FaultsAssumption DEF TypeOK, ControllerSteps
<1>r. TypeOK
  OBVIOUS
<1>1. CASE Begin(r)
  <2>1. [jrn[r] EXCEPT !.exec = "null"] \in Journals
    BY RunTyped, JournalUpdates
  <2> QED BY <1>1, <2>1, SMT DEF Begin
<1>2. CASE MissingJournal(r)
  BY <1>2, SMT DEF MissingJournal, Journals
<1>3. CASE ReplayOutcome(r)
  BY <1>3, SMT DEF ReplayOutcome, Journals
<1>4. CASE Continue(r)
  BY <1>4, SMT DEF Continue, Journals
<1>5. CASE ReexecutionRefused(r)
  BY <1>5, SMT DEF ReexecutionRefused, Journals
<1>6. CASE RestoreOutcome(r)
  <2>1. [jrn[r] EXCEPT !.outcome = "IMPLEMENTED", !.diagnostic = FALSE] \in Journals
    BY RunTyped, JournalUpdates
  <2> QED BY <1>6, <2>1, SMT DEF RestoreOutcome
<1>7. CASE PreflightPassed(r)
  BY <1>7, SMT DEF PreflightPassed, Journals
<1>8. CASE Prepare(r)
  <2>1. [jrn[r] EXCEPT !.exec = "reserved"] \in Journals
    BY RunTyped, JournalUpdates
  <2> QED BY <1>8, <2>1, SMT DEF Prepare
<1>9. CASE StartWorker(r)
  BY <1>9, SMT DEF StartWorker, Journals
<1>10. CASE WorkerReturns(r)
  <2>1. ASSUME NEW success \in BOOLEAN,
               jrn' = [jrn EXCEPT ![r].exec = "reaped", ![r].success = success]
        PROVE  TypeOK'
    <3>2. [jrn[r] EXCEPT !.exec = "reaped", !.success = success] \in Journals
      BY RunTyped, JournalUpdates
    <3>3. jrn' \in [Runs -> Journals]
      BY <2>1, <3>2, SMT
    <3> QED BY <1>10, <3>3, SMT DEF WorkerReturns
  <2> QED BY <1>10, <2>1 DEF WorkerReturns
<1>11. CASE Collect(r)
  <2>1. [jrn[r] EXCEPT !.collected = TRUE] \in Journals
    BY RunTyped, JournalUpdates
  <2> QED BY <1>11, <2>1, SMT DEF Collect
<1>12. CASE CollectRejected(r)
  BY <1>12, SMT DEF CollectRejected, Fault, Journals
<1>13. CASE Publish(r)
  <2>1. [rec[r] EXCEPT !.pending = rec[r].pending \ {"push", "note"}] \in WriterRecords
    BY RunTyped, RecordUpdates DEF Effects
  <2> QED BY <1>13, <2>1, SMT DEF Publish
<1>14. CASE Finish(r)
  <2>1. \A superseded \in BOOLEAN : Implemented(rec[r], superseded) \in WriterRecords
    BY RunTyped, RecordOperators
  <2> QED BY <1>14, <2>1, SMT DEF Finish
<1>15. CASE SaveOutcome(r)
  <2>1. [jrn[r] EXCEPT !.outcome = "IMPLEMENTED", !.diagnostic = FALSE] \in Journals
    BY RunTyped, JournalUpdates
  <2> QED BY <1>15, <2>1, SMT DEF SaveOutcome
<1>16. CASE Fail(r)
  <2>1. [jrn[r] EXCEPT !.diagnostic = TRUE] \in Journals
    BY RunTyped, JournalUpdates
  <2> QED BY <1>16, <2>1, SMT DEF Fail
<1>17. CASE TerminalOutcome(r)
  <2>1. \A superseded \in BOOLEAN : Blocked(rec[r], superseded) \in WriterRecords
    BY RunTyped, RecordOperators
  <2> QED BY <1>17, <2>1, SMT DEF TerminalOutcome
<1>18. CASE TerminalRefused(r)
  BY <1>18, SMT DEF TerminalRefused, Journals
<1>19. CASE SaveTerminal(r)
  <2>1. [jrn[r] EXCEPT !.outcome = rec[r].outcome] \in Journals
    BY RunTyped, JournalUpdates
  <2> QED BY <1>19, <2>1, SMT DEF SaveTerminal
<1>20. CASE Handoff(r)
  <2>1. \A superseded \in BOOLEAN : HandedOff(rec[r], superseded) \in WriterRecords
    BY RunTyped, RecordOperators
  <2>2. rec' \in [Runs -> WriterRecords]
    <3>1. CASE UNCHANGED rec
      BY <3>1
    <3>2. ASSUME NEW superseded \in BOOLEAN, rec' = [rec EXCEPT ![r] = HandedOff(@, superseded)]
          PROVE  rec' \in [Runs -> WriterRecords]
      BY <2>1, <3>2, SMT
    <3> QED BY <1>20, <3>1, <3>2 DEF Handoff
  <2>3. /\ UNCHANGED <<gate, jrn, worker, launches, faults>>
        /\ pc' = [pc EXCEPT ![r] = AfterHandoff(r)]
    BY <1>20 DEF Handoff
  <2> QED BY <2>2, <2>3, SMT DEF AfterHandoff
<1>21. CASE HandoffRefused(r)
  BY <1>21, SMT DEF HandoffRefused, InHandoff, AfterHandoff, Journals
<1>22. CASE Release(r)
  <2>1. [rec[r] EXCEPT !.life = "complete"] \in WriterRecords
    BY RunTyped, RecordUpdates
  <2>2. rec' \in [Runs -> WriterRecords]
    <3>1. CASE rec' = [rec EXCEPT ![r].life = "complete"]
      BY <3>1, <2>1, SMT
    <3>2. CASE UNCHANGED rec
      BY <3>2
    <3> QED BY <1>22, <3>1, <3>2 DEF Release
  <2>3. /\ UNCHANGED <<gate, jrn, worker, launches, faults>>
        /\ pc' = [pc EXCEPT ![r] = "off"]
    BY <1>22 DEF Release
  <2> QED BY <2>2, <2>3, SMT
<1> QED BY <1>1, <1>2, <1>3, <1>4, <1>5, <1>6, <1>7, <1>8, <1>9, <1>10, <1>11,
  <1>12, <1>13, <1>14, <1>15, <1>16, <1>17, <1>18, <1>19, <1>20, <1>21, <1>22
  DEF Controller

(* Failures keep the type invariant.                                        *)
LEMMA TypeFailure ==
  ASSUME TypeOK, NEW r \in Runs, Failure(r)
  PROVE  TypeOK'
<1> USE FaultsAssumption DEF TypeOK, ControllerSteps
<1>r. TypeOK
  OBVIOUS
<1>1. CASE PreflightRejected(r)
  <2>1. PICK left \in SUBSET {"lifecycle"} : rec' = [rec EXCEPT ![r].pending = @ \cup left]
    BY <1>1 DEF PreflightRejected
  <2>2. [rec[r] EXCEPT !.pending = rec[r].pending \cup left] \in WriterRecords
    BY RunTyped, RecordUpdates DEF Effects
  <2>3. rec' \in [Runs -> WriterRecords]
    BY <2>1, <2>2, SMT
  <2> QED BY <1>1, <2>3, SMT DEF PreflightRejected, Fault
<1>2. CASE DispatchRefused(r)
  <2>1. [jrn[r] EXCEPT !.exec = "refused"] \in Journals
    BY RunTyped, JournalUpdates
  <2> QED BY <1>2, <2>1, SMT DEF DispatchRefused, Fault
<1>3. CASE ReturnUnproven(r)
  <2>1. [jrn[r] EXCEPT !.exec = "unproven"] \in Journals
    BY RunTyped, JournalUpdates
  <2> QED BY <1>3, <2>1, SMT DEF ReturnUnproven, Fault
<1>4. CASE PublishUncertain(r)
  <2>1. CASE rec' = [rec EXCEPT ![r].pending = @ \cup {"push"}]
    <3>2. [rec[r] EXCEPT !.pending = rec[r].pending \cup {"push"}] \in WriterRecords
      BY RunTyped, RecordUpdates DEF Effects
    <3> QED BY <1>4, <2>1, <3>2, SMT DEF PublishUncertain, Fault
  <2>2. CASE rec' = [rec EXCEPT ![r].pending = (@ \ {"push"}) \cup {"note"}]
    <3>2. [rec[r] EXCEPT !.pending = (rec[r].pending \ {"push"}) \cup {"note"}] \in WriterRecords
      BY RunTyped, RecordUpdates DEF Effects
    <3> QED BY <1>4, <2>2, <3>2, SMT DEF PublishUncertain, Fault
  <2> QED BY <1>4, <2>1, <2>2 DEF PublishUncertain
<1>5. CASE FinishInterrupted(r)
  <2>1. ASSUME NEW left \in Unfinished,
               rec' = [rec EXCEPT ![r].pending = @ \cup left]
        PROVE  TypeOK'
    <3>2. [rec[r] EXCEPT !.pending = rec[r].pending \cup left] \in WriterRecords
      BY RunTyped, RecordUpdates, LeftAreEffects DEF Effects
    <3>3. rec' \in [Runs -> WriterRecords]
      BY <2>1, <3>2, SMT
    <3> QED BY <1>5, <3>3, SMT DEF FinishInterrupted, Fault
  <2>2. ASSUME NEW superseded \in BOOLEAN, rec' = [rec EXCEPT ![r] = Implemented(@, superseded)]
        PROVE  TypeOK'
    <3>2. Implemented(rec[r], superseded) \in WriterRecords
      BY RunTyped, RecordOperators
    <3>3. rec' \in [Runs -> WriterRecords]
      BY <2>2, <3>2, SMT
    <3> QED BY <1>5, <3>3, SMT DEF FinishInterrupted, Fault
  <2> QED BY <1>5, <2>1, <2>2 DEF FinishInterrupted
<1>6. CASE TerminalInterrupted(r)
  <2>1. rec' \in [Runs -> WriterRecords]
    <3>1. CASE UNCHANGED rec
      BY <3>1
    <3>2. ASSUME NEW left \in Unsent("active"), rec' = [rec EXCEPT ![r].pending = @ \cup left]
          PROVE  rec' \in [Runs -> WriterRecords]
      <4>1. [rec[r] EXCEPT !.pending = rec[r].pending \cup left] \in WriterRecords
        BY RunTyped, RecordUpdates, LeftAreEffects DEF Effects
      <4> QED BY <3>2, <4>1, SMT
    <3>3. ASSUME NEW superseded \in BOOLEAN, rec' = [rec EXCEPT ![r] = Blocked(@, superseded)]
          PROVE  rec' \in [Runs -> WriterRecords]
      <4>1. Blocked(rec[r], superseded) \in WriterRecords
        BY RunTyped, RecordOperators
      <4> QED BY <3>3, <4>1, SMT
    <3> QED BY <1>6, <3>1, <3>2, <3>3 DEF TerminalInterrupted
  <2>2. /\ UNCHANGED <<gate, jrn, worker, launches>>
        /\ pc' = [pc EXCEPT ![r] = "release"]
        /\ faults < MaxFaults /\ faults' = faults + 1
    BY <1>6 DEF TerminalInterrupted, Fault
  <2> QED BY <2>1, <2>2, SMT
<1>7. CASE HandoffInterrupted(r)
  <2>1. ASSUME NEW left \in SUBSET {"lifecycle"},
               rec' = [rec EXCEPT ![r].life = "complete", ![r].pending = @ \cup left]
        PROVE  TypeOK'
    <3>2. [rec[r] EXCEPT !.life = "complete", !.pending = rec[r].pending \cup left] \in WriterRecords
      BY RunTyped, RecordUpdates DEF Effects
    <3>3. rec' \in [Runs -> WriterRecords]
      BY <2>1, <3>2, SMT
    <3> QED BY <1>7, <3>3, SMT DEF HandoffInterrupted, InHandoff, AfterHandoff, Fault
  <2> QED BY <1>7, <2>1 DEF HandoffInterrupted
<1>8. CASE Crash(r)
  BY <1>8, SMT DEF Crash, Fault, Journals
<1>9. CASE PrepublicationInterrupted(r)
  <2>1. CASE rec' = [rec EXCEPT ![r].recovery = "reserved"]
    <3>2. [rec[r] EXCEPT !.recovery = "reserved"] \in WriterRecords
      BY RunTyped, RecordUpdates
    <3>3. rec' \in [Runs -> WriterRecords]
      BY <2>1, <3>2, SMT
    <3> QED BY <1>9, <3>3, SMT DEF PrepublicationInterrupted, Fault
  <2>2. ASSUME NEW left \in SUBSET {"note", "lifecycle"},
               rec' = [rec EXCEPT ![r].recovery = "published", ![r].pending = left]
        PROVE  TypeOK'
    <3>2. [rec[r] EXCEPT !.recovery = "published", !.pending = left] \in WriterRecords
      BY RunTyped, RecordUpdates DEF Effects
    <3>3. rec' \in [Runs -> WriterRecords]
      BY <2>2, <3>2, SMT
    <3> QED BY <1>9, <3>3, SMT DEF PrepublicationInterrupted, Fault
  <2> QED BY <1>9, <2>1, <2>2 DEF PrepublicationInterrupted
<1> QED BY <1>1, <1>2, <1>3, <1>4, <1>5, <1>6, <1>7, <1>8, <1>9 DEF Failure

(* Owner-authorised recovery keeps the type invariant.                      *)
LEMMA TypeRecovery ==
  ASSUME TypeOK, NEW r \in Runs, Recovery(r)
  PROVE  TypeOK'
<1> USE FaultsAssumption DEF TypeOK, ControllerSteps
<1>r. TypeOK
  OBVIOUS
<1>1. CASE BeginRecovery(r)
  BY <1>1, SMT DEF BeginRecovery, Journals
<1>2. CASE RecoverPush(r)
  <2>1. [rec[r] EXCEPT !.pending = rec[r].pending \ {"push"}, !.republished = TRUE] \in WriterRecords
    BY RunTyped, RecordUpdates DEF Effects
  <2> QED BY <1>2, <2>1, SMT DEF RecoverPush
<1>3. CASE RecoverFinish(r)
  <2>1. \A superseded \in BOOLEAN : Implemented(rec[r], superseded) \in WriterRecords
    BY RunTyped, RecordOperators
  <2> QED BY <1>3, <2>1, SMT DEF RecoverFinish
<1>4. CASE RecoverSave(r)
  <2>1. [jrn[r] EXCEPT !.outcome = "IMPLEMENTED", !.diagnostic = FALSE, !.collected = FALSE] \in Journals
    BY RunTyped, JournalUpdates
  <2> QED BY <1>4, <2>1, SMT DEF RecoverSave
<1>5. CASE RecoverPushFails(r)
  <2>1. [jrn[r] EXCEPT !.diagnostic = TRUE] \in Journals
    BY RunTyped, JournalUpdates
  <2> QED BY <1>5, <2>1, SMT DEF RecoverPushFails, Fault
<1>6. CASE RecoverFinishFails(r)
  <2>1. CASE UNCHANGED rec
    <3>1. [jrn[r] EXCEPT !.diagnostic = TRUE, !.collected = FALSE] \in Journals
      BY RunTyped, JournalUpdates
    <3> QED BY <1>6, <2>1, <3>1, SMT DEF RecoverFinishFails, Fault
  <2>2. ASSUME NEW left \in Unfinished, rec' = [rec EXCEPT ![r].pending = @ \cup left]
        PROVE  TypeOK'
    <3>1. [jrn[r] EXCEPT !.diagnostic = TRUE, !.collected = FALSE] \in Journals
      BY RunTyped, JournalUpdates
    <3>2. [rec[r] EXCEPT !.pending = rec[r].pending \cup left] \in WriterRecords
      BY RunTyped, RecordUpdates, LeftAreEffects DEF Effects
    <3>3. rec' \in [Runs -> WriterRecords]
      BY <2>2, <3>2, SMT
    <3>4. /\ UNCHANGED <<gate, worker, launches>>
          /\ jrn' = [jrn EXCEPT ![r].diagnostic = TRUE, ![r].collected = FALSE]
          /\ pc' = [pc EXCEPT ![r] = "off"]
      BY <1>6 DEF RecoverFinishFails
    <3>5. faults' \in 0 .. MaxFaults
      BY <1>6, SMT DEF RecoverFinishFails, Fault
    <3> QED BY <3>1, <3>3, <3>4, <3>5, SMT
  <2> QED BY <1>6, <2>1, <2>2 DEF RecoverFinishFails
<1>7. CASE RecoverPrepublication(r)
  <2>1. [rec[r] EXCEPT !.recovery = "complete", !.pending = {}] \in WriterRecords
    BY RunTyped, RecordUpdates DEF Effects
  <2> QED BY <1>7, <2>1, SMT DEF RecoverPrepublication
<1> QED BY <1>1, <1>2, <1>3, <1>4, <1>5, <1>6, <1>7 DEF Recovery

(* Admission keeps the run's invariant: the new record starts from nothing. *)
LEMMA RunInvAdmission ==
  ASSUME TypeOK, NEW r \in Runs, RunInv(r), Admission(r)
  PROVE  RunInv(r)'
<1> USE DEF TypeOK, WriterRecords, Journals, RunInv, JournalTracksWorker, JournalTracksController,
           NothingBeforeReady, ReceiptsAgree, Executing, Recovering
<1>1. ASSUME NEW s \in Slots, Admit(r, s) PROVE RunInv(r)'
  <2>1. JournalTracksWorker(r)'
    BY <1>1, SMTT(20) DEF Admit, Admissible, Reserved, NoRecord
  <2>2. JournalTracksController(r)'
    BY <1>1, SMTT(20) DEF Admit, Admissible, Reserved, NoRecord
  <2>3. NothingBeforeReady(r)'
    BY <1>1, SMTT(20) DEF Admit, Admissible, Reserved, NoRecord
  <2>4. ReceiptsAgree(r)'
    BY <1>1, SMTT(20) DEF Admit, Admissible, Reserved, NoRecord
  <2> QED BY <2>1, <2>2, <2>3, <2>4
<1>2. ASSUME NEW s \in Slots, AdmitBlocked(r, s) PROVE RunInv(r)'
  BY <1>2, SMTT(20) DEF AdmitBlocked, Admissible, Refused, NoRecord
<1>3. ASSUME NEW s \in Slots, AdmitInterrupted(r, s) PROVE RunInv(r)'
  BY <1>3, SMTT(20) DEF AdmitInterrupted, Admissible, Reserved, NoRecord, Fault
<1>4. ASSUME NEW s \in Slots, AdmitUnconsumed(r, s) PROVE RunInv(r)'
  BY <1>4, SMTT(20) DEF AdmitUnconsumed, Admissible, Released, Reserved, NoRecord, Unsent, Fault
<1>5. ASSUME NEW s \in Slots, AdmitBlockedInterrupted(r, s) PROVE RunInv(r)'
  BY <1>5, SMTT(20) DEF AdmitBlockedInterrupted, Admissible, Refused, NoRecord, Unsent, Fault
<1>6. CASE Replay(r)
  BY <1>6, SMTT(20) DEF Replay
<1>7. CASE ReplayRefused(r)
  BY <1>7, SMTT(20) DEF ReplayRefused, OwesRefusal, Blocked, DraftIntent
<1>8. CASE ReplayUnconsumed(r)
  BY <1>8, SMTT(20) DEF ReplayUnconsumed, Released, Unsent, Fault
<1>9. CASE ReplayRefusedInterrupted(r)
  BY <1>9, SMTT(20) DEF ReplayRefusedInterrupted, OwesRefusal, Unsent, Fault
<1> QED BY <1>1, <1>2, <1>3, <1>4, <1>5, <1>6, <1>7, <1>8, <1>9 DEF Admission

(* The controller's own steps keep the run's invariant.                     *)
LEMMA RunInvController ==
  ASSUME TypeOK, NEW r \in Runs, RunInv(r), Controller(r)
  PROVE  RunInv(r)'
<1> USE DEF TypeOK, WriterRecords, Journals, RunInv, JournalTracksWorker, JournalTracksController,
           NothingBeforeReady, ReceiptsAgree, Executing, Recovering
<1>1. CASE Begin(r)
  BY <1>1, SMTT(20) DEF Begin
<1>2. CASE MissingJournal(r)
  BY <1>2, SMTT(20) DEF MissingJournal
<1>3. CASE ReplayOutcome(r)
  BY <1>3, SMTT(20) DEF ReplayOutcome
<1>4. CASE Continue(r)
  BY <1>4, SMTT(20) DEF Continue
<1>5. CASE ReexecutionRefused(r)
  BY <1>5, SMTT(20) DEF ReexecutionRefused
<1>6. CASE RestoreOutcome(r)
  BY <1>6, SMTT(20) DEF RestoreOutcome
<1>7. CASE PreflightPassed(r)
  BY <1>7, SMTT(20) DEF PreflightPassed
<1>8. CASE Prepare(r)
  BY <1>8, SMTT(20) DEF Prepare
<1>9. CASE StartWorker(r)
  BY <1>9, SMTT(20) DEF StartWorker
<1>10. CASE WorkerReturns(r)
  BY <1>10, SMTT(20) DEF WorkerReturns
<1>11. CASE Collect(r)
  BY <1>11, SMTT(20) DEF Collect, Collectable
<1>12. CASE CollectRejected(r)
  BY <1>12, SMTT(20) DEF CollectRejected, Collectable, Fault
<1>13. CASE Publish(r)
  BY <1>13, SMTT(20) DEF Publish
<1>14. CASE Finish(r)
  BY <1>14, SMTT(20) DEF Finish, Implemented, DraftIntent
<1>15. CASE SaveOutcome(r)
  BY <1>15, SMTT(20) DEF SaveOutcome
<1>16. CASE Fail(r)
  BY <1>16, SMTT(20) DEF Fail
<1>17. CASE TerminalOutcome(r)
  BY <1>17, SMTT(20) DEF TerminalOutcome, Blocked, DraftIntent
<1>18. CASE TerminalRefused(r)
  BY <1>18, SMTT(20) DEF TerminalRefused
<1>19. CASE SaveTerminal(r)
  BY <1>19, SMTT(20) DEF SaveTerminal
<1>20. CASE Handoff(r)
  <2>1. /\ InHandoff(r)
        /\ UNCHANGED <<jrn, worker, launches>>
        /\ pc' = [pc EXCEPT ![r] = AfterHandoff(r)]
    BY <1>20 DEF Handoff
  <2>2. CASE UNCHANGED rec
    BY <2>1, <2>2, SMTT(20) DEF InHandoff, AfterHandoff
  <2>3. ASSUME HandoffProven(r), NEW superseded \in BOOLEAN,
               rec' = [rec EXCEPT ![r] = HandedOff(@, superseded)]
        PROVE  RunInv(r)'
    BY <2>1, <2>3, SMTT(20) DEF HandedOff, DraftIntent, InHandoff, AfterHandoff, HandoffProven
  <2> QED BY <1>20, <2>2, <2>3 DEF Handoff
<1>21. CASE HandoffRefused(r)
  BY <1>21, SMTT(20) DEF HandoffRefused, InHandoff, AfterHandoff, HandoffProven
<1>22. CASE Release(r)
  <2>1. pc[r] = "release" /\ pc' = [pc EXCEPT ![r] = "off"] /\ UNCHANGED <<jrn, worker, launches>>
    BY <1>22 DEF Release
  <2>2. CASE Contained(rec[r], jrn[r]) /\ rec' = [rec EXCEPT ![r].life = "complete"]
    BY <2>1, <2>2, SMTT(20) DEF Contained, TerminalMatches, ProvenExecution
  <2>3. CASE UNCHANGED rec
    BY <2>1, <2>3, SMTT(20)
  <2> QED BY <1>22, <2>2, <2>3 DEF Release
<1> QED BY <1>1, <1>2, <1>3, <1>4, <1>5, <1>6, <1>7, <1>8, <1>9, <1>10, <1>11, <1>12,
   <1>13, <1>14, <1>15, <1>16, <1>17, <1>18, <1>19, <1>20, <1>21, <1>22 DEF Controller

(* A failure at any call keeps the run's invariant.                         *)
LEMMA RunInvFailure ==
  ASSUME TypeOK, NEW r \in Runs, RunInv(r), Failure(r)
  PROVE  RunInv(r)'
<1> USE DEF TypeOK, WriterRecords, Journals, RunInv, JournalTracksWorker, JournalTracksController,
           NothingBeforeReady, ReceiptsAgree, Executing, Recovering
<1>1. CASE PreflightRejected(r)
  BY <1>1, SMTT(20) DEF PreflightRejected, Fault
<1>2. CASE DispatchRefused(r)
  <2>1. JournalTracksWorker(r)'
    BY <1>2, SMTT(20) DEF DispatchRefused, Fault
  <2>2. JournalTracksController(r)'
    BY <1>2, SMTT(20) DEF DispatchRefused, Fault
  <2>3. NothingBeforeReady(r)'
    BY <1>2, SMTT(20) DEF DispatchRefused, Fault
  <2>4. ReceiptsAgree(r)'
    BY <1>2, SMTT(20) DEF DispatchRefused, Fault
  <2> QED BY <2>1, <2>2, <2>3, <2>4
<1>3. CASE ReturnUnproven(r)
  BY <1>3, SMTT(20) DEF ReturnUnproven, Fault
<1>4. CASE PublishUncertain(r)
  <2>1. /\ pc[r] = "publish"
        /\ pc' = [pc EXCEPT ![r] = "fail"]
        /\ UNCHANGED <<jrn, worker, launches>>
    BY <1>4 DEF PublishUncertain
  <2>2. CASE rec' = [rec EXCEPT ![r].pending = @ \cup {"push"}]
    BY <2>1, <2>2, SMTT(20)
  <2>3. CASE rec' = [rec EXCEPT ![r].pending = (@ \ {"push"}) \cup {"note"}]
    BY <2>1, <2>3, SMTT(20)
  <2> QED BY <1>4, <2>2, <2>3 DEF PublishUncertain
<1>5. CASE FinishInterrupted(r)
  <2>1. /\ pc[r] = "finish"
        /\ pc' = [pc EXCEPT ![r] = "fail"]
        /\ UNCHANGED <<jrn, worker, launches>>
    BY <1>5 DEF FinishInterrupted
  <2>2. ASSUME NEW left \in Unfinished,
               rec' = [rec EXCEPT ![r].pending = @ \cup left]
        PROVE  RunInv(r)'
    BY <2>1, <2>2, SMTT(20)
  <2>3. ASSUME NEW superseded \in BOOLEAN, rec' = [rec EXCEPT ![r] = Implemented(@, superseded)]
        PROVE  RunInv(r)'
    BY <2>1, <2>3, SMTT(20) DEF Implemented, DraftIntent
  <2> QED BY <1>5, <2>2, <2>3 DEF FinishInterrupted
<1>6. CASE TerminalInterrupted(r)
  <2>1. /\ pc[r] = "terminal"
        /\ pc' = [pc EXCEPT ![r] = "release"]
        /\ UNCHANGED <<jrn, worker, launches>>
    BY <1>6 DEF TerminalInterrupted
  <2>2. CASE UNCHANGED rec
    BY <2>1, <2>2, SMTT(20)
  <2>3. ASSUME NEW left \in Unsent("active"), rec' = [rec EXCEPT ![r].pending = @ \cup left]
        PROVE  RunInv(r)'
    BY <2>1, <2>3, SMTT(20) DEF Unsent
  <2>4. ASSUME rec[r].outcome = "none", "success" \notin rec[r].pending, NEW superseded \in BOOLEAN,
               rec' = [rec EXCEPT ![r] = Blocked(@, superseded)]
        PROVE  RunInv(r)'
    BY <2>1, <2>4, SMTT(20) DEF Blocked, DraftIntent
  <2> QED BY <1>6, <2>2, <2>3, <2>4 DEF TerminalInterrupted
<1>7. CASE HandoffInterrupted(r)
  BY <1>7, SMTT(20) DEF HandoffInterrupted, InHandoff, AfterHandoff, HandoffProven, Fault
<1>8. CASE Crash(r)
  BY <1>8, SMTT(20) DEF Crash, Fault
<1>9. CASE PrepublicationInterrupted(r)
  <2>1. JournalTracksWorker(r)'
    BY <1>9, SMTT(20) DEF PrepublicationInterrupted, Prepublication, Fault
  <2>2. JournalTracksController(r)'
    BY <1>9, SMTT(20) DEF PrepublicationInterrupted, Prepublication, Fault
  <2>3. NothingBeforeReady(r)'
    BY <1>9, SMTT(20) DEF PrepublicationInterrupted, Prepublication, Fault
  <2>4. ReceiptsAgree(r)'
    BY <1>9, SMTT(20) DEF PrepublicationInterrupted, Prepublication, Fault
  <2> QED BY <2>1, <2>2, <2>3, <2>4
<1> QED BY <1>1, <1>2, <1>3, <1>4, <1>5, <1>6, <1>7, <1>8, <1>9 DEF Failure

(* Owner-authorised recovery keeps the run's invariant.                     *)
LEMMA RunInvRecovery ==
  ASSUME TypeOK, NEW r \in Runs, RunInv(r), Recovery(r)
  PROVE  RunInv(r)'
<1> USE DEF TypeOK, WriterRecords, Journals, RunInv, JournalTracksWorker, JournalTracksController,
           NothingBeforeReady, ReceiptsAgree, Executing, Recovering
<1>1. CASE BeginRecovery(r)
  BY <1>1, SMTT(20) DEF BeginRecovery, Recoverable
<1>2. CASE RecoverPush(r)
  BY <1>2, SMTT(20) DEF RecoverPush
<1>3. CASE RecoverFinish(r)
  BY <1>3, SMTT(20) DEF RecoverFinish, Implemented, DraftIntent
<1>4. CASE RecoverSave(r)
  BY <1>4, SMTT(20) DEF RecoverSave
<1>5. CASE RecoverPushFails(r)
  BY <1>5, SMTT(20) DEF RecoverPushFails, Fault
<1>6. CASE RecoverFinishFails(r)
  <2>1. /\ pc[r] = "recoverFinish"
        /\ pc' = [pc EXCEPT ![r] = "off"]
        /\ jrn' = [jrn EXCEPT ![r].diagnostic = TRUE, ![r].collected = FALSE]
        /\ UNCHANGED <<worker, launches>>
    BY <1>6 DEF RecoverFinishFails
  <2>2. CASE UNCHANGED rec
    BY <2>1, <2>2, SMTT(20)
  <2>3. ASSUME rec[r].outcome # "IMPLEMENTED", NEW left \in Unfinished,
               rec' = [rec EXCEPT ![r].pending = @ \cup left]
        PROVE  RunInv(r)'
    BY <2>1, <2>3, SMTT(20) DEF Unfinished, Outcomes
  <2> QED BY <1>6, <2>2, <2>3 DEF RecoverFinishFails
<1>7. CASE RecoverPrepublication(r)
  BY <1>7, SMTT(20) DEF RecoverPrepublication, Prepublication
<1> QED BY <1>1, <1>2, <1>3, <1>4, <1>5, <1>6, <1>7 DEF Recovery

(* No step of an attempt but its admission gives it the right to a worker.  *)
KeepsRights(r) ==
  /\ MayRun(r)' => MayRun(r) /\ rec'[r].slot = rec[r].slot
  /\ rec'[r].life = "active" => rec[r].life = "active"

(* A replayed or refused admission gives no right to a worker.              *)
LEMMA RightsAdmission ==
  ASSUME TypeOK, NEW r \in Runs, RunInv(r), Admission(r),
         \A s \in Slots : ~Admit(r, s) /\ ~AdmitInterrupted(r, s)
  PROVE  KeepsRights(r)
<1> USE DEF TypeOK, WriterRecords, Journals, KeepsRights, MayRun, RunInv, JournalTracksController,
           NothingBeforeReady, Executing, Recovering
<1>1. ASSUME NEW s \in Slots, AdmitBlocked(r, s) PROVE KeepsRights(r)
  BY <1>1, SMTT(20) DEF AdmitBlocked, Admissible, Refused, NoRecord
<1>2. ASSUME NEW s \in Slots, AdmitUnconsumed(r, s) PROVE KeepsRights(r)
  BY <1>2, SMTT(20) DEF AdmitUnconsumed, Admissible, Released, Reserved, NoRecord, Unsent, Fault
<1>3. ASSUME NEW s \in Slots, AdmitBlockedInterrupted(r, s) PROVE KeepsRights(r)
  BY <1>3, SMTT(20) DEF AdmitBlockedInterrupted, Admissible, Refused, NoRecord, Fault
<1>4. CASE Replay(r)
  BY <1>4, SMTT(20) DEF Replay
<1>5. CASE ReplayRefused(r)
  BY <1>5, SMTT(20) DEF ReplayRefused, OwesRefusal, Blocked
<1>6. CASE ReplayUnconsumed(r)
  BY <1>6, SMTT(20) DEF ReplayUnconsumed, Released, Fault
<1>7. CASE ReplayRefusedInterrupted(r)
  BY <1>7, SMTT(20) DEF ReplayRefusedInterrupted, OwesRefusal, Fault
<1> QED BY <1>1, <1>2, <1>3, <1>4, <1>5, <1>6, <1>7 DEF Admission

(* Nor does a step of the controller.                                       *)
LEMMA RightsController ==
  ASSUME TypeOK, NEW r \in Runs, RunInv(r), Controller(r)
  PROVE  KeepsRights(r)
<1> USE DEF TypeOK, WriterRecords, Journals, KeepsRights, MayRun, RunInv, JournalTracksController,
           NothingBeforeReady, Executing, Recovering
<1>1. CASE Begin(r)
  BY <1>1, SMTT(20) DEF Begin
<1>2. CASE MissingJournal(r)
  BY <1>2, SMTT(20) DEF MissingJournal
<1>3. CASE ReplayOutcome(r)
  BY <1>3, SMTT(20) DEF ReplayOutcome
<1>4. CASE Continue(r)
  BY <1>4, SMTT(20) DEF Continue
<1>5. CASE ReexecutionRefused(r)
  BY <1>5, SMTT(20) DEF ReexecutionRefused
<1>6. CASE RestoreOutcome(r)
  BY <1>6, SMTT(20) DEF RestoreOutcome
<1>7. CASE PreflightPassed(r)
  BY <1>7, SMTT(20) DEF PreflightPassed
<1>8. CASE Prepare(r)
  BY <1>8, SMTT(20) DEF Prepare
<1>9. CASE StartWorker(r)
  BY <1>9, SMTT(20) DEF StartWorker
<1>10. CASE WorkerReturns(r)
  BY <1>10, SMTT(20) DEF WorkerReturns
<1>11. CASE Collect(r)
  BY <1>11, SMTT(20) DEF Collect, Collectable
<1>12. CASE CollectRejected(r)
  BY <1>12, SMTT(20) DEF CollectRejected, Collectable, Fault
<1>13. CASE Publish(r)
  BY <1>13, SMTT(20) DEF Publish
<1>14. CASE Finish(r)
  BY <1>14, SMTT(20) DEF Finish, Implemented, DraftIntent
<1>15. CASE SaveOutcome(r)
  BY <1>15, SMTT(20) DEF SaveOutcome
<1>16. CASE Fail(r)
  BY <1>16, SMTT(20) DEF Fail
<1>17. CASE TerminalOutcome(r)
  BY <1>17, SMTT(20) DEF TerminalOutcome, Blocked, DraftIntent
<1>18. CASE TerminalRefused(r)
  BY <1>18, SMTT(20) DEF TerminalRefused
<1>19. CASE SaveTerminal(r)
  BY <1>19, SMTT(20) DEF SaveTerminal
<1>20. CASE Handoff(r)
  <2>1. /\ InHandoff(r)
        /\ UNCHANGED <<jrn, worker, launches>>
        /\ pc' = [pc EXCEPT ![r] = AfterHandoff(r)]
    BY <1>20 DEF Handoff
  <2>2. CASE UNCHANGED rec
    BY <2>1, <2>2, SMTT(20) DEF InHandoff, AfterHandoff
  <2>3. ASSUME HandoffProven(r), NEW superseded \in BOOLEAN,
               rec' = [rec EXCEPT ![r] = HandedOff(@, superseded)]
        PROVE  KeepsRights(r)
    BY <2>1, <2>3, SMTT(20) DEF HandedOff, DraftIntent, InHandoff, AfterHandoff, HandoffProven
  <2> QED BY <1>20, <2>2, <2>3 DEF Handoff
<1>21. CASE HandoffRefused(r)
  BY <1>21, SMTT(20) DEF HandoffRefused, InHandoff, AfterHandoff, HandoffProven
<1>22. CASE Release(r)
  BY <1>22, SMTT(20) DEF Release
<1> QED BY <1>1, <1>2, <1>3, <1>4, <1>5, <1>6, <1>7, <1>8, <1>9, <1>10, <1>11, <1>12,
   <1>13, <1>14, <1>15, <1>16, <1>17, <1>18, <1>19, <1>20, <1>21, <1>22 DEF Controller

(* Nor does a failure.                                                      *)
LEMMA RightsFailure ==
  ASSUME TypeOK, NEW r \in Runs, RunInv(r), Failure(r)
  PROVE  KeepsRights(r)
<1> USE DEF TypeOK, WriterRecords, Journals, KeepsRights, MayRun, RunInv, JournalTracksController,
           NothingBeforeReady, Executing, Recovering
<1>1. CASE PreflightRejected(r)
  BY <1>1, SMTT(20) DEF PreflightRejected, Fault
<1>2. CASE DispatchRefused(r)
  BY <1>2, SMTT(20) DEF DispatchRefused, Fault
<1>3. CASE ReturnUnproven(r)
  BY <1>3, SMTT(20) DEF ReturnUnproven, Fault
<1>4. CASE PublishUncertain(r)
  BY <1>4, SMTT(20) DEF PublishUncertain, Fault
<1>5. CASE FinishInterrupted(r)
  <2>1. UNCHANGED jrn
    BY <1>5 DEF FinishInterrupted
  <2>2. ASSUME NEW left \in Unfinished,
               rec' = [rec EXCEPT ![r].pending = @ \cup left]
        PROVE  KeepsRights(r)
    BY <2>1, <2>2, SMTT(20)
  <2>3. ASSUME NEW superseded \in BOOLEAN, rec' = [rec EXCEPT ![r] = Implemented(@, superseded)]
        PROVE  KeepsRights(r)
    BY <2>1, <2>3, SMTT(20) DEF Implemented
  <2> QED BY <1>5, <2>2, <2>3 DEF FinishInterrupted
<1>6. CASE TerminalInterrupted(r)
  <2>1. /\ pc[r] = "terminal"
        /\ pc' = [pc EXCEPT ![r] = "release"]
        /\ UNCHANGED <<jrn, worker, launches>>
    BY <1>6 DEF TerminalInterrupted
  <2>2. CASE UNCHANGED rec
    BY <2>1, <2>2, SMTT(20)
  <2>3. ASSUME NEW left \in Unsent("active"), rec' = [rec EXCEPT ![r].pending = @ \cup left]
        PROVE  KeepsRights(r)
    BY <2>1, <2>3, SMTT(20) DEF Unsent
  <2>4. ASSUME rec[r].outcome = "none", "success" \notin rec[r].pending, NEW superseded \in BOOLEAN,
               rec' = [rec EXCEPT ![r] = Blocked(@, superseded)]
        PROVE  KeepsRights(r)
    BY <2>1, <2>4, SMTT(20) DEF Blocked, DraftIntent
  <2> QED BY <1>6, <2>2, <2>3, <2>4 DEF TerminalInterrupted
<1>7. CASE HandoffInterrupted(r)
  BY <1>7, SMTT(20) DEF HandoffInterrupted, InHandoff, AfterHandoff, HandoffProven, Fault
<1>8. CASE Crash(r)
  BY <1>8, SMTT(20) DEF Crash, Fault
<1>9. CASE PrepublicationInterrupted(r)
  BY <1>9, SMTT(20) DEF PrepublicationInterrupted, Prepublication, Fault
<1> QED BY <1>1, <1>2, <1>3, <1>4, <1>5, <1>6, <1>7, <1>8, <1>9 DEF Failure

(* Nor does a recovery.                                                     *)
LEMMA RightsRecovery ==
  ASSUME TypeOK, NEW r \in Runs, RunInv(r), Recovery(r)
  PROVE  KeepsRights(r)
<1> USE DEF TypeOK, WriterRecords, Journals, KeepsRights, MayRun, RunInv, JournalTracksController,
           NothingBeforeReady, Executing, Recovering
<1>1. CASE BeginRecovery(r)
  BY <1>1, SMTT(20) DEF BeginRecovery, Recoverable
<1>2. CASE RecoverPush(r)
  BY <1>2, SMTT(20) DEF RecoverPush
<1>3. CASE RecoverFinish(r)
  BY <1>3, SMTT(20) DEF RecoverFinish, Implemented, DraftIntent
<1>4. CASE RecoverSave(r)
  BY <1>4, SMTT(20) DEF RecoverSave
<1>5. CASE RecoverPushFails(r)
  BY <1>5, SMTT(20) DEF RecoverPushFails, Fault
<1>6. CASE RecoverFinishFails(r)
  BY <1>6, SMTT(20) DEF RecoverFinishFails, Unfinished, Fault
<1>7. CASE RecoverPrepublication(r)
  BY <1>7, SMTT(20) DEF RecoverPrepublication, Prepublication
<1> QED BY <1>1, <1>2, <1>3, <1>4, <1>5, <1>6, <1>7 DEF Recovery

(* An attempt's step touches its own run and never the gate.                *)
LEMMA AttemptFrame ==
  ASSUME TypeOK, NEW r \in Runs, Attempt(r)
  PROVE  /\ UNCHANGED gate
         /\ \A q \in Runs \ {r} : /\ rec'[q] = rec[q]
                                  /\ jrn'[q] = jrn[q]
                                  /\ pc'[q] = pc[q]
                                  /\ worker'[q] = worker[q]
                                  /\ launches'[q] = launches[q]
         /\ launches' # launches => StartWorker(r)
<1> USE DEF TypeOK
<1>1. CASE Admission(r)
  BY <1>1, SMTT(60) DEF Admission, Admit, AdmitBlocked, AdmitInterrupted,
     AdmitUnconsumed, AdmitBlockedInterrupted, Replay, ReplayRefused, ReplayRefusedInterrupted,
     ReplayUnconsumed, AfterHandoff
<1>2. CASE Controller(r)
  BY <1>2, SMTT(60) DEF Controller, Begin, MissingJournal, ReplayOutcome, Continue,
     ReexecutionRefused, RestoreOutcome, PreflightPassed, Prepare, StartWorker,
     WorkerReturns, Collect, CollectRejected, Publish, Finish, SaveOutcome, Fail,
     TerminalOutcome, TerminalRefused, SaveTerminal, Handoff, HandoffRefused, Release,
     AfterHandoff
<1>3. CASE Failure(r)
  BY <1>3, SMTT(60) DEF Failure, PreflightRejected, DispatchRefused, ReturnUnproven,
     PublishUncertain, FinishInterrupted, TerminalInterrupted, HandoffInterrupted,
     Crash, PrepublicationInterrupted, AfterHandoff
<1>4. CASE Recovery(r)
  BY <1>4, SMTT(60) DEF Recovery, BeginRecovery, RecoverPush, RecoverFinish,
     RecoverSave, RecoverPushFails, RecoverFinishFails, RecoverPrepublication,
     AfterHandoff
<1>5. CASE WorkerExits(r)
  BY <1>5, SMT DEF WorkerExits
<1> QED BY <1>1, <1>2, <1>3, <1>4, <1>5 DEF Attempt

(* What an empty inventory tells the gate about every run.                  *)
LEMMA EmptyInventory ==
  ASSUME IInv, InventoryEmpty, NEW r \in Runs
  PROVE  /\ rec[r].life # "active"
         /\ worker[r] # "running"
         /\ rec[r].handoff # "open"
         /\ rec[r].life # "blocked" =>
              /\ rec[r].pending \subseteq {"success"}
              /\ "success" \in rec[r].pending => rec[r].outcome = "BLOCKED" /\ rec[r].republished
<1>1. ~CountsActive(rec[r], jrn[r]) /\ ~CountsUnknown(rec[r], jrn[r])
  BY DEF InventoryEmpty, Active, Unknown
<1>2. rec[r] \in WriterRecords /\ RunInv(r)
  BY RunTyped DEF IInv
<1>3. rec[r].life # "active"
  BY <1>1, <1>2, SMT DEF CountsActive, CountsUnknown, RunInv, ReceiptsAgree
<1>4. worker[r] # "running"
  BY <1>2, <1>3, SMT DEF RunInv, JournalTracksWorker
<1>5. rec[r].life = "complete" =>
        /\ rec[r].handoff # "open"
        /\ rec[r].pending \subseteq {"success"}
        /\ "success" \in rec[r].pending => rec[r].outcome = "BLOCKED" /\ rec[r].republished
  BY <1>1, <1>2, SMTT(30) DEF CountsUnknown, RunInv, ReceiptsAgree, WriterRecords, Effects
<1>6. rec[r].life \in {"absent", "blocked"} => rec[r].handoff # "open"
  BY <1>2, SMT DEF RunInv, NothingBeforeReady
<1>7. rec[r].life = "absent" => rec[r].pending = {}
  BY <1>2, SMT DEF RunInv, NothingBeforeReady, NoRecord
<1>8. rec[r].life \in {"absent", "blocked", "active", "complete"}
  BY <1>2, SMT DEF WriterRecords
<1> QED BY <1>3, <1>4, <1>5, <1>6, <1>7, <1>8

(* A gate operation keeps the inductive invariant.                          *)
LEMMA GateKeepsIInv ==
  ASSUME IInv, GateOperation
  PROVE  IInv'
<1>1. UNCHANGED <<rec, jrn, pc, worker, launches, faults>>
  BY DEF GateOperation, Quiesce, Drained, MarkApplying, MarkVerified, MarkRecoveryRequired,
         Snapshot, RecoveryTarget, RestoreOpen, Resume
<1>2. gate' \in GateStates
  <2> USE DEF GateStates, Phases, OpenGate, IInv, TypeOK
  <2>1. ASSUME NEW o \in Operations, NEW t \in Targets, Quiesce(o, t) PROVE gate' \in GateStates
    BY <2>1, ZenonT(20) DEF Quiesce
  <2>2. ASSUME NEW o \in Operations, NEW t \in Targets, MarkVerified(o, t) PROVE gate' \in GateStates
    BY <2>2, ZenonT(20) DEF MarkVerified
  <2>3. ASSUME NEW o \in Operations, NEW t \in Targets, RecoveryTarget(o, t) PROVE gate' \in GateStates
    BY <2>3, ZenonT(20) DEF RecoveryTarget
  <2>4. ASSUME NEW o \in Operations, Drained(o) PROVE gate' \in GateStates
    BY <2>4, ZenonT(20) DEF Drained
  <2>5. ASSUME NEW o \in Operations, MarkApplying(o) PROVE gate' \in GateStates
    BY <2>5, ZenonT(20) DEF MarkApplying
  <2>6. ASSUME NEW o \in Operations, MarkRecoveryRequired(o) PROVE gate' \in GateStates
    BY <2>6, ZenonT(20) DEF MarkRecoveryRequired
  <2>7. ASSUME NEW o \in Operations, NEW services \in Snapshots, Snapshot(o, services)
        PROVE  gate' \in GateStates
    BY <2>7, ZenonT(20) DEF Snapshot
  <2>8. ASSUME NEW o \in Operations, Resume(o) PROVE gate' \in GateStates
    BY <2>8, ZenonT(20) DEF Resume
  <2>9. ASSUME NEW o \in Operations, RestoreOpen(o) PROVE gate' \in GateStates
    BY <2>9, ZenonT(20) DEF RestoreOpen
  <2> QED BY <2>1, <2>2, <2>3, <2>4, <2>5, <2>6, <2>7, <2>8, <2>9 DEF GateOperation
<1>3. TypeOK'
  BY <1>1, <1>2 DEF IInv, TypeOK
<1>4. ASSUME NEW r \in Runs PROVE RunInv(r)'
  <2>1. RunInv(r)
    BY DEF IInv
  <2> QED BY <1>1, <2>1 DEF RunInv, JournalTracksWorker, JournalTracksController,
                            NothingBeforeReady, ReceiptsAgree, Executing, Recovering
<1>5. SlotsHeldOnce'
  <2>1. SlotsHeldOnce
    BY DEF IInv
  <2> QED BY <1>1, <2>1 DEF SlotsHeldOnce, MayRun
<1>6. GateInv'
  <2> USE <1>1 DEF GateInv, GateStates
  <2>g. gate \in GateStates /\ GateInv
    BY DEF IInv, TypeOK
  <2>1. ASSUME NEW o \in Operations, NEW t \in Targets, Quiesce(o, t) PROVE GateInv'
    BY <2>g, <2>1, SMT DEF Quiesce
  <2>2. ASSUME NEW o \in Operations, NEW t \in Targets, MarkVerified(o, t) PROVE GateInv'
    BY <2>g, <2>2, SMT DEF MarkVerified
  <2>3. ASSUME NEW o \in Operations, NEW t \in Targets, RecoveryTarget(o, t) PROVE GateInv'
    BY <2>g, <2>3, SMT DEF RecoveryTarget
  <2>4. ASSUME NEW o \in Operations, Drained(o) PROVE GateInv'
    <3>1. \A r \in Runs : rec[r].life # "active"
      BY <2>4, EmptyInventory DEF Drained
    <3> QED BY <2>g, <2>4, <3>1, SMT DEF Drained
  <2>5. ASSUME NEW o \in Operations, MarkApplying(o) PROVE GateInv'
    BY <2>g, <2>5, SMT DEF MarkApplying
  <2>6. ASSUME NEW o \in Operations, MarkRecoveryRequired(o) PROVE GateInv'
    BY <2>g, <2>6, SMT DEF MarkRecoveryRequired
  <2>7. ASSUME NEW o \in Operations, NEW services \in Snapshots, Snapshot(o, services) PROVE GateInv'
    BY <2>g, <2>7, SMT DEF Snapshot
  <2>8. ASSUME NEW o \in Operations, Resume(o) PROVE GateInv'
    BY <2>g, <2>8, SMT DEF Resume, OpenGate
  <2>9. ASSUME NEW o \in Operations, RestoreOpen(o) PROVE GateInv'
    BY <2>g, <2>9, SMT DEF RestoreOpen, OpenGate
  <2> QED BY <2>1, <2>2, <2>3, <2>4, <2>5, <2>6, <2>7, <2>8, <2>9 DEF GateOperation
<1> QED BY <1>3, <1>4, <1>5, <1>6 DEF IInv

(* A fresh admission finds its slot free of every other right to a worker.  *)
LEMMA AdmissionKeepsSlots ==
  ASSUME IInv, NEW r \in Runs, NEW s \in Slots, Admit(r, s) \/ AdmitInterrupted(r, s)
  PROVE  SlotsHeldOnce'
<1>1. TypeOK /\ Attempt(r)
  BY DEF IInv, Attempt, Admission
<1>2. ASSUME NEW q \in Runs \ {r}, MayRun(q) PROVE rec[q].slot # s
  <2>1. ~Occupies(rec[q], jrn[q], s)
    BY DEF Admit, AdmitInterrupted, Admissible, SlotComplete
  <2> QED BY <1>2, <2>1, SMT DEF MayRun, Occupies, ResourceReleased, Contained, TerminalMatches,
                                 ProvenExecution
<1>3. rec'[r].slot = s
  <2>1. CASE Admit(r, s)
    BY <1>1, <2>1, SMT DEF Admit, Reserved, NoRecord, TypeOK
  <2>2. CASE AdmitInterrupted(r, s)
    BY <1>1, <2>2, SMT DEF AdmitInterrupted, Reserved, NoRecord, TypeOK
  <2> QED BY <2>1, <2>2
<1>4. \A q \in Runs \ {r} : (MayRun(q)' <=> MayRun(q)) /\ rec'[q].slot = rec[q].slot
  BY <1>1, AttemptFrame DEF MayRun
<1>5. SlotsHeldOnce
  BY DEF IInv
<1> QED BY <1>2, <1>3, <1>4, <1>5 DEF SlotsHeldOnce

(* An attempt's step keeps the inductive invariant.                         *)
LEMMA AttemptKeepsIInv ==
  ASSUME IInv, NEW r \in Runs, Attempt(r)
  PROVE  IInv'
<1>1. TypeOK /\ RunInv(r)
  BY DEF IInv
<1>2. TypeOK'
  <2>1. CASE WorkerExits(r)
    BY <1>1, <2>1, SMT DEF WorkerExits, TypeOK
  <2> QED BY <1>1, <2>1, TypeAdmission, TypeController, TypeFailure, TypeRecovery DEF Attempt
<1>3. RunInv(r)'
  <2>1. CASE WorkerExits(r)
    BY <1>1, <2>1, SMT DEF WorkerExits, TypeOK, RunInv, JournalTracksWorker, JournalTracksController,
                           NothingBeforeReady, ReceiptsAgree, Executing, Recovering
  <2> QED BY <1>1, <2>1, RunInvAdmission, RunInvController, RunInvFailure, RunInvRecovery DEF Attempt
<1>4. ASSUME NEW q \in Runs \ {r} PROVE RunInv(q)'
  <2>1. RunInv(q)
    BY DEF IInv
  <2> QED BY <1>1, <2>1, AttemptFrame
          DEF RunInv, JournalTracksWorker, JournalTracksController, NothingBeforeReady, ReceiptsAgree,
              Executing, Recovering
<1>5. CASE \E s \in Slots : Admit(r, s) \/ AdmitInterrupted(r, s)
  <2>1. SlotsHeldOnce'
    BY <1>5, AdmissionKeepsSlots
  <2>2. gate.phase = "open" /\ gate' = gate
    BY <1>5 DEF Admit, AdmitInterrupted, Admissible
  <2>3. GateInv'
    BY <2>2 DEF GateInv, IInv
  <2> QED BY <1>2, <1>3, <1>4, <2>1, <2>3 DEF IInv
<1>6. CASE \A s \in Slots : ~Admit(r, s) /\ ~AdmitInterrupted(r, s)
  <2>1. KeepsRights(r)
    <3>1. CASE WorkerExits(r)
      BY <1>1, <3>1 DEF WorkerExits, KeepsRights, MayRun
    <3> QED BY <1>1, <1>6, <3>1, RightsAdmission, RightsController, RightsFailure, RightsRecovery
            DEF Attempt
  <2>2. \A q \in Runs \ {r} : KeepsRights(q)
    BY <1>1, AttemptFrame DEF KeepsRights, MayRun
  <2>3. SlotsHeldOnce'
    BY <2>1, <2>2 DEF KeepsRights, SlotsHeldOnce, IInv
  <2>4. GateInv'
    BY <1>1, <2>1, <2>2, AttemptFrame DEF KeepsRights, GateInv, IInv
  <2> QED BY <1>2, <1>3, <1>4, <2>3, <2>4 DEF IInv
<1> QED BY <1>5, <1>6

(* The inductive invariant holds initially.                                 *)
LEMMA InitIInv == Init => IInv
<1> SUFFICES ASSUME Init PROVE IInv
  OBVIOUS
<1>1. TypeOK
  <2>1. NoRecord \in WriterRecords /\ NoJournal \in Journals
    BY Zenon DEF NoRecord, NoJournal, WriterRecords, Journals, Outcomes
  <2>2. OpenGate \in GateStates
    BY Zenon DEF OpenGate, GateStates, Phases
  <2> QED BY <2>1, <2>2, FaultsAssumption, SMT DEF Init, TypeOK, ControllerSteps
<1>2. ASSUME NEW r \in Runs PROVE RunInv(r)
  BY SMT DEF Init, NoRecord, NoJournal, RunInv, JournalTracksWorker, JournalTracksController,
             NothingBeforeReady, ReceiptsAgree, Executing, Recovering
<1>3. SlotsHeldOnce
  BY SMT DEF Init, NoRecord, SlotsHeldOnce, MayRun
<1>4. GateInv
  BY SMT DEF Init, OpenGate, GateInv
<1> QED BY <1>1, <1>2, <1>3, <1>4 DEF IInv

(* Every step keeps the inductive invariant.                                *)
LEMMA NextIInv == IInv /\ [Next]_vars => IInv'
<1> SUFFICES ASSUME IInv, [Next]_vars PROVE IInv'
  OBVIOUS
<1>1. CASE GateOperation
  BY <1>1, GateKeepsIInv
<1>2. ASSUME NEW r \in Runs, Attempt(r) PROVE IInv'
  BY <1>2, AttemptKeepsIInv
<1>3. CASE UNCHANGED vars
  BY <1>3 DEF vars, IInv, TypeOK, RunInv, JournalTracksWorker, JournalTracksController,
              NothingBeforeReady, ReceiptsAgree, Executing, Recovering, SlotsHeldOnce, MayRun, GateInv
<1> QED BY <1>1, <1>2, <1>3 DEF Next

(* How a gate operation can change the phase, the operation, the service    *)
(* intent and the target.                                                  *)
GateChange ==
  /\ gate.phase # "open" /\ gate'.phase = "open" => \E o \in Operations : Resume(o) \/ RestoreOpen(o)
  /\ gate.phase # "drained" /\ gate'.phase = "drained" => \E o \in Operations : Drained(o)
  /\ gate.phase # "open" /\ gate'.phase # "open" =>
       /\ gate'.op = gate.op
       /\ gate.previous # NoSnapshot => gate'.previous = gate.previous
       /\ gate'.target # gate.target =>
            \E o \in Operations, t \in Targets : RecoveryTarget(o, t)

(* Each gate operation is one of these changes.                             *)
LEMMA GateTransition ==
  ASSUME TypeOK, GateOperation
  PROVE  GateChange
<1> USE DEF GateChange, GateStates, Bound
<1>g. gate \in GateStates
  BY DEF TypeOK
<1>1. ASSUME NEW o \in Operations, NEW t \in Targets, Quiesce(o, t) PROVE GateChange
  BY <1>g, <1>1, SMT DEF Quiesce
<1>2. ASSUME NEW o \in Operations, NEW t \in Targets, MarkVerified(o, t) PROVE GateChange
  BY <1>g, <1>2, SMT DEF MarkVerified
<1>3. ASSUME NEW o \in Operations, NEW t \in Targets, RecoveryTarget(o, t) PROVE GateChange
  BY <1>g, <1>3, SMT DEF RecoveryTarget
<1>4. ASSUME NEW o \in Operations, Drained(o) PROVE GateChange
  BY <1>g, <1>4, SMT DEF Drained
<1>5. ASSUME NEW o \in Operations, MarkApplying(o) PROVE GateChange
  BY <1>g, <1>5, SMT DEF MarkApplying
<1>6. ASSUME NEW o \in Operations, MarkRecoveryRequired(o) PROVE GateChange
  BY <1>g, <1>6, SMT DEF MarkRecoveryRequired
<1>7. ASSUME NEW o \in Operations, NEW services \in Snapshots, Snapshot(o, services) PROVE GateChange
  BY <1>g, <1>7, SMT DEF Snapshot
<1>8. ASSUME NEW o \in Operations, Resume(o) PROVE GateChange
  BY <1>g, <1>8, SMT DEF Resume, OpenGate
<1>9. ASSUME NEW o \in Operations, RestoreOpen(o) PROVE GateChange
  BY <1>g, <1>9, SMT DEF RestoreOpen, OpenGate
<1> QED BY <1>1, <1>2, <1>3, <1>4, <1>5, <1>6, <1>7, <1>8, <1>9 DEF GateOperation

(* Every step changes the gate as a gate operation does, or not at all.     *)
LEMMA StepGateChange ==
  ASSUME IInv, Next
  PROVE  GateChange
<1>1. CASE GateOperation
  BY <1>1, GateTransition DEF IInv
<1>2. ASSUME NEW r \in Runs, Attempt(r) PROVE GateChange
  <2>1. gate' = gate
    BY <1>2, AttemptFrame DEF IInv
  <2> QED BY <2>1 DEF GateChange
<1> QED BY <1>1, <1>2 DEF Next

-----------------------------------------------------------------------------
(* The theorems *)

(* The inductive invariant holds in every behaviour, for every set of runs, *)
(* slots, operations, targets and snapshots and every number of faults.     *)
THEOREM Invariance == Spec => []IInv
<1>1. Init => IInv
  BY InitIInv
<1>2. IInv /\ [Next]_vars => IInv'
  BY NextIInv
<1> QED BY <1>1, <1>2, PTL DEF Spec

(* The protected files and processes keep their shape.                      *)
THEOREM TypeCorrect == Spec => []TypeOK
<1>1. IInv => TypeOK
  BY DEF IInv
<1> QED BY <1>1, Invariance, PTL

(* A worker that runs holds the right to its slot, and rights are exclusive: *)
(* two runs never execute on one runner slot.                              *)
THEOREM SlotsAreExclusive == Spec => []SlotExclusive
<1>1. IInv => SlotExclusive
  <2> SUFFICES ASSUME IInv, NEW q \in Runs, NEW r \in Runs, q # r, Running(q), Running(r)
               PROVE  rec[q].slot # rec[r].slot
    BY DEF SlotExclusive
  <2>1. MayRun(q) /\ MayRun(r)
    BY DEF IInv, RunInv, JournalTracksWorker, Running, MayRun
  <2> QED BY <2>1 DEF IInv, SlotsHeldOnce
<1> QED BY <1>1, Invariance, PTL

(* The paid execution of a run starts at most once.                         *)
THEOREM ExecutionIsUnique == Spec => []LaunchedOnce
<1>1. IInv => LaunchedOnce
  BY DEF IInv, RunInv, JournalTracksWorker, LaunchedOnce
<1> QED BY <1>1, Invariance, PTL

(* No worker process is left behind a drained gate.                         *)
THEOREM DrainIsQuiet == Spec => []DrainedQuiet
<1>1. IInv => DrainedQuiet
  BY DEF IInv, RunInv, JournalTracksWorker, GateInv, DrainedQuiet, Running
<1> QED BY <1>1, Invariance, PTL

(* A completed reservation never has a worker.                              *)
THEOREM CompletionIsContained == Spec => []CompleteContained
<1>1. IInv => CompleteContained
  BY DEF IInv, RunInv, JournalTracksWorker, CompleteContained, Running
<1> QED BY <1>1, Invariance, PTL

(* The gate opens only for the verified target and an empty inventory, or   *)
(* before its operation recorded anything.                                 *)
THEOREM ReopeningIsProven == Spec => ReopenedProven
<1>1. IInv /\ [Next]_vars => [gate.phase # "open" /\ gate'.phase = "open" =>
        \/ /\ gate.phase = "verified" /\ gate.verified = gate.target
           /\ \A r \in Runs : ~Running(r) /\ rec'[r].handoff # "open"
        \/ gate.previous = NoSnapshot /\ gate.verified = NoTarget]_vars
  <2> SUFFICES ASSUME IInv, Next, gate.phase # "open", gate'.phase = "open"
               PROVE  \/ /\ gate.phase = "verified" /\ gate.verified = gate.target
                         /\ \A r \in Runs : ~Running(r) /\ rec'[r].handoff # "open"
                      \/ gate.previous = NoSnapshot /\ gate.verified = NoTarget
    OBVIOUS
  <2>2. PICK o \in Operations : Resume(o) \/ RestoreOpen(o)
    BY StepGateChange DEF GateChange
  <2>3. CASE RestoreOpen(o)
    BY <2>3 DEF RestoreOpen
  <2>4. CASE Resume(o)
    <3>1. gate.phase = "verified" /\ InventoryEmpty /\ UNCHANGED rec
      BY <2>4 DEF Resume, runVars
    <3> QED BY <3>1, EmptyInventory DEF IInv, GateInv, Running
  <2> QED BY <2>2, <2>3, <2>4
<1> QED BY <1>1, Invariance, PTL DEF Spec, ReopenedProven

(* Entering drained means every reserved effect has its receipt.            *)
THEOREM DrainResolvesEffects == Spec => DrainedResolved
<1>1. IInv /\ [Next]_vars => [gate.phase = "quiesced" /\ gate'.phase = "drained" =>
        \A r \in Runs : rec[r].life # "blocked" =>
          /\ rec[r].pending \subseteq {"success"}
          /\ "success" \in rec[r].pending => rec[r].outcome = "BLOCKED" /\ rec[r].republished
          /\ rec[r].handoff # "open"]_vars
  <2> SUFFICES ASSUME IInv, Next, gate.phase = "quiesced", gate'.phase = "drained"
               PROVE  \A r \in Runs : rec[r].life # "blocked" =>
                        /\ rec[r].pending \subseteq {"success"}
                        /\ "success" \in rec[r].pending => rec[r].outcome = "BLOCKED" /\ rec[r].republished
                        /\ rec[r].handoff # "open"
    OBVIOUS
  <2>2. PICK o \in Operations : Drained(o)
    BY StepGateChange DEF GateChange
  <2> QED BY <2>2, EmptyInventory DEF Drained
<1> QED BY <1>1, Invariance, PTL DEF Spec, DrainedResolved

(* The service intent survives every step until the gate reopens.           *)
THEOREM IntentSurvives == Spec => IntentRetained
<1>1. IInv /\ [Next]_vars =>
        [gate.previous # NoSnapshot /\ gate'.phase # "open" => gate'.previous = gate.previous]_vars
  <2> SUFFICES ASSUME IInv, Next, gate.previous # NoSnapshot, gate'.phase # "open"
               PROVE  gate'.previous = gate.previous
    OBVIOUS
  <2>1. gate.phase # "open"
    BY SMT DEF IInv, GateInv, OpenGate
  <2> QED BY <2>1, StepGateChange DEF GateChange
<1> QED BY <1>1, Invariance, PTL DEF Spec, IntentRetained

(* A closed gate changes its target only in recovery, for its own operation, *)
(* with no worker left.                                                    *)
THEOREM TargetIsBound == Spec => TargetBound
<1>1. IInv /\ [Next]_vars =>
        [gate.phase # "open" /\ gate'.phase # "open" /\ gate'.target # gate.target =>
           /\ gate.phase = "recovery-required"
           /\ gate'.op = gate.op
           /\ \A r \in Runs : ~Running(r)]_vars
  <2> SUFFICES ASSUME IInv, Next, gate.phase # "open", gate'.phase # "open",
                      gate'.target # gate.target
               PROVE  /\ gate.phase = "recovery-required"
                      /\ gate'.op = gate.op
                      /\ \A r \in Runs : ~Running(r)
    OBVIOUS
  <2>1. PICK o \in Operations, t \in Targets : RecoveryTarget(o, t)
    BY StepGateChange DEF GateChange
  <2>2. gate.phase = "recovery-required" /\ InventoryEmpty
    BY <2>1 DEF RecoveryTarget
  <2>3. gate'.op = gate.op
    BY StepGateChange DEF GateChange
  <2> QED BY <2>2, <2>3, EmptyInventory DEF Running
<1> QED BY <1>1, Invariance, PTL DEF Spec, TargetBound

(* On a closed gate without an active record no worker is ever started.     *)
THEOREM NoLateLaunch == Spec => NoLaunchAfterDrain
<1>1. IInv /\ [Next]_vars =>
        [gate.phase # "open" /\ (\A r \in Runs : rec[r].life # "active") => launches' = launches]_vars
  <2> SUFFICES ASSUME IInv, Next, \A r \in Runs : rec[r].life # "active"
               PROVE  launches' = launches
    OBVIOUS
  <2>1. CASE GateOperation
    BY <2>1 DEF GateOperation, Quiesce, Drained, MarkApplying, MarkVerified, MarkRecoveryRequired,
                Snapshot, RecoveryTarget, RestoreOpen, Resume, runVars
  <2>2. ASSUME NEW r \in Runs, Attempt(r) PROVE launches' = launches
    <3>1. ~StartWorker(r)
      BY DEF IInv, RunInv, JournalTracksController, Executing, StartWorker, At
    <3> QED BY <2>2, <3>1, AttemptFrame DEF IInv
  <2> QED BY <2>1, <2>2 DEF Next
<1> QED BY <1>1, Invariance, PTL DEF Spec, NoLaunchAfterDrain


-----------------------------------------------------------------------------
(* What the moves of the coordinator do to its fields *)

LEMMA CoordTyped ==
  ASSUME LTypeOK, coord.step # "off"
  PROVE  /\ coord \in Coordinators
         /\ coord.op \in Operations /\ coord.target \in Targets
         /\ coord.step \in CoordSteps /\ coord.goal \in Goals
BY SMT DEF LTypeOK, Coordinators, NoCoord

LEMMA BackendTyped ==
  ASSUME LTypeOK, backend.step # "none"
  PROVE  /\ backend \in Backends /\ backend # NoBackend
         /\ backend.op \in Operations /\ backend.target \in Targets
BY SMT DEF LTypeOK, Backends, NoBackend

(* The same coordinator at another step.                                    *)
LEMMA Proceeding ==
  ASSUME coord \in Coordinators, NEW step \in CoordSteps, Proceed(step)
  PROVE  /\ coord' \in Coordinators
         /\ coord'.step = step /\ coord'.goal = coord.goal
         /\ coord'.op = coord.op /\ coord'.target = coord.target
<1>1. [coord EXCEPT !.step = step] \in Coordinators
  BY Zenon DEF Coordinators
<1> QED BY <1>1, SMT DEF Proceed, Coordinators

LEMMA Leaving ==
  ASSUME Leave
  PROVE  coord' = NoCoord /\ coord'.step = "off" /\ coord'.goal = "none"
BY SMT DEF Leave, NoCoord

(* An exception leads away, to the except clause or to the abort.           *)
LEMMA Raising ==
  ASSUME coord \in Coordinators, Raise
  PROVE  /\ coord' \in Coordinators \cup {NoCoord}
         /\ coord'.step \in {"off", "failed", "aborting"}
         /\ coord'.step = "aborting" => BeforeCutover
         /\ coord'.goal \in {coord.goal, "none"}
<1>1. CASE Leave
  BY <1>1, Leaving, SMT
<1>2. CASE BeforeCutover /\ Proceed("aborting")
  BY <1>2, Proceeding DEF CoordSteps
<1>3. CASE Proceed("failed")
  <2>1. coord' \in Coordinators /\ coord'.step = "failed" /\ coord'.goal = coord.goal
    BY <1>3, Proceeding DEF CoordSteps
  <2> QED BY <2>1, SMT
<1> QED BY <1>1, <1>2, <1>3 DEF Raise

(* A command that acted leads on, or to an exception.                       *)
LEMMA Answering ==
  ASSUME coord \in Coordinators, NEW step \in CoordSteps, Answer(step)
  PROVE  /\ coord' \in Coordinators \cup {NoCoord}
         /\ coord'.step \in {step, "off", "failed", "aborting"}
         /\ coord'.step = "aborting" => BeforeCutover \/ step = "aborting"
         /\ coord'.goal \in {coord.goal, "none"}
         /\ coord'.step = step /\ step \notin {"failed", "aborting"} =>
              coord'.goal = coord.goal /\ coord'.op = coord.op /\ coord'.target = coord.target
<1>1. CASE Proceed(step)
  BY <1>1, Proceeding, SMT
<1>2. CASE Raise
  BY <1>2, Raising, SMT DEF CoordSteps
<1> QED BY <1>1, <1>2 DEF Answer

(* A new coordinator.                                                       *)
LEMMA Entering ==
  ASSUME NEW step \in CoordSteps, NEW goal \in Goals, NEW o \in Operations, NEW t \in Targets,
         Enter(step, goal, o, t)
  PROVE  /\ coord = NoCoord /\ coord.step = "off"
         /\ coord' \in Coordinators
         /\ coord'.step = step /\ coord'.goal = goal /\ coord'.op = o /\ coord'.target = t
         /\ UNCHANGED <<gate, rec, jrn, pc, worker, launches, faults, backend, installed, evidence>>
<1>1. [step |-> step, goal |-> goal, op |-> o, target |-> t] \in Coordinators
  BY Zenon DEF Coordinators
<1> QED BY <1>1, SMT DEF Enter, KeepGate, KeepHost, vars, NoCoord

(* What a start finds and leaves: the gate, the host and the evidence stay.  *)
Started ==
  /\ coord.step = "off"
  /\ coord' \in Coordinators
  /\ UNCHANGED <<gate, rec, jrn, pc, worker, launches, faults, backend, installed, evidence>>
  /\ \/ coord'.step = "quiesce" /\ coord'.goal \in {"stop", "apply", "upgrade"}
     \/ coord'.step = "quiesce" /\ coord'.goal = "install" /\ gate.phase = "open"
     \/ coord'.step = "drain" /\ coord'.goal = "resume" /\ gate.phase \in {"quiesced", "drained"}
     \/ coord'.step = "retarget" /\ coord'.goal = "recover" /\ backend = NoBackend

LEMMA Starting ==
  ASSUME LTypeOK, Owned, Start
  PROVE  Started
<1> USE Entering DEF CoordSteps, Goals, Started
<1>1. ASSUME NEW o \in Operations, StartStop(o) PROVE Started
  <2>1. installed.target \in Targets
    BY SMT DEF LTypeOK, Releases
  <2> QED BY <1>1, <2>1 DEF StartStop
<1>2. ASSUME NEW o \in Operations, NEW t \in Targets, StartApply(o, t) PROVE Started
  BY <1>2 DEF StartApply
<1>3. ASSUME NEW o \in Operations, NEW t \in Targets, StartUpgrade(o, t) PROVE Started
  BY <1>3 DEF StartUpgrade
<1>4. ASSUME NEW o \in Operations, NEW t \in Targets, StartInstall(o, t) PROVE Started
  BY <1>4 DEF StartInstall
<1>5. CASE StartResume
  <2>1. gate.target \in Targets /\ gate.op \in Operations
    BY <1>5, SMT DEF StartResume, LTypeOK, Releases, Owned
  <2> QED BY <1>5, <2>1 DEF StartResume
<1>6. ASSUME NEW t \in Targets, StartRecover(t) PROVE Started
  <2>1. gate.op \in Operations
    BY <1>6 DEF StartRecover, Owned
  <2> QED BY <1>6, <2>1 DEF StartRecover
<1> QED BY <1>1, <1>2, <1>3, <1>4, <1>5, <1>6 DEF Start

-----------------------------------------------------------------------------
(* The lifecycle uses the gate *)

(* Every step of the lifecycle is a step of the gate, or leaves it alone.   *)
LEMMA LifeStepsGate ==
  ASSUME LTypeOK, Owned, [LNext]_allVars
  PROVE  [Next]_vars
<1>0. ASSUME GateOperation PROVE [Next]_vars
  BY <1>0 DEF Next
<1>1. CASE Start
  BY <1>1, Starting DEF Started, vars
<1>2. CASE Coordinator
  <2>1. CASE QuiesceGate
    <3>1. coord.op \in Operations /\ coord.target \in Targets
      BY <2>1, CoordTyped DEF QuiesceGate, InStep
    <3> QED BY <1>0, <2>1, <3>1 DEF QuiesceGate, GateOperation
  <2>2. CASE DrainGate
    <3>1. coord.op \in Operations
      BY <2>2, CoordTyped DEF DrainGate, InStep
    <3> QED BY <1>0, <2>2, <3>1 DEF DrainGate, GateOperation
  <2>3. CASE Retarget
    <3>1. coord.op \in Operations /\ coord.target \in Targets
      BY <2>3, CoordTyped DEF Retarget, InStep
    <3> QED BY <1>0, <2>3, <3>1 DEF Retarget, GateOperation
  <2>4. CASE Applying
    <3>1. coord.op \in Operations
      BY <2>4, CoordTyped DEF Applying, InStep
    <3> QED BY <1>0, <2>4, <3>1 DEF Applying, GateOperation
  <2>5. CASE Verify
    <3>1. coord.op \in Operations /\ coord.target \in Targets
      BY <2>5, CoordTyped DEF Verify, InStep
    <3> QED BY <1>0, <2>5, <3>1 DEF Verify, GateOperation
  <2>6. CASE ResumeGate
    <3>1. coord.op \in Operations
      BY <2>6, CoordTyped DEF ResumeGate, InStep
    <3> QED BY <1>0, <2>6, <3>1 DEF ResumeGate, GateOperation
  <2>7. CASE MarkFailed
    <3>1. coord.op \in Operations
      BY <2>7, CoordTyped DEF MarkFailed, InStep
    <3> QED BY <1>0, <2>7, <3>1 DEF MarkFailed, GateOperation
  <2>8. CASE Abort
    <3>1. coord.op \in Operations
      BY <2>8, CoordTyped DEF Abort, InStep
    <3> QED BY <1>0, <2>8, <3>1 DEF Abort, GateOperation
  <2>9. CASE DrainRefused \/ LaunchBackend \/ PostCheck \/ CommandFails \/ MarkFailedSwallowed
             \/ AbortUnproven \/ CoordDies
    BY <2>9 DEF DrainRefused, LaunchBackend, PostCheck, CommandFails, MarkFailedSwallowed,
                AbortUnproven, CoordDies, KeepGate
  <2> QED BY <1>2, <2>1, <2>2, <2>3, <2>4, <2>5, <2>6, <2>7, <2>8, <2>9 DEF Coordinator
<1>3. CASE DeclareRecovery
  BY <1>0, <1>3 DEF DeclareRecovery, GateOperation
<1>4. CASE Backend
  <2>1. CASE TakeSnapshot
    <3>1. backend.op \in Operations
      BY <2>1, BackendTyped DEF TakeSnapshot
    <3> QED BY <1>0, <2>1, <3>1 DEF TakeSnapshot, GateOperation, KeepGate
  <2>2. CASE BeginEvidence \/ ChangeRelease \/ CommitRelease \/ BackendFails
    BY <2>2 DEF BeginEvidence, ChangeRelease, CommitRelease, BackendFails, KeepGate
  <2> QED BY <1>4, <2>1, <2>2 DEF Backend
<1>5. CASE \E r \in Runs : AttemptStep(r)
  BY <1>5 DEF AttemptStep, Next
<1>6. CASE UNCHANGED allVars
  BY <1>6 DEF allVars, vars
<1> QED BY <1>1, <1>2, <1>3, <1>4, <1>5, <1>6 DEF LNext

-----------------------------------------------------------------------------
(* The lifecycle's inductive invariant, action by action *)

(* What a gate operation of the coordinator does to the fields of the gate.  *)
LEMMA GateFields ==
  ASSUME gate \in GateStates, NEW o
  PROVE  /\ \A t : Quiesce(o, t) => /\ gate.phase = "open" /\ gate'.phase = "quiesced"
                                    /\ gate'.op = o /\ gate'.previous = NoSnapshot
         /\ Drained(o) => /\ gate.phase \in {"quiesced", "drained"} /\ gate'.phase = "drained"
                          /\ gate'.op = gate.op /\ gate.op = o /\ gate'.previous = gate.previous
         /\ \A t : RecoveryTarget(o, t) =>
              /\ gate.phase = "recovery-required" /\ gate'.phase = "recovery-required"
              /\ gate'.op = gate.op /\ gate.op = o /\ gate'.previous = gate.previous
         /\ MarkApplying(o) => /\ gate.phase # "open" /\ gate'.phase = "applying"
                               /\ gate'.op = gate.op /\ gate'.previous = gate.previous
         /\ \A t : MarkVerified(o, t) => /\ gate.phase # "open" /\ gate'.phase = "verified"
                                         /\ gate'.op = gate.op /\ gate'.previous = gate.previous
         /\ MarkRecoveryRequired(o) => /\ gate.phase # "open" /\ gate'.phase = "recovery-required"
                                       /\ gate'.op = gate.op /\ gate'.previous = gate.previous
         /\ \A services : Snapshot(o, services) =>
              /\ gate.phase = "applying" /\ gate'.phase = "applying"
              /\ gate'.op = gate.op /\ gate'.previous = services
         /\ Resume(o) => gate'.phase = "open"
         /\ RestoreOpen(o) => gate.previous = NoSnapshot /\ gate'.phase = "open"
<1> USE DEF GateStates, Bound, OpenGate
<1>1. ASSUME NEW t, Quiesce(o, t)
      PROVE  /\ gate.phase = "open" /\ gate'.phase = "quiesced"
             /\ gate'.op = o /\ gate'.previous = NoSnapshot
  BY <1>1, SMT DEF Quiesce
<1>2. Drained(o) => /\ gate.phase \in {"quiesced", "drained"} /\ gate'.phase = "drained"
                    /\ gate'.op = gate.op /\ gate.op = o /\ gate'.previous = gate.previous
  BY SMT DEF Drained
<1>3. ASSUME NEW t, RecoveryTarget(o, t)
      PROVE  /\ gate.phase = "recovery-required" /\ gate'.phase = "recovery-required"
             /\ gate'.op = gate.op /\ gate.op = o /\ gate'.previous = gate.previous
  BY <1>3, SMT DEF RecoveryTarget
<1>4. MarkApplying(o) => /\ gate.phase # "open" /\ gate'.phase = "applying"
                         /\ gate'.op = gate.op /\ gate'.previous = gate.previous
  BY SMT DEF MarkApplying
<1>5. ASSUME NEW t, MarkVerified(o, t)
      PROVE  /\ gate.phase # "open" /\ gate'.phase = "verified"
             /\ gate'.op = gate.op /\ gate'.previous = gate.previous
  BY <1>5, SMT DEF MarkVerified
<1>6. MarkRecoveryRequired(o) => /\ gate.phase # "open" /\ gate'.phase = "recovery-required"
                                 /\ gate'.op = gate.op /\ gate'.previous = gate.previous
  BY SMT DEF MarkRecoveryRequired
<1>7. ASSUME NEW services, Snapshot(o, services)
      PROVE  /\ gate.phase = "applying" /\ gate'.phase = "applying"
             /\ gate'.op = gate.op /\ gate'.previous = services
  BY <1>7, SMT DEF Snapshot
<1>8. Resume(o) => gate'.phase = "open"
  BY SMT DEF Resume
<1>9. RestoreOpen(o) => gate.previous = NoSnapshot /\ gate'.phase = "open"
  BY SMT DEF RestoreOpen
<1> QED BY <1>1, <1>2, <1>3, <1>4, <1>5, <1>6, <1>7, <1>8, <1>9

(* Whoever starts, the lifecycle's invariant is kept.                       *)
LEMMA StartKeepsLInv ==
  ASSUME LInv, Start
  PROVE  LInv'
<1>1. Started
  BY Starting DEF LInv
<1>2. NoneActive' <=> NoneActive
  BY <1>1 DEF Started, NoneActive
<1> QED BY <1>1, <1>2, SMTT(20) DEF Started, LInv, LTypeOK, Owned, Held, Attended, Prepared, UnfinishedChange,
                                   Bound, NoBackend

(* The shape of a coordinator's step as far as LInv is concerned.           *)
CoordStep(step) ==
  /\ coord' \in Coordinators \cup {NoCoord}
  /\ coord'.step \in {step, "off", "failed", "aborting"}
  /\ coord'.step = "aborting" => BeforeCutover
  /\ coord'.goal \in {coord.goal, "none"}
  /\ coord'.step = step /\ step \notin {"off", "failed", "aborting"} =>
       coord'.goal = coord.goal /\ coord'.op = coord.op

LEMMA ProceedOrRaise ==
  ASSUME coord \in Coordinators, NEW step \in CoordSteps \ {"aborting"},
         Answer(step) \/ Proceed(step) \/ Raise \/ Leave
  PROVE  CoordStep(step)
<1>1. CASE Answer(step)
  BY <1>1, Answering, SMT DEF CoordStep
<1>2. CASE Proceed(step)
  BY <1>2, Proceeding, SMT DEF CoordStep
<1>3. CASE Raise
  BY <1>3, Raising, SMT DEF CoordStep, CoordSteps
<1>4. CASE Leave
  BY <1>4, Leaving, SMT DEF CoordStep, CoordSteps
<1> QED BY <1>1, <1>2, <1>3, <1>4

(* Every step of a coordinator keeps the lifecycle's invariant.             *)
LEMMA CoordinatorKeepsLInv ==
  ASSUME LInv, IInv, Coordinator
  PROVE  LInv'
<1> USE DEF InStep, KeepHost, KeepGate, CoordSteps
<1>g. gate \in GateStates
  BY DEF IInv, TypeOK
<1>t. LTypeOK
  BY DEF LInv
<1>n. UNCHANGED rec => (NoneActive' <=> NoneActive)
  BY DEF NoneActive
<1>e. InventoryEmpty => NoneActive
  BY EmptyInventory DEF NoneActive
<1>1. CASE QuiesceGate
  <2>1. coord \in Coordinators /\ coord.op \in Operations
    BY <1>1, <1>t, CoordTyped DEF QuiesceGate
  <2>2. CoordStep("drain")
    BY <1>1, <2>1, ProceedOrRaise DEF QuiesceGate
  <2>3. /\ gate.phase = "open" /\ gate'.phase = "quiesced" /\ gate'.op = coord.op
        /\ (NoneActive' <=> NoneActive)
    BY <1>1, <1>g, <1>n, <1>e, GateFields DEF QuiesceGate, Quiesce, runVars
  <2> QED BY <1>1, <1>g, <2>1, <2>2, <2>3, SMTT(30)
          DEF QuiesceGate, LInv, LTypeOK, Owned, Held, Attended, Prepared, UnfinishedChange, Bound,
              CoordStep, BeforeCutover, NoBackend
<1>2. CASE DrainGate
  <2>1. coord \in Coordinators /\ coord.op \in Operations
    BY <1>2, <1>t, CoordTyped DEF DrainGate
  <2>2. CoordStep("applying")
    BY <1>2, <2>1, ProceedOrRaise DEF DrainGate
  <2>3. /\ gate.phase \in {"quiesced", "drained"} /\ gate'.phase = "drained"
        /\ gate'.op = gate.op /\ gate.op = coord.op /\ NoneActive'
    BY <1>2, <1>g, <1>n, <1>e, GateFields DEF DrainGate, Drained, runVars
  <2> QED BY <1>2, <1>g, <2>1, <2>2, <2>3, SMTT(30)
          DEF DrainGate, LInv, LTypeOK, Owned, Held, Attended, Prepared, UnfinishedChange, Bound,
              CoordStep, BeforeCutover, NoBackend
<1>3. CASE DrainRefused
  <2>1. coord \in Coordinators /\ coord.op \in Operations
    BY <1>3, <1>t, CoordTyped DEF DrainRefused
  <2>2. CoordStep("failed")
    BY <1>3, <2>1, ProceedOrRaise DEF DrainRefused
  <2>3. UNCHANGED gate /\ (NoneActive' <=> NoneActive)
    BY <1>3, <1>g, <1>n, <1>e, GateFields DEF DrainRefused, vars
  <2> QED BY <1>3, <1>g, <2>1, <2>2, <2>3, SMTT(30)
          DEF DrainRefused, LInv, LTypeOK, Owned, Held, Attended, Prepared, UnfinishedChange, Bound,
              CoordStep, BeforeCutover, NoBackend
<1>4. CASE Retarget
  <2>1. coord \in Coordinators /\ coord.op \in Operations
    BY <1>4, <1>t, CoordTyped DEF Retarget
  <2>2. CoordStep("applying")
    BY <1>4, <2>1, ProceedOrRaise DEF Retarget
  <2>3. /\ gate.phase = "recovery-required" /\ gate'.phase = "recovery-required"
        /\ gate'.op = gate.op /\ gate.op = coord.op /\ gate'.previous = gate.previous
        /\ NoneActive'
    BY <1>4, <1>g, <1>n, <1>e, GateFields DEF Retarget, RecoveryTarget, runVars
  <2> QED BY <1>4, <1>g, <2>1, <2>2, <2>3, SMTT(30)
          DEF Retarget, LInv, LTypeOK, Owned, Held, Attended, Prepared, UnfinishedChange, Bound,
              CoordStep, BeforeCutover, NoBackend
<1>5. CASE Applying
  <2>1. coord \in Coordinators /\ coord.op \in Operations
    BY <1>5, <1>t, CoordTyped DEF Applying
  <2>2. CoordStep(IF coord.goal = "resume" THEN "check" ELSE "launch")
    BY <1>5, <2>1, ProceedOrRaise DEF Applying
  <2>3. /\ gate.phase # "open" /\ gate'.phase = "applying"
        /\ gate'.op = gate.op /\ gate'.previous = gate.previous
        /\ (NoneActive' <=> NoneActive)
    BY <1>5, <1>g, <1>n, <1>e, GateFields DEF Applying, MarkApplying, runVars
  <2> QED BY <1>5, <1>g, <2>1, <2>2, <2>3, SMTT(30)
          DEF Applying, LInv, LTypeOK, Owned, Held, Attended, Prepared, UnfinishedChange, Bound,
              CoordStep, BeforeCutover, NoBackend
<1>6. CASE PostCheck
  <2>1. coord \in Coordinators /\ coord.op \in Operations
    BY <1>6, <1>t, CoordTyped DEF PostCheck
  <2>2. CoordStep("verify")
    BY <1>6, <2>1, ProceedOrRaise DEF PostCheck
  <2>3. UNCHANGED gate /\ (NoneActive' <=> NoneActive)
    BY <1>6, <1>g, <1>n, <1>e, GateFields DEF PostCheck, vars
  <2> QED BY <1>6, <1>g, <2>1, <2>2, <2>3, SMTT(30)
          DEF PostCheck, LInv, LTypeOK, Owned, Held, Attended, Prepared, UnfinishedChange, Bound,
              CoordStep, BeforeCutover, NoBackend
<1>7. CASE Verify
  <2>1. coord \in Coordinators /\ coord.op \in Operations
    BY <1>7, <1>t, CoordTyped DEF Verify
  <2>2. CoordStep("resume")
    BY <1>7, <2>1, ProceedOrRaise DEF Verify
  <2>3. /\ gate.phase # "open" /\ gate'.phase = "verified"
        /\ gate'.op = gate.op /\ gate'.previous = gate.previous
        /\ (NoneActive' <=> NoneActive)
    BY <1>7, <1>g, <1>n, <1>e, GateFields DEF Verify, MarkVerified, runVars
  <2> QED BY <1>7, <1>g, <2>1, <2>2, <2>3, SMTT(30)
          DEF Verify, LInv, LTypeOK, Owned, Held, Attended, Prepared, UnfinishedChange, Bound,
              CoordStep, BeforeCutover, NoBackend
<1>8. CASE ResumeGate
  <2>1. coord \in Coordinators /\ coord.op \in Operations
    BY <1>8, <1>t, CoordTyped DEF ResumeGate
  <2>2. CoordStep("failed")
    BY <1>8, <2>1, ProceedOrRaise DEF ResumeGate
  <2>3. gate'.phase = "open" /\ (NoneActive' <=> NoneActive)
    BY <1>8, <1>g, <1>n, <1>e, GateFields DEF ResumeGate, Resume, runVars
  <2> QED BY <1>8, <1>g, <2>1, <2>2, <2>3, SMTT(30)
          DEF ResumeGate, LInv, LTypeOK, Owned, Held, Attended, Prepared, UnfinishedChange, Bound,
              CoordStep, BeforeCutover, NoBackend
<1>9. CASE CommandFails
  <2>1. coord \in Coordinators /\ coord.op \in Operations
    BY <1>9, <1>t, CoordTyped DEF CommandFails
  <2>2. CoordStep("failed")
    BY <1>9, <2>1, ProceedOrRaise DEF CommandFails
  <2>3. UNCHANGED gate /\ (NoneActive' <=> NoneActive)
    BY <1>9, <1>g, <1>n, <1>e, GateFields DEF CommandFails, vars
  <2> QED BY <1>9, <1>g, <2>1, <2>2, <2>3, SMTT(30)
          DEF CommandFails, LInv, LTypeOK, Owned, Held, Attended, Prepared, UnfinishedChange, Bound,
              CoordStep, BeforeCutover, NoBackend
<1>10. CASE MarkFailed
  <2>1. coord \in Coordinators /\ coord.op \in Operations
    BY <1>10, <1>t, CoordTyped DEF MarkFailed
  <2>2. CoordStep("failed")
    BY <1>10, <2>1, ProceedOrRaise DEF MarkFailed
  <2>3. /\ gate.phase # "open" /\ gate'.phase = "recovery-required"
        /\ gate'.op = gate.op /\ gate'.previous = gate.previous
        /\ (NoneActive' <=> NoneActive)
    BY <1>10, <1>g, <1>n, <1>e, GateFields DEF MarkFailed, MarkRecoveryRequired, runVars
  <2> QED BY <1>10, <1>g, <2>1, <2>2, <2>3, SMTT(30)
          DEF MarkFailed, LInv, LTypeOK, Owned, Held, Attended, Prepared, UnfinishedChange, Bound,
              CoordStep, BeforeCutover, NoBackend
<1>11. CASE MarkFailedSwallowed
  <2>1. coord \in Coordinators /\ coord.op \in Operations
    BY <1>11, <1>t, CoordTyped DEF MarkFailedSwallowed
  <2>2. CoordStep("failed")
    BY <1>11, <2>1, ProceedOrRaise DEF MarkFailedSwallowed
  <2>3. UNCHANGED gate /\ (NoneActive' <=> NoneActive)
    BY <1>11, <1>g, <1>n, <1>e, GateFields DEF MarkFailedSwallowed, vars
  <2> QED BY <1>11, <1>g, <2>1, <2>2, <2>3, SMTT(30)
          DEF MarkFailedSwallowed, LInv, LTypeOK, Owned, Held, Attended, Prepared, UnfinishedChange, Bound,
              CoordStep, BeforeCutover, NoBackend
<1>12. CASE Abort
  <2>1. coord \in Coordinators /\ coord.op \in Operations
    BY <1>12, <1>t, CoordTyped DEF Abort
  <2>2. CoordStep("failed")
    BY <1>12, <2>1, ProceedOrRaise DEF Abort
  <2>3. gate.previous = NoSnapshot /\ gate'.phase = "open" /\ (NoneActive' <=> NoneActive)
    BY <1>12, <1>g, <1>n, <1>e, GateFields DEF Abort, RestoreOpen, runVars
  <2> QED BY <1>12, <1>g, <2>1, <2>2, <2>3, SMTT(30)
          DEF Abort, LInv, LTypeOK, Owned, Held, Attended, Prepared, UnfinishedChange, Bound,
              CoordStep, BeforeCutover, NoBackend
<1>13. CASE AbortUnproven
  <2>1. coord \in Coordinators /\ coord.op \in Operations
    BY <1>13, <1>t, CoordTyped DEF AbortUnproven
  <2>2. CoordStep("failed")
    BY <1>13, <2>1, ProceedOrRaise DEF AbortUnproven
  <2>3. UNCHANGED gate /\ (NoneActive' <=> NoneActive)
    BY <1>13, <1>g, <1>n, <1>e, GateFields DEF AbortUnproven, vars
  <2> QED BY <1>13, <1>g, <2>1, <2>2, <2>3, SMTT(30)
          DEF AbortUnproven, LInv, LTypeOK, Owned, Held, Attended, Prepared, UnfinishedChange, Bound,
              CoordStep, BeforeCutover, NoBackend
<1>14. CASE CoordDies
  <2>1. coord' = NoCoord /\ coord'.step = "off" /\ coord'.goal = "none"
    BY <1>14, Leaving DEF CoordDies
  <2>2. UNCHANGED gate /\ (NoneActive' <=> NoneActive)
    BY <1>14, <1>n DEF CoordDies, vars
  <2> QED BY <1>14, <2>1, <2>2, SMTT(30)
          DEF CoordDies, LInv, LTypeOK, Owned, Held, Attended, Prepared, UnfinishedChange, Bound
<1>15. CASE LaunchBackend
  <2>1. coord \in Coordinators /\ coord.op \in Operations /\ coord.target \in Targets
    BY <1>15, <1>t, CoordTyped DEF LaunchBackend
  <2>2. coord' \in Coordinators /\ coord'.step = "await" /\ coord'.goal = coord.goal /\ coord'.op = coord.op
    BY <1>15, <2>1, Proceeding DEF LaunchBackend
  <2>3. UNCHANGED gate /\ (NoneActive' <=> NoneActive)
    BY <1>15, <1>n DEF LaunchBackend, vars
  <2>4. backend' \in Backends
    <3>1. (coord.goal = "recover") \in BOOLEAN
      OBVIOUS
    <3> QED BY <1>15, <2>1, <3>1, Zenon DEF LaunchBackend, Backends
  <2>5. backend'.step = "snapshot" /\ backend'.op = coord.op
    BY <1>15, SMT DEF LaunchBackend
  <2> QED BY <1>15, <2>1, <2>2, <2>3, <2>4, <2>5, SMTT(30)
          DEF LaunchBackend, LInv, LTypeOK, Owned, Held, Attended, Prepared, UnfinishedChange, Bound
<1> QED BY <1>1, <1>2, <1>3, <1>4, <1>5, <1>6, <1>7, <1>8, <1>9, <1>10, <1>11, <1>12, <1>13, <1>14, <1>15
        DEF Coordinator

(* The backend at another step, or gone.                                    *)
LEMMA BackendMoves ==
  ASSUME LTypeOK, backend.step # "none"
  PROVE  /\ \A step \in {"begin", "change", "commit"} :
              backend' = [backend EXCEPT !.step = step] =>
                backend' \in Backends /\ backend'.step = step /\ backend'.op = backend.op
         /\ backend' = NoBackend => backend'.step = "none"
<1>1. backend \in Backends
  BY BackendTyped
<1>2. ASSUME NEW step \in {"begin", "change", "commit"}, backend' = [backend EXCEPT !.step = step]
      PROVE  backend' \in Backends /\ backend'.step = step /\ backend'.op = backend.op
  <2>1. [backend EXCEPT !.step = step] \in Backends
    BY <1>1, Zenon DEF Backends
  <2> QED BY <1>1, <1>2, <2>1, SMT DEF Backends
<1> QED BY <1>2, SMT DEF NoBackend

(* A coordinator that still waits moves on with the backend's end.          *)
LEMMA Informing ==
  ASSUME LTypeOK, NEW step \in {"verify", "failed"}, Informed(step)
  PROVE  \/ /\ coord.step = "await" /\ coord' \in Coordinators
            /\ coord'.step = step /\ coord'.goal = coord.goal /\ coord'.op = coord.op
         \/ coord.step # "await" /\ coord' = coord
<1>1. CASE coord.step = "await"
  BY <1>1, CoordTyped, Proceeding DEF Informed, InStep, CoordSteps
<1> QED BY <1>1 DEF Informed, InStep

(* Every step of the backend keeps the lifecycle's invariant, whoever waits *)
(* for it or has started beside it.                                        *)
LEMMA BackendKeepsLInv ==
  ASSUME LInv, IInv, Backend
  PROVE  LInv'
<1>g. gate \in GateStates
  BY DEF IInv, TypeOK
<1>t. LTypeOK
  BY DEF LInv
<1>n. UNCHANGED rec => (NoneActive' <=> NoneActive)
  BY DEF NoneActive
<1>1. CASE TakeSnapshot
  <2>1. backend \in Backends /\ backend # NoBackend
    BY <1>1, <1>t, BackendTyped DEF TakeSnapshot
  <2>2. backend' \in Backends /\ backend'.step = "begin" /\ backend'.op = backend.op
    BY <1>1, <1>t, BackendMoves DEF TakeSnapshot
  <2>3. /\ gate'.phase = gate.phase /\ gate'.op = gate.op /\ gate'.previous # NoSnapshot
        /\ (NoneActive' <=> NoneActive)
    BY <1>1, <1>g, <1>n, GateFields, SnapshotsAssumption
       DEF TakeSnapshot, KeepGate, vars, Snapshot, runVars
  <2> QED BY <1>1, <1>g, <2>1, <2>2, <2>3, SMTT(30)
          DEF TakeSnapshot, LInv, LTypeOK, Owned, Held, Attended, Prepared, UnfinishedChange, Bound
<1>2. CASE BeginEvidence
  <2>1. backend \in Backends /\ backend # NoBackend /\ backend.target \in Targets
    BY <1>2, <1>t, BackendTyped DEF BeginEvidence
  <2>2. backend' \in Backends /\ backend'.step = "change" /\ backend'.op = backend.op
    BY <1>2, <1>t, BackendMoves DEF BeginEvidence
  <2>3. UNCHANGED gate /\ (NoneActive' <=> NoneActive)
    BY <1>2, <1>n DEF BeginEvidence, KeepGate, vars
  <2>4. evidence' \in Targets /\ evidence' # NoTarget
    BY <1>2, <1>t, <2>1, TargetsAssumption DEF BeginEvidence, LTypeOK
  <2> QED BY <1>2, <1>g, <2>1, <2>2, <2>3, <2>4, SMTT(30)
          DEF BeginEvidence, LInv, LTypeOK, Owned, Held, Attended, Prepared, UnfinishedChange, Bound
<1>3. CASE ChangeRelease
  <2>1. backend \in Backends /\ backend # NoBackend /\ backend.target \in Targets
    BY <1>3, <1>t, BackendTyped DEF ChangeRelease
  <2>2. backend' \in Backends /\ backend'.step = "commit" /\ backend'.op = backend.op
    BY <1>3, <1>t, BackendMoves DEF ChangeRelease
  <2>3. UNCHANGED gate /\ (NoneActive' <=> NoneActive)
    BY <1>3, <1>n DEF ChangeRelease, KeepGate, vars
  <2>4. installed' \in Releases
    BY <1>3, <2>1, Zenon DEF ChangeRelease, Releases
  <2> QED BY <1>3, <1>g, <2>1, <2>2, <2>3, <2>4, SMTT(30)
          DEF ChangeRelease, LInv, LTypeOK, Owned, Held, Attended, Prepared, UnfinishedChange, Bound
<1>4. CASE CommitRelease
  <2>1. backend \in Backends /\ backend # NoBackend
    BY <1>4, <1>t, BackendTyped DEF CommitRelease
  <2>2. backend'.step = "none" /\ backend' = NoBackend
    BY <1>4, <1>t, BackendMoves DEF CommitRelease
  <2>3. UNCHANGED gate /\ (NoneActive' <=> NoneActive)
    BY <1>4, <1>n DEF CommitRelease, KeepGate, vars
  <2>4. installed' \in Releases /\ installed'.whole
    <3>1. installed \in Releases
      BY <1>t DEF LTypeOK
    <3>2. [installed EXCEPT !.whole = TRUE] \in Releases
      BY <3>1, Zenon DEF Releases
    <3>3. installed' = [installed EXCEPT !.whole = TRUE]
      BY <1>4 DEF CommitRelease
    <3> QED BY <3>1, <3>2, <3>3, SMT DEF Releases
  <2>5. /\ coord.step = "await" =>
             /\ coord' \in Coordinators
             /\ coord'.step = "verify" /\ coord'.goal = coord.goal /\ coord'.op = coord.op
        /\ coord.step # "await" => coord' = coord
    BY <1>4, <1>t, Informing DEF CommitRelease
  <2> QED BY <1>4, <1>g, <2>1, <2>2, <2>3, <2>4, <2>5, SMTT(30)
          DEF CommitRelease, LInv, LTypeOK, Owned, Held, Attended, Prepared, UnfinishedChange, Bound
<1>5. CASE BackendFails
  <2>2. backend'.step = "none" /\ backend' = NoBackend /\ backend # NoBackend
    BY <1>5, SMT DEF BackendFails, NoBackend
  <2>3. UNCHANGED gate /\ (NoneActive' <=> NoneActive)
    BY <1>5, <1>n DEF BackendFails, KeepGate, vars
  <2>5. /\ coord.step = "await" =>
             /\ coord' \in Coordinators
             /\ coord'.step = "failed" /\ coord'.goal = coord.goal /\ coord'.op = coord.op
        /\ coord.step # "await" => coord' = coord
    BY <1>5, <1>t, Informing DEF BackendFails
  <2> QED BY <1>5, <1>g, <2>2, <2>3, <2>5, SMTT(30)
          DEF BackendFails, LInv, LTypeOK, Owned, Held, Attended, Prepared, UnfinishedChange, Bound
<1> QED BY <1>1, <1>2, <1>3, <1>4, <1>5 DEF Backend

(* On a closed gate no step of an attempt makes a record active.            *)
LEMMA AttemptOnClosedGate ==
  ASSUME IInv, NEW r \in Runs, Attempt(r)
  PROVE  /\ UNCHANGED gate
         /\ rec'[r].life = "active" => rec[r].life = "active" \/ gate.phase = "open"
         /\ \A q \in Runs \ {r} : rec'[q] = rec[q] /\ worker'[q] = worker[q]
<1>1. TypeOK /\ RunInv(r)
  BY DEF IInv
<1>2. CASE \E s \in Slots : Admit(r, s) \/ AdmitInterrupted(r, s)
  <2>1. gate.phase = "open"
    BY <1>2 DEF Admit, AdmitInterrupted, Admissible
  <2> QED BY <1>1, <2>1, AttemptFrame
<1>3. CASE \A s \in Slots : ~Admit(r, s) /\ ~AdmitInterrupted(r, s)
  <2>1. KeepsRights(r)
    <3>1. CASE WorkerExits(r)
      BY <1>1, <3>1 DEF WorkerExits, KeepsRights, MayRun
    <3> QED BY <1>1, <1>3, <3>1, RightsAdmission, RightsController, RightsFailure, RightsRecovery
            DEF Attempt
  <2> QED BY <1>1, <2>1, AttemptFrame DEF KeepsRights
<1> QED BY <1>2, <1>3

(* Attempts keep the lifecycle's invariant.                                 *)
LEMMA AttemptKeepsLInv ==
  ASSUME LInv, IInv, NEW r \in Runs, AttemptStep(r)
  PROVE  LInv'
<1>1. UNCHANGED gate /\ UNCHANGED lifeVars
  BY AttemptOnClosedGate DEF AttemptStep
<1>2. NoneActive /\ gate.phase # "open" => NoneActive'
  BY AttemptOnClosedGate DEF AttemptStep, NoneActive
<1> QED BY <1>1, <1>2, SMTT(30) DEF lifeVars, LInv, LTypeOK, Owned, Held, Attended, Prepared,
                                   UnfinishedChange, Bound

LEMMA LNextKeepsLInv == LInv /\ IInv /\ [LNext]_allVars => LInv'
<1> SUFFICES ASSUME LInv, IInv, [LNext]_allVars PROVE LInv'
  OBVIOUS
<1>1. CASE DeclareRecovery
  <2>1. PICK o \in Operations : MarkRecoveryRequired(o)
    BY <1>1 DEF DeclareRecovery
  <2>2. /\ gate.phase # "open" /\ gate'.phase = "recovery-required"
        /\ gate'.op = gate.op /\ gate'.previous = gate.previous
        /\ (NoneActive' <=> NoneActive)
    BY <2>1, GateFields DEF IInv, TypeOK, MarkRecoveryRequired, runVars, NoneActive
  <2>3. coord.step = "off" /\ backend = NoBackend /\ UNCHANGED lifeVars
    BY <1>1, SMT DEF DeclareRecovery, NoCoord
  <2> QED BY <2>2, <2>3, SMTT(30) DEF lifeVars, LInv, LTypeOK, Owned, Held, Attended, Prepared,
                                      UnfinishedChange, Bound
<1>2. CASE UNCHANGED allVars
  BY <1>2 DEF allVars, vars, lifeVars, LInv, LTypeOK, Owned, Held, Attended, Prepared, UnfinishedChange,
              Bound, NoneActive
<1> QED BY <1>1, <1>2, StartKeepsLInv, CoordinatorKeepsLInv, BackendKeepsLInv, AttemptKeepsLInv DEF LNext

LEMMA LInitLInv == LInit => LInv
<1> SUFFICES ASSUME LInit PROVE LInv
  OBVIOUS
<1>0. installed \in [target : Targets, whole : {TRUE}]
  BY DEF LInit
<1>1. installed \in Releases /\ installed.whole
  BY <1>0, Zenon DEF Releases
<1>2. coord.step = "off" /\ backend.step = "none" /\ gate.phase = "open"
  BY SMT DEF LInit, Init, NoCoord, NoBackend, OpenGate
<1> QED BY <1>1, <1>2, SMT DEF LInit, LInv, LTypeOK, Owned, Held, Attended, Prepared, UnfinishedChange

-----------------------------------------------------------------------------
(* The theorems *)

(* Every behaviour is one of AdmissionGate: each step is one of the gate's   *)
(* actions or leaves the gate and the attempts alone.  The lemma shows      *)
(* nothing of the code; it brings the invariant IInv of AdmissionGate       *)
(* to the attempts beside the lifecycle.                                    *)
LEMMA LifecycleUsesGate == LSpec => Spec
<1>1. LInit => Init
  BY DEF LInit
<1>2. LInit => LInv
  BY LInitLInv
<1>3. LInv /\ IInv /\ [LNext]_allVars => LInv'
  BY LNextKeepsLInv
<1>4. LInv /\ [LNext]_allVars => [Next]_vars
  BY LifeStepsGate DEF LInv
<1>5. IInv /\ [Next]_vars => IInv'
  BY NextIInv
<1>6. Init => IInv
  BY InitIInv
<1> QED BY <1>1, <1>2, <1>3, <1>4, <1>5, <1>6, PTL DEF LSpec, Spec

(* The lifecycle's inductive invariant, beside the gate's.                  *)
THEOREM LifecycleInvariance == LSpec => []LInv
<1>1. LInit => LInv
  BY LInitLInv
<1>2. LInv /\ IInv /\ [LNext]_allVars => LInv'
  BY LNextKeepsLInv
<1>3. LSpec => []IInv
  BY LifecycleUsesGate, Invariance, PTL
<1> QED BY <1>1, <1>2, <1>3, PTL DEF LSpec

(* Coordinator, backend, release and evidence keep their shape.             *)
THEOREM LifecycleTypeCorrect == LSpec => []LTypeOK
<1>1. LInv => LTypeOK
  BY DEF LInv
<1> QED BY <1>1, LifecycleInvariance, PTL

(* The installation changes only in silence.                               *)
THEOREM InstallationIsQuiet == LSpec => []QuietInstall
<1>1. LInv /\ IInv => QuietInstall
  <2> SUFFICES ASSUME LInv, IInv, backend # NoBackend \/ ~installed.whole, NEW r \in Runs
               PROVE  ~Running(r) /\ ~MayRun(r)
    BY DEF QuietInstall
  <2>1. rec[r].life # "active"
    BY DEF LInv, Attended, UnfinishedChange, NoneActive
  <2> QED BY <2>1 DEF IInv, RunInv, JournalTracksWorker, Running, MayRun
<1>2. LSpec => []IInv
  BY LifecycleUsesGate, Invariance, PTL
<1> QED BY <1>1, <1>2, LifecycleInvariance, PTL

(* The gate is open only before a complete release.                         *)
THEOREM OpenGateIsWhole == LSpec => []OpenIsWhole
<1>1. LInv => OpenIsWhole
  BY SMT DEF LInv, Attended, UnfinishedChange, OpenIsWhole
<1> QED BY <1>1, LifecycleInvariance, PTL

(* An unfinished change is on record in the evidence and in the gate.       *)
THEOREM UnfinishedStaysRecorded == LSpec => []UnfinishedIsRecorded
<1>1. LInv => UnfinishedIsRecorded
  BY SMT DEF LInv, UnfinishedChange, UnfinishedIsRecorded
<1> QED BY <1>1, LifecycleInvariance, PTL

-----------------------------------------------------------------------------
(* The lifecycle implements QuietUpgrade *)

USE DEF KeepWorker, Goto, At, runVars

(* Three steps of an attempt move its worker.                               *)
LEMMA WorkerMoves ==
  ASSUME NEW r \in Runs, Attempt(r)
  PROVE  UNCHANGED worker \/ StartWorker(r) \/ WorkerReturns(r) \/ WorkerExits(r)
<1>1. CASE Admission(r)
  BY <1>1 DEF Admission, Admit, AdmitBlocked, AdmitInterrupted, AdmitUnconsumed,
     AdmitBlockedInterrupted, Replay, ReplayRefused, ReplayRefusedInterrupted, ReplayUnconsumed
<1>2. CASE Controller(r)
  BY <1>2 DEF Controller, Begin, MissingJournal, ReplayOutcome, Continue, ReexecutionRefused,
     RestoreOutcome, PreflightPassed, Prepare, Collect, CollectRejected, Publish, Finish, SaveOutcome,
     Fail, TerminalOutcome, TerminalRefused, SaveTerminal, Handoff, HandoffRefused, Release
<1>3. CASE Failure(r)
  BY <1>3 DEF Failure, PreflightRejected, DispatchRefused, ReturnUnproven, PublishUncertain,
     FinishInterrupted, TerminalInterrupted, HandoffInterrupted, Crash, PrepublicationInterrupted
<1>4. CASE Recovery(r)
  BY <1>4 DEF Recovery, BeginRecovery, RecoverPush, RecoverFinish, RecoverSave, RecoverPushFails,
     RecoverFinishFails, RecoverPrepublication
<1> QED BY <1>1, <1>2, <1>3, <1>4 DEF Attempt

Busy    == {r \in Runs : rec[r].life = "active"}
Working == {r \in Runs : worker[r] = "running"}

QuietStep == [Quiet!Next]_(Quiet!vars)

(* An attempt enters while admission is open, works while it is busy and     *)
(* leaves without a worker.                                                *)
LEMMA AttemptIsQuiet ==
  ASSUME IInv, IInv', NEW r \in Runs, AttemptStep(r)
  PROVE  QuietStep
<1>1. Attempt(r) /\ UNCHANGED <<gate, installed>>
  BY AttemptOnClosedGate DEF AttemptStep, lifeVars
<1>2. TypeOK /\ TypeOK'
  BY DEF IInv
<1>3. \A q \in Runs \ {r} : (q \in Busy' <=> q \in Busy) /\ (q \in Working' <=> q \in Working)
  BY <1>1, AttemptOnClosedGate DEF Busy, Working
<1>4. CASE StartWorker(r)
  <2>1. UNCHANGED rec /\ worker'[r] = "running" /\ rec[r].life = "active"
    BY <1>2, <1>4, SMT DEF StartWorker, TypeOK, IInv, RunInv, JournalTracksController, Executing
  <2>2. Busy' = Busy /\ Working' = Working \cup {r} /\ r \in Busy
    BY <1>3, <2>1 DEF Busy, Working
  <2>3. Quiet!Work(r)
    BY <1>1, <2>2 DEF Quiet!Work, Busy, Working
  <2> QED BY <2>3 DEF QuietStep, Quiet!Next
<1>5. CASE WorkerReturns(r) \/ WorkerExits(r)
  <2>1. UNCHANGED rec /\ worker'[r] = "gone"
    BY <1>2, <1>5, SMT DEF WorkerReturns, WorkerExits, TypeOK
  <2>2. Busy' = Busy /\ Working' = Working \ {r}
    BY <1>3, <2>1 DEF Busy, Working
  <2>3. Quiet!Rest(r)
    BY <1>1, <2>2 DEF Quiet!Rest, Busy, Working
  <2> QED BY <2>3 DEF QuietStep, Quiet!Next
<1>6. CASE UNCHANGED worker
  <2>1. Working' = Working
    BY <1>6 DEF Working
  <2>2. CASE r \in Busy' <=> r \in Busy
    <3>1. Busy' = Busy
      BY <1>3, <2>2 DEF Busy
    <3> QED BY <1>1, <2>1, <3>1 DEF QuietStep, Quiet!vars, Busy, Working
  <2>3. CASE r \in Busy' /\ r \notin Busy
    <3>1. gate.phase = "open"
      BY <1>1, <2>3, AttemptOnClosedGate DEF Busy
    <3>2. Busy' = Busy \cup {r}
      BY <1>3, <2>3 DEF Busy
    <3>3. Quiet!Enter(r)
      BY <1>1, <2>1, <3>1, <3>2 DEF Quiet!Enter, Busy, Working
    <3> QED BY <3>3 DEF QuietStep, Quiet!Next
  <2>4. CASE r \notin Busy' /\ r \in Busy
    <3>1. r \notin Working
      BY <2>1, <2>4 DEF Working, Busy, IInv, RunInv, JournalTracksWorker
    <3>2. Busy' = Busy \ {r}
      BY <1>3, <2>4 DEF Busy
    <3>3. Quiet!Leave(r)
      BY <1>1, <2>1, <3>1, <3>2 DEF Quiet!Leave, Busy, Working
    <3> QED BY <3>3 DEF QuietStep, Quiet!Next
  <2> QED BY <2>2, <2>3, <2>4
<1> QED BY <1>1, <1>4, <1>5, <1>6, WorkerMoves

(* A step that leaves attempts and release alone closes or opens admission,  *)
(* and opens it only on a whole release.                                   *)
LEMMA GateMoveIsQuiet ==
  ASSUME LInv', UNCHANGED <<rec, worker, installed>>
  PROVE  QuietStep
<1>1. Busy' = Busy /\ Working' = Working
  BY DEF Busy, Working
<1>2. CASE gate.phase = "open" <=> gate'.phase = "open"
  <2>1. (gate'.phase = "open") = (gate.phase = "open")
    BY <1>2
  <2> QED BY <1>1, <2>1 DEF QuietStep, Quiet!vars, Busy, Working
<1>3. CASE gate'.phase # "open"
  <2>1. Quiet!Close
    BY <1>1, <1>3 DEF Quiet!Close, Busy, Working
  <2> QED BY <2>1 DEF QuietStep, Quiet!Next
<1>4. CASE gate'.phase = "open"
  <2>1. installed.whole
    BY <1>4, SMT DEF LInv, UnfinishedChange
  <2>2. Quiet!Open
    BY <1>1, <1>4, <2>1 DEF Quiet!Open, Busy, Working
  <2> QED BY <2>2 DEF QuietStep, Quiet!Next
<1> QED BY <1>2, <1>3, <1>4

(* The release changes behind a closed gate with nobody busy.               *)
LEMMA ReleaseIsQuiet ==
  ASSUME LInv, LInv', ChangeRelease \/ CommitRelease
  PROVE  QuietStep
<1>1. backend # NoBackend
  BY BackendTyped DEF LInv, ChangeRelease, CommitRelease
<1>2. gate.phase # "open" /\ NoneActive
  BY <1>1, SMT DEF LInv, Attended
<1>3. UNCHANGED <<gate, rec, worker>>
  BY DEF ChangeRelease, CommitRelease, KeepGate, vars
<1>4. Busy = {} /\ Busy' = Busy /\ Working' = Working
  BY <1>2, <1>3 DEF Busy, Working, NoneActive
<1>5. installed' \in [target : Targets, whole : BOOLEAN]
  BY DEF LInv, LTypeOK, Releases
<1>6. Quiet!Change
  BY <1>2, <1>3, <1>4, <1>5 DEF Quiet!Change, Quiet!Releases, Busy, Working
<1> QED BY <1>6 DEF QuietStep, Quiet!Next

LEMMA LNextIsQuiet == LInv /\ LInv' /\ IInv /\ IInv' /\ [LNext]_allVars => QuietStep
<1> SUFFICES ASSUME LInv, LInv', IInv, IInv', [LNext]_allVars PROVE QuietStep
  OBVIOUS
<1>1. CASE Start
  <2>1. Started
    BY <1>1, Starting DEF LInv
  <2> QED BY <2>1, GateMoveIsQuiet DEF Started
<1>2. CASE Coordinator
  <2>1. UNCHANGED <<rec, worker, installed>>
    BY <1>2 DEF Coordinator, QuiesceGate, Quiesce, DrainGate, Drained, DrainRefused, Retarget,
       RecoveryTarget, Applying, MarkApplying, LaunchBackend, PostCheck, Verify, MarkVerified, ResumeGate,
       Resume, CommandFails, MarkFailed, MarkRecoveryRequired, MarkFailedSwallowed, Abort, RestoreOpen,
       AbortUnproven, CoordDies, KeepHost, KeepGate, vars
  <2> QED BY <2>1, GateMoveIsQuiet
<1>3. CASE DeclareRecovery
  <2>1. UNCHANGED <<rec, worker, installed>>
    BY <1>3 DEF DeclareRecovery, MarkRecoveryRequired, lifeVars
  <2> QED BY <2>1, GateMoveIsQuiet
<1>4. CASE TakeSnapshot \/ BeginEvidence \/ BackendFails
  <2>1. UNCHANGED <<rec, worker, installed>>
    BY <1>4 DEF TakeSnapshot, Snapshot, BeginEvidence, BackendFails, KeepGate, vars
  <2> QED BY <2>1, GateMoveIsQuiet
<1>5. CASE ChangeRelease \/ CommitRelease
  BY <1>5, ReleaseIsQuiet
<1>6. CASE \E r \in Runs : AttemptStep(r)
  BY <1>6, AttemptIsQuiet
<1>7. CASE UNCHANGED allVars
  BY <1>7, GateMoveIsQuiet DEF allVars, vars, lifeVars
<1> QED BY <1>1, <1>2, <1>3, <1>4, <1>5, <1>6, <1>7 DEF LNext, Backend

LEMMA LInitIsQuiet == LInit => Quiet!Init
<1> SUFFICES ASSUME LInit PROVE Quiet!Init
  OBVIOUS
<1>1. Busy = {} /\ Working = {}
  BY SMT DEF LInit, Init, NoRecord, Busy, Working
<1>2. (gate.phase = "open") = TRUE
  BY SMT DEF LInit, Init, OpenGate
<1>3. installed \in [target : Targets, whole : {TRUE}]
  BY DEF LInit
<1> QED BY <1>1, <1>2, <1>3 DEF Quiet!Init, Busy, Working

(* What an installation promises holds of the lifecycle: releases change     *)
(* only behind a closed gate with nobody busy, admission opens only on a    *)
(* whole release, whoever dies or fails in between.                        *)
THEOREM LifecycleImplementsQuietUpgrade == LSpec => QuietSpec
<1>1. LInit => Quiet!Init
  BY LInitIsQuiet
<1>2. LInv /\ LInv' /\ IInv /\ IInv' /\ [LNext]_allVars => [Quiet!Next]_(Quiet!vars)
  BY LNextIsQuiet DEF QuietStep
<1>3. LSpec => []IInv
  BY LifecycleUsesGate, Invariance, PTL
<1> QED BY <1>1, <1>2, <1>3, LifecycleInvariance, PTL DEF LSpec, QuietSpec, Quiet!Spec

=============================================================================
