------------------------ MODULE CleanReinstallProofs ------------------------
(***************************************************************************)
(* What CleanReinstall promises, for every set of releases and of          *)
(* overlapping commands and for any number of failures.  None of the       *)
(* properties is inductive.  Behind them are: what the operation lock      *)
(* stands for at each step of a helper (Held), that one backend at a time  *)
(* has begun and keeps its record while it installs (OneBackend,           *)
(* Installing), that the gate of a pool lets one command past it           *)
(* (Contest), and what that command has proved about the evidence of the   *)
(* earlier ones before it opens the gate (Proved).                         *)
(***************************************************************************)
EXTENDS CleanReinstall, TLAPS

Journals == [stage : Stages, source : Releases, target : Releases, op : 0..MaxOps] \cup {NoJournal}
RunType  == [at : Points \cup {"idle"}, target : Releases \cup {None}, op : 0..MaxOps,
             source : Releases \cup {None}, units : SUBSET Units, digest : Journals,
             seen : BOOLEAN, i : 0..6]
Files    == {"dir", "marker", "runner", "journal", "apply", "decommission"}
Kept     == [runtime : Releases \cup {None}, op : 0..MaxOps, kept : SUBSET Files]
Closed   == [phase : {"quiesced", "drained", "applying", "recovery-required", "verified"},
             op : 1..MaxOps, target : Releases]

\* The shape of files, units and commands.
EvidenceType == /\ journal \in Journals /\ torn \in BOOLEAN /\ record \in Releases \cup {None}
                /\ archive \in [Archives -> Kept]
MachineType  == /\ tree \in [dir : BOOLEAN, current : Releases \cup {None}, runner : BOOLEAN]
                /\ marker \in BOOLEAN /\ units \in SUBSET Units /\ enabled \in SUBSET Units
                /\ job \in {"none", "running", "detached"}
GateType     == gate \in {Open, NoGate} \cup Closed
ControlType  == host \in Runs \cup {None} /\ flock \in Runs \cup {None}
WorldType    == attempt \in BOOLEAN /\ ops \in 0..MaxOps /\ faults \in 0..MaxFaults
RunsType     == /\ runs \in [Runs -> RunType]
                /\ \A r \in Runs : /\ runs[r].at # "idle" => runs[r].target \in Releases
                                   /\ runs[r].at \in {"lock", "journal"} => runs[r].source \in Releases
                                   /\ runs[r].at = "stop" => runs[r].i >= 1
                                   /\ runs[r].at = "idle" => runs[r] = Idle
                                   /\ runs[r].at = "quiesce" => runs[r].op # 0
Types == EvidenceType /\ MachineType /\ GateType /\ ControlType /\ WorldType /\ RunsType

\* The points of a run at which it holds the operation lock.
Retiring  == {"journal", "record", "stop", "check", "archive", "rename", "retired", "restore",
              "decommissioned"}
Disposing == {"timer", "again", "copy", "copied", "unlink", "unlinked"}
Locked    == Retiring \cup Disposing \cup {"filed"}
Locks == \A r \in Runs : runs[r].at \in Locked => flock = r

\* What the holder of the lock finds in the journal, in its archive and in place of the runtime.
Stage(p) == CASE p \in {"record", "stop", "check"} -> "RESERVED"
              [] p \in {"archive", "rename", "retired"} -> "SERVICES_STOPPED"
              [] p \in {"restore", "decommissioned"} -> "RUNTIME_RETIRED"
              [] p \in {"timer", "again", "copy", "copied", "unlink"} -> "DECOMMISSIONED"
              [] p = "filed" -> "COMPLETE"
              [] OTHER -> None
HeldAt(p) ==
  /\ p \in Locked => journal.stage = Stage(p)
  /\ p \in Disposing \cup {"filed"} => tree.current # None
  /\ p = "decommissioned" => tree.dir /\ tree.runner /\ tree.current = None
  /\ p \in {"copied", "unlink"} => "journal" \in Own.kept
  /\ p = "unlink" => "apply" \in Own.kept
  /\ p \in {"archive", "rename"} => units = {} /\ Quiescent
Held == \A r \in Runs : HeldAt(runs[r].at)

\* A part of the installation is missing only in those stages of the journal.
Missing ==
  /\ (tree.dir /\ tree.runner) \/ journal.stage \in {"SERVICES_STOPPED", "RUNTIME_RETIRED"}
  /\ tree.current # None \/ journal.stage \in {"SERVICES_STOPPED", "RUNTIME_RETIRED", "DECOMMISSIONED"}

\* Every retired runtime has its evidence, or is the one of the present journal.
Evident(a) == "decommission" \in archive[a].kept \/ {"journal", "apply"} \subseteq archive[a].kept
Accounted  == \A a \in Archives : archive[a].runtime # None =>
                Evident(a) \/ (journal # NoJournal /\ a = <<journal.source, journal.target>>)

\* One backend has passed the operation state at a time; while it installs nobody
\* else has the lock and the record is its own.
Begun == {"begin", "install", "clear"}
OneBackend == \A r \in Runs : runs[r].at \in Begun =>
                host \in {r, None} /\ \A q \in Runs \ {r} : runs[q].at \notin Begun
Installing == \A r \in Runs : runs[r].at = "install" => flock = None /\ record = runs[r].target
\* Off the pool: before a backend has installed, what was decommissioned is not yet replaced.
Unserved == \A r \in Runs :
  (\/ runs[r].at \in {"begin", "install"}
   \/ runs[r].at = "verify" /\ host = r /\ runs[r].digest # NoJournal)
  => Pool \/ journal.stage # "DECOMMISSIONED" \/ tree.current = None

\* On the pool one command is past its gate, and the gate is not open then.
Outside == {"idle", "quiesce", "recover"}
Early   == {"drain", "regate", "applying", "continue", "requeue", "retarget", "reapply"}
Pooled  == \A r \in Runs : runs[r].at \in Early \cup {"quiesce", "repeat", "final"} => Pool
Contest == Pool => \A r \in Runs :
  /\ runs[r].at = "quiesce" /\ host = r => gate = Open
  /\ runs[r].at \notin Outside => gate # Open /\ \A q \in Runs \ {r} : runs[q].at \in Outside
  /\ runs[r].at \in Early => NoEvidence \/ \A q \in Runs : runs[q].at # "recover"
  /\ runs[r].at \notin Outside \cup Early \cup Disposing => gate.phase \in {"applying", "verified"}
  /\ runs[r].at = "recover" => runs[r].op = 0

\* What the command past the gate has proved of the evidence.
Proved == Pool => \A r \in Runs : LET p == runs[r].at IN
  /\ p \in Begun \cup {"verified"} => ~torn /\ journal = runs[r].digest
  /\ p \in {"verified", "complete", "filed"} => ~torn /\ record = None
  /\ p = "resume" => NoEvidence
OpenIsClean == gate = Open => NoEvidence

Inv == /\ Types /\ Locks /\ Held /\ Missing /\ Accounted /\ OneBackend /\ Installing /\ Unserved
       /\ Pooled /\ Contest /\ Proved /\ OpenIsClean

----------------------------------------------------------------------------
(* Constants, and a run that takes a step *)

LEMMA UnitsAre == Units = {"timer", "reviewer", "runner"}
<1>1. DOMAIN Order = {1, 2, 3}
  BY DEF Order
<1>2. QED BY <1>1 DEF Units, Order

LEMMA HalfOf == \A i \in 1..6 : i + 1 - i \div 6 \in 1..6 /\ (i + 1) \div 2 \in {1, 2, 3}
<1>1. \A i \in 1..6 : i \in {1, 2, 3, 4, 5, 6}
  OBVIOUS
<1>2. \A i \in {1, 2, 3, 4, 5} : i + 1 - i \div 6 \in 1..6 /\ (i + 1) \div 2 \in {1, 2, 3}
  OBVIOUS
<1>3. 6 + 1 - 6 \div 6 \in 1..6 /\ (6 + 1) \div 2 \in {1, 2, 3}
  OBVIOUS
<1>4. QED BY <1>1, <1>2, <1>3

LEMMA TypesAreTypeOK == Types => TypeOK
<1>1. SUFFICES ASSUME Types PROVE TypeOK
  OBVIOUS
<1>2. \A r \in Runs : runs[r].at \in Points \cup {"idle"} /\ runs[r].i \in 0..6
  BY <1>1 DEF Types, RunsType, RunType
<1>3. archive \in [Archives -> [runtime : Releases \cup {None}, op : 0..MaxOps,
         kept : SUBSET {"dir", "marker", "runner", "journal", "apply", "decommission"}]]
  BY <1>1 DEF Types, EvidenceType, Kept, Files
<1>4. QED
  BY <1>1, <1>2, <1>3 DEF TypeOK, Types, EvidenceType, Journals, MachineType, GateType, Closed,
     ControlType, WorldType

LEMMA IdleType == Idle \in RunType /\ Idle.at = "idle" /\ NoJournal \in Journals
  BY BoundsAssumption DEF Idle, Command, RunType, Journals, NoJournal

\* Run r goes on as n, the other runs stay where they are.
Moves(r, n) == /\ n \in RunType /\ runs' \in [Runs -> RunType]
               /\ \A q \in Runs : runs'[q] = IF q = r THEN n ELSE runs[q]
\* What the type of runs asks of n.
Shaped(n) == /\ n.at # "idle" => n.target \in Releases
             /\ n.at \in {"lock", "journal"} => n.source \in Releases
             /\ n.at = "stop" => n.i >= 1
             /\ n.at = "idle" => n = Idle
             /\ n.at = "quiesce" => n.op # 0

LEMMA Set == ASSUME RunsType, NEW r \in Runs, NEW n \in RunType, runs' = [runs EXCEPT ![r] = n]
             PROVE  Moves(r, n)
  BY DEF Moves, RunsType

\* x at another point.
AtPoint(x, p) == [at |-> p, target |-> x.target, op |-> x.op, source |-> x.source, units |-> x.units,
                  digest |-> x.digest, seen |-> x.seen, i |-> x.i]
LEMMA AtPointIs ==
  ASSUME NEW x \in RunType, NEW p \in Points
  PROVE  [x EXCEPT !.at = p] = AtPoint(x, p) /\ AtPoint(x, p) \in RunType
  BY DEF RunType, AtPoint

\* x at another point, with another index.
AtIndex(x, p, k) == [at |-> p, target |-> x.target, op |-> x.op, source |-> x.source, units |-> x.units,
                     digest |-> x.digest, seen |-> x.seen, i |-> k]
LEMMA AtIndexIs ==
  ASSUME NEW x \in RunType, NEW p \in Points, NEW k \in 0..6
  PROVE  [x EXCEPT !.at = p, !.i = k] = AtIndex(x, p, k) /\ AtIndex(x, p, k) \in RunType
<1>1. AtIndex(x, p, k) \in RunType
  BY DEF RunType, AtIndex
<1>2. [x EXCEPT !.at = p] = AtPoint(x, p) /\ AtPoint(x, p) \in RunType
  BY AtPointIs
<1>3. \A y \in RunType : [y EXCEPT !.i = k] = AtIndex(y, y.at, k)
  BY DEF RunType, AtIndex
<1>4. AtIndex(AtPoint(x, p), AtPoint(x, p).at, k) = AtIndex(x, p, k)
  BY DEF AtPoint, AtIndex
<1>5. [x EXCEPT !.at = p, !.i = k] = [[x EXCEPT !.at = p] EXCEPT !.i = k]
  OBVIOUS
<1>6. QED BY <1>1, <1>2, <1>3, <1>4, <1>5

LEMMA SetIndex ==
  ASSUME RunsType, NEW r \in Runs, NEW p \in Points, NEW k \in 0..6,
         runs' = [runs EXCEPT ![r].at = p, ![r].i = k]
  PROVE  Moves(r, AtIndex(runs[r], p, k))
<1>1. runs[r] \in RunType
  BY DEF RunsType
<1>2. [runs[r] EXCEPT !.at = p, !.i = k] = AtIndex(runs[r], p, k) /\ AtIndex(runs[r], p, k) \in RunType
  BY <1>1, AtIndexIs
<1>3. runs' = [runs EXCEPT ![r] = [runs[r] EXCEPT !.at = p, !.i = k]]
  OBVIOUS
<1>4. QED BY <1>2, <1>3, Set

LEMMA SetAt == ASSUME RunsType, NEW r \in Runs, NEW p \in Points, Goto(r, p)
               PROVE  Moves(r, AtPoint(runs[r], p))
<1>1. runs[r] \in RunType
  BY DEF RunsType
<1>2. [runs[r] EXCEPT !.at = p] = AtPoint(runs[r], p) /\ AtPoint(runs[r], p) \in RunType
  BY <1>1, AtPointIs
<1>3. runs' = [runs EXCEPT ![r] = AtPoint(runs[r], p)]
  BY <1>1, <1>2 DEF Goto, RunsType
<1>4. QED BY <1>2, <1>3, Set

LEMMA CommandType ==
  ASSUME NEW p \in Points, NEW t \in Releases, NEW o \in 0..MaxOps, NEW d \in Journals, NEW k \in 0..6
  PROVE  Command(p, t, o, d, k) \in RunType
  BY DEF Command, RunType

LEMMA RunsKeep == ASSUME RunsType, NEW r \in Runs, NEW n, Moves(r, n), Shaped(n) PROVE RunsType'
  BY DEF RunsType, Moves, Shaped

----------------------------------------------------------------------------
(* What one run that moves keeps of the agreements between runs *)

LEMMA Moved == ASSUME NEW r \in Runs, NEW n, Moves(r, n)
               PROVE  runs'[r] = n /\ \A q \in Runs \ {r} : runs'[q] = runs[q]
  BY DEF Moves

LEMMA OneBackendKeeps ==
  ASSUME Inv, NEW r \in Runs, NEW n, Moves(r, n), host' \in {host, None},
         n.at \in Begun => runs[r].at \in Begun \/ host = r
  PROVE  OneBackend'
<1>1. r # None
  BY ReleasesAssumption
<1>2. ASSUME NEW q \in Runs, runs'[q].at \in Begun PROVE host' \in {q, None}
  BY <1>2 DEF Inv, OneBackend, Moves
<1>3. ASSUME NEW q \in Runs, NEW o \in Runs, q # o, runs'[q].at \in Begun, runs'[o].at \in Begun PROVE FALSE
  <2>1. o # r /\ q # r => runs[q].at \in Begun /\ runs[o].at \in Begun
    BY <1>3 DEF Moves
  <2>2. o = r => runs[q].at \in Begun /\ (host = r \/ runs[o].at \in Begun)
    BY <1>3 DEF Moves
  <2>3. q = r => runs[o].at \in Begun /\ (host = r \/ runs[q].at \in Begun)
    BY <1>3 DEF Moves
  <2>4. QED BY <1>1, <1>3, <2>1, <2>2, <2>3 DEF Inv, OneBackend
<1>4. QED BY <1>2, <1>3 DEF OneBackend

\* A command past the gate of the pool moves on, or leaves.
LEMMA ContestKeeps ==
  ASSUME Inv, NEW r \in Runs, NEW n, Moves(r, n), runs[r].at \notin Outside, n.at \notin {"quiesce",
    "recover"},
         Pool' = Pool, host' \in {host, None},
         Pool /\ n.at \notin Outside => gate' # Open,
         Pool /\ n.at \notin Outside \cup Early \cup Disposing => gate'.phase \in {"applying", "verified"},
         n.at \in Early => runs[r].at \in Early /\ NoEvidence' = NoEvidence
  PROVE  Contest'
<1>1. SUFFICES ASSUME Pool, NEW q \in Runs
               PROVE  /\ runs'[q].at = "quiesce" /\ host' = q => gate' = Open
                      /\ runs'[q].at \notin Outside => gate' # Open
                           /\ \A o \in Runs \ {q} : runs'[o].at \in Outside
                      /\ runs'[q].at \in Early => NoEvidence' \/ \A o \in Runs : runs'[o].at # "recover"
                      /\ runs'[q].at \notin Outside \cup Early \cup Disposing
                           => gate'.phase \in {"applying", "verified"}
                      /\ runs'[q].at = "recover" => runs'[q].op = 0
  BY DEF Contest
<1>2. gate # Open /\ \A o \in Runs \ {r} : runs'[o] = runs[o] /\ runs[o].at \in Outside
  BY <1>1 DEF Inv, Contest, Moves
<1>3. runs'[r] = n
  BY DEF Moves
<1>4. CASE q = r
  <2>1. n.at \in Early => NoEvidence' \/ \A o \in Runs : runs'[o].at # "recover"
    BY <1>1, <1>2, <1>3 DEF Inv, Contest
  <2>2. QED BY <1>1, <1>2, <1>3, <1>4, <2>1
<1>5. CASE q # r
  <2>1. q # None
    BY ReleasesAssumption
  <2>2. runs[q].at # "quiesce" \/ host # q
    BY <1>1, <1>2 DEF Inv, Contest
  <2>3. QED BY <1>1, <1>2, <1>5, <2>1, <2>2 DEF Inv, Contest, Outside, Early
<1>6. QED BY <1>4, <1>5

LEMMA ProvedKeeps ==
  ASSUME Inv, NEW r \in Runs, NEW n, Moves(r, n), runs[r].at \notin Outside, Pool' = Pool,
         Pool => /\ n.at \in Begun \cup {"verified"} => ~torn' /\ journal' = n.digest
                 /\ n.at \in {"verified", "complete", "filed"} => ~torn' /\ record' = None
                 /\ n.at = "resume" => NoEvidence'
  PROVE  Proved'
<1>1. SUFFICES ASSUME Pool, NEW q \in Runs
               PROVE  /\ runs'[q].at \in Begun \cup {"verified"} => ~torn' /\ journal' = runs'[q].digest
                      /\ runs'[q].at \in {"verified", "complete", "filed"} => ~torn' /\ record' = None
                      /\ runs'[q].at = "resume" => NoEvidence'
  BY DEF Proved
<1>2. \A o \in Runs \ {r} : runs'[o].at \in Outside
  BY <1>1 DEF Inv, Contest, Moves
<1>3. QED BY <1>1, <1>2 DEF Moves, Outside, Begun

----------------------------------------------------------------------------
(* Steps that move one run and change nothing else *)

Onward(r, n) ==
  \/ At(r, "inspect") /\ n.at = "lock" /\ n.source \in Releases
  \/ At(r, "verify") /\ n.at = "begin" /\ n.digest = runs[r].digest /\ host = r /\ JournalBound(r)
  \/ /\ At(r, "postcheck") /\ n.at = (IF Pool THEN "verified" ELSE "complete")
     /\ n.digest = runs[r].digest /\ Checked(r)
  \/ At(r, "continue") /\ n.at = "requeue"
  \/ At(r, "repeat") /\ n.at = "final"
  \/ At(r, "final") /\ n.at = "verify"

LEMMA MoveKeeps ==
  ASSUME Inv, NEW r \in Runs, NEW n, Moves(r, n), n.target = runs[r].target, Onward(r, n),
         UNCHANGED <<evidence, machine, gate, control, world>>
  PROVE  Inv'
<1> USE DEF evidence, machine, control, world
<1>1. runs[r].at \in {"inspect", "verify", "postcheck", "continue", "repeat", "final"}
        /\ runs[r].target \in Releases
      /\ n.at \in {"lock", "begin", "verified", "complete", "requeue", "final", "verify"}
      /\ n.target \in Releases /\ runs[r].at \notin Locked \cup Begun \cup Outside
      /\ n.at \notin Locked \cup Outside \cup {"install"}
  BY DEF Onward, At, Inv, Types, RunsType, Locked, Retiring, Disposing, Begun, Outside
<1>2. Pool' = Pool /\ NoEvidence' = NoEvidence /\ Own' = Own
  BY DEF Pool, NoEvidence, Own
<1>3. Types'
  <2>1. Shaped(n)
    BY <1>1 DEF Shaped, Onward, At
  <2>2. RunsType'
    BY <2>1, RunsKeep DEF Inv, Types
  <2>3. QED
    BY <2>2 DEF Inv, Types, EvidenceType, MachineType, GateType, ControlType, WorldType
<1>4. Locks' /\ Installing'
  BY <1>1 DEF Inv, Locks, Installing, Moves
<1>5. Held'
  <2>1. ASSUME NEW q \in Runs, runs'[q].at \in Locked PROVE runs'[q] = runs[q]
    BY <2>1, <1>1 DEF Moves
  <2>2. QED BY <2>1, <1>2 DEF Inv, Held, HeldAt, Own, Locked, Disposing, Retiring, Quiescent, NoneActive
<1>6. Missing' /\ Accounted' /\ OpenIsClean'
  BY <1>2 DEF Inv, Missing, Accounted, Evident, OpenIsClean
<1>7. OneBackend'
  BY <1>1, OneBackendKeeps DEF Onward, Begun
<1>8. Unserved'
  <2>1. n.at = "begin" => runs[r].at = "verify" /\ host = r /\ JournalBound(r)
    BY DEF Onward, At
  <2>2. n.at = "begin" => runs[r].digest # NoJournal \/ journal.stage # "DECOMMISSIONED"
    BY <2>1 DEF JournalBound, NoJournal, None
  <2>3. n.at = "verify" => Pool
    BY DEF Onward, At, Inv, Pooled
  <2>4. ASSUME n.at = "begin", ~Pool, journal.stage = "DECOMMISSIONED" PROVE tree.current = None
    BY <2>1, <2>2, <2>4 DEF Inv, Unserved
  <2>5. ASSUME NEW q \in Runs \ {r} PROVE runs'[q] = runs[q]
    BY <2>5 DEF Moves
  <2>6. runs'[r] = n
    BY DEF Moves
  <2>7. QED BY <1>1, <1>2, <2>3, <2>4, <2>5, <2>6 DEF Inv, Unserved
<1>9. Pooled'
  BY <1>1, <1>2 DEF Inv, Pooled, Moves, Onward, At, Early
<1>10. Contest'
  <2>1. n.at \notin Early => runs[r].at \notin Early
    BY <1>1 DEF Onward, At, Early
  <2>2. n.at \in Early => runs[r].at \in Early
    BY <1>1 DEF Onward, At, Early
  <2>3. Pool => gate # Open /\ (n.at \notin Early => gate.phase \in {"applying", "verified"})
    BY <1>1, <2>1 DEF Inv, Contest, Outside, Locked
  <2>4. n.at \notin Outside /\ n.at \notin {"quiesce", "recover"}
    BY <1>1 DEF Outside
  <2>5. QED BY <1>1, <1>2, <2>2, <2>3, <2>4, ContestKeeps
<1>11. Proved'
  <2>1. n.at \in Begun \cup {"verified"} => ~torn /\ journal = n.digest
    BY <1>1 DEF Onward, JournalBound, Checked, Begun
  <2>2. n.at = "verified" => record = None
    BY DEF Onward, Checked
  <2>3. n.at # "resume" /\ n.at # "filed" /\ (Pool => n.at # "complete")
    BY <1>1 DEF Onward, Locked
  <2>4. QED BY <1>1, <1>2, <2>1, <2>2, <2>3, ProvedKeeps
<1>12. QED BY <1>3, <1>4, <1>5, <1>6, <1>7, <1>8, <1>9, <1>10, <1>11 DEF Inv

----------------------------------------------------------------------------
(* Steps of the helper that has the operation lock, or takes or leaves it *)

\* A journal that names the target is new only over a missing runtime.
Replaces == journal'.stage = "DECOMMISSIONED" /\ tree'.current # None
              => journal.stage = "DECOMMISSIONED" /\ tree.current # None

LEMMA HolderKeeps ==
  ASSUME Inv, NEW r \in Runs, NEW n, Moves(r, n), Shaped(n),
         runs[r].at \notin Outside \cup Early,
         \A q \in Runs \ {r} : runs[q].at \notin Locked \cup {"install"},
         n.at \notin Begun \cup Early \cup {"quiesce", "recover", "repeat", "final", "verified"},
         n.at \in Locked => flock' = r, flock' \in {r, None},
         n.at \in Disposing \cup {"idle"} \/ runs[r].at \notin Disposing,
         UNCHANGED <<gate, world>>, host' \in {host, None},
         EvidenceType', MachineType', HeldAt(n.at)', Missing', Accounted', Replaces,
         n.at = "verify" => tree'.current = None,
         Pool => /\ n.at \in {"complete", "filed"} => ~torn' /\ record' = None
                 /\ n.at = "resume" => NoEvidence'
  PROVE  Inv'
<1> USE DEF world
<1>1. Pool' = Pool /\ runs'[r] = n /\ \A q \in Runs \ {r} : runs'[q] = runs[q]
  BY DEF Pool, Moves
<1>2. Types'
  <2>1. RunsType'
    BY RunsKeep DEF Inv, Types
  <2>2. GateType' /\ ControlType' /\ WorldType'
    BY DEF Inv, Types, GateType, ControlType, WorldType
  <2>3. QED BY <2>1, <2>2 DEF Types
<1>3. Locks'
  BY <1>1 DEF Locks
<1>4. Held'
  <2>1. \A q \in Runs \ {r} : runs'[q].at \notin Locked
    BY <1>1
  <2>2. \A q \in Runs \ {r} : HeldAt(runs[q].at)'
    BY <2>1 DEF HeldAt, Locked, Retiring, Disposing
  <2>3. \A q \in Runs : HeldAt(runs[q].at)'
    BY <1>1, <2>2 DEF HeldAt
  <2>4. QED BY <2>3 DEF Held
<1>5. OneBackend'
  BY OneBackendKeeps
<1>6. Installing'
  BY <1>1 DEF Installing, Begun
<1>7. Unserved'
  <2>1. ASSUME NEW q \in Runs \ {r},
               runs'[q].at \in {"begin", "install"} \/ (runs'[q].at = "verify" /\ host' = q
                 /\ runs'[q].digest # NoJournal)
        PROVE  Pool' \/ journal'.stage # "DECOMMISSIONED" \/ tree'.current = None
    <3>1. q # None
      BY ReleasesAssumption
    <3>2. runs[q].at \in {"begin", "install"} \/ (runs[q].at = "verify" /\ host = q
            /\ runs[q].digest # NoJournal)
      BY <1>1, <2>1, <3>1
    <3>3. Pool \/ journal.stage # "DECOMMISSIONED" \/ tree.current = None
      BY <3>2 DEF Inv, Unserved
    <3>4. QED BY <1>1, <3>3 DEF Replaces
  <2>2. n.at \in {"begin", "install"} \/ n.at = "verify" => tree'.current = None
    BY DEF Begun
  <2>3. QED BY <1>1, <2>1, <2>2 DEF Unserved
<1>8. Pooled'
  BY <1>1 DEF Inv, Pooled
<1>9. Contest'
  <2>1. Pool => gate # Open
    BY DEF Inv, Contest
  <2>2. Pool /\ n.at \notin Outside \cup Early \cup Disposing => gate.phase \in {"applying", "verified"}
    BY DEF Inv, Contest, Outside
  <2>3. QED BY <1>1, <2>1, <2>2, ContestKeeps
<1>10. Proved'
  BY <1>1, ProvedKeeps
<1>11. OpenIsClean'
  <2>1. gate # Open
    <3>1. Pool => gate # Open
      BY DEF Inv, Contest
    <3>2. Open # NoGate
      BY DEF Open, NoGate, None
    <3>3. QED BY <3>1, <3>2 DEF Pool
  <2>2. QED BY <2>1 DEF OpenIsClean
<1>12. QED BY <1>2, <1>3, <1>4, <1>5, <1>6, <1>7, <1>8, <1>9, <1>10, <1>11 DEF Inv

LEMMA StageNone ==
  ASSUME EvidenceType
  PROVE  /\ journal.stage = None => journal = NoJournal
         /\ journal # NoJournal => /\ journal \in [stage : Stages, source : Releases, target : Releases,
                                                   op : 0..MaxOps]
                                   /\ journal.stage # None /\ <<journal.source, journal.target>> \in Archives
  BY DEF EvidenceType, Journals, Stages, NoJournal, None, Archives

LEMMA StageSet ==
  ASSUME EvidenceType, journal # NoJournal, NEW x \in Stages, SetStage(x)
  PROVE  /\ journal' \in Journals /\ journal' # NoJournal /\ journal'.stage = x
         /\ journal'.source = journal.source /\ journal'.target = journal.target
<1>1. journal \in [stage : Stages, source : Releases, target : Releases, op : 0..MaxOps]
  BY StageNone
<1>2. journal' = [stage |-> x, source |-> journal.source, target |-> journal.target, op |-> journal.op]
  BY <1>1 DEF SetStage
<1>3. x # None
  BY DEF Stages, None
<1>4. QED BY <1>1, <1>2, <1>3 DEF Journals, NoJournal

\* Files are added to the archive of the journal.
Adds(files) ==
  /\ archive' \in [Archives -> Kept]
  /\ \A a \in Archives : /\ archive'[a].runtime = archive[a].runtime
                         /\ archive'[a].kept = IF a = <<journal.source, journal.target>>
                                               THEN archive[a].kept \cup files ELSE archive[a].kept

LEMMA FiledAdds ==
  ASSUME EvidenceType, journal # NoJournal, NEW files \in SUBSET Files, Filed(files)
  PROVE  Adds(files)
<1> DEFINE me == <<journal.source, journal.target>>
           new == [runtime |-> archive[me].runtime, op |-> archive[me].op,
             kept |-> archive[me].kept \cup files]
<1>1. me \in Archives
  BY StageNone
<1>2. archive[me] \in Kept
  BY <1>1 DEF EvidenceType
<1>3. [archive[me] EXCEPT !.kept = @ \cup files] = new
  <2>1. \A x \in Kept : [x EXCEPT !.kept = @ \cup files] = [runtime |-> x.runtime, op |-> x.op,
          kept |-> x.kept \cup files]
    BY DEF Kept
  <2>2. QED BY <2>1, <1>2
<1>4. new \in Kept
  BY <1>2 DEF Kept
<1>5. archive' = [archive EXCEPT ![me] = new]
  BY <1>3 DEF Filed
<1>6. archive' \in [Archives -> Kept]
  BY <1>4, <1>5 DEF EvidenceType
<1>7. \A a \in Archives : archive'[a] = IF a = me THEN new ELSE archive[a]
  BY <1>5 DEF EvidenceType
<1>8. new.runtime = archive[me].runtime /\ new.kept = archive[me].kept \cup files
  OBVIOUS
<1> HIDE DEF new
<1>9. QED BY <1>6, <1>7, <1>8 DEF Adds

LEMMA AddsAccounts ==
  ASSUME Accounted, EvidenceType, journal # NoJournal, NEW files, Adds(files), UNCHANGED journal
  PROVE  Accounted'
  BY DEF Accounted, Evident, Adds

LEMMA Alone ==
  ASSUME Inv, NEW r \in Runs, runs[r].at \in Locked
  PROVE  /\ flock = r /\ \A q \in Runs \ {r} : runs[q].at \notin Locked \cup {"install"}
         /\ runs[r].at \notin Outside \cup Early \cup Begun /\ HeldAt(runs[r].at)
         /\ runs[r].target \in Releases /\ runs[r] \in RunType /\ EvidenceType /\ MachineType
         /\ journal.stage = Stage(runs[r].at)
<1>1. flock = r /\ r # None
  BY ReleasesAssumption DEF Inv, Locks
<1>2. \A q \in Runs \ {r} : runs[q].at \notin Locked \cup {"install"}
  BY <1>1 DEF Inv, Locks, Installing
<1>3. runs[r].at \notin Outside \cup Early \cup Begun /\ runs[r].at # "idle"
  BY DEF Outside, Early, Begun, Locked, Retiring, Disposing
<1>4. HeldAt(runs[r].at) /\ journal.stage = Stage(runs[r].at)
  BY DEF Inv, Held, HeldAt
<1>5. QED BY <1>1, <1>2, <1>3, <1>4 DEF Inv, Types, RunsType

\* A helper goes on from point to point under the lock.
LEMMA StayKeeps ==
  ASSUME Inv, NEW r \in Runs, NEW n, Moves(r, n), Shaped(n), runs[r].at \in Locked,
         n.at \in Disposing \/ (n.at \in Retiring /\ runs[r].at \in Retiring),
         UNCHANGED <<gate, control, world>>,
         EvidenceType', MachineType', HeldAt(n.at)', Missing', Accounted', Replaces
  PROVE  Inv'
<1>1. n.at \in Locked
  BY DEF Locked
<1>2. flock' = r /\ host' = host
  BY Alone DEF control
<1>3. n.at \notin Begun \cup Early \cup {"quiesce", "recover", "repeat", "final", "verified",
        "complete", "filed", "verify", "resume"}
  BY DEF Begun, Early, Disposing, Retiring
<1>4. n.at \in Disposing \cup {"idle"} \/ runs[r].at \notin Disposing
  BY DEF Disposing, Retiring
<1>5. QED BY <1>1, <1>2, <1>3, <1>4, Alone, HolderKeeps

----------------------------------------------------------------------------
(* The retirement, step by step *)

LEMMA Points1 == Retiring \cup Disposing \cup {"filed"} \subseteq Points
  BY DEF Retiring, Disposing, Points, Retirement, Disposition

LEMMA WriteJournalKeeps == ASSUME Inv, NEW r \in Runs, WriteJournal(r) PROVE Inv'
<1> DEFINE n == AtPoint(runs[r], "record")
<1>1. runs[r].at = "journal" /\ runs[r].at \in Retiring \cap Locked
  BY DEF WriteJournal, At, Retiring, Locked
<1>2. Moves(r, n) /\ Shaped(n) /\ n.at = "record"
  BY <1>1, SetAt, Points1, Alone DEF WriteJournal, KeepRetiring, Inv, Types, AtPoint, Shaped, Retiring
<1>3. journal = NoJournal /\ EvidenceType /\ MachineType /\ runs[r].target \in Releases
        /\ runs[r].source \in Releases
  <2>1. journal.stage = None
    BY <1>1, Alone DEF Stage
  <2>2. QED BY <1>1, <2>1, Alone, StageNone DEF Inv, Types, RunsType
<1>4. journal' \in Journals /\ journal'.stage = "RESERVED" /\ journal' # NoJournal
  BY <1>1, <1>3, Alone DEF WriteJournal, Journals, RunType, Stages, NoJournal, None
<1>5. EvidenceType' /\ MachineType'
  BY <1>3, <1>4 DEF WriteJournal, EvidenceType, MachineType, machine
<1>6. Missing' /\ Accounted' /\ Replaces
  BY <1>3, <1>4 DEF WriteJournal, Inv, Missing, Accounted, Evident, machine, NoJournal, None, Replaces
<1>7. HeldAt("record")'
  BY <1>4 DEF HeldAt, Stage, Disposing
<1>8. QED
  BY <1>1, <1>2, <1>5, <1>6, <1>7, StayKeeps DEF WriteJournal, KeepRetiring, Retiring

\* At which the runtime is in place, and its journal is there.
LEMMA RetiringHas ==
  ASSUME Inv, NEW r \in Runs, runs[r].at \in Retiring \ {"journal"}
  PROVE  /\ runs[r].at \in Locked /\ journal # NoJournal /\ EvidenceType /\ MachineType
         /\ journal.stage \in {"RESERVED", "SERVICES_STOPPED", "RUNTIME_RETIRED"}
<1>1. runs[r].at \in Locked
  BY DEF Locked
<1>2. journal.stage \in {"RESERVED", "SERVICES_STOPPED", "RUNTIME_RETIRED"}
  BY <1>1, Alone DEF Stage, Retiring
<1>3. QED BY <1>1, <1>2, Alone DEF NoJournal, None

LEMMA WriteRecordKeeps == ASSUME Inv, NEW r \in Runs, WriteRecord(r) PROVE Inv'
<1> DEFINE n == AtIndex(runs[r], "stop", 1)
<1>1. runs[r].at = "record" /\ runs[r].at \in (Retiring \ {"journal"}) \cap Locked
  BY DEF WriteRecord, At, Retiring, Locked
<1>2. runs[r].target \in Releases
  BY <1>1, Alone
<1>3. "stop" \in Points /\ 1 \in 0..6 /\ "stop" \in Retiring
  BY DEF Points, Retirement, Retiring
<1>4. Moves(r, n)
  BY <1>3, SetIndex DEF WriteRecord, Inv, Types
<1>5. Shaped(n) /\ n.at = "stop"
  BY <1>2 DEF Shaped, AtIndex
<1>6. EvidenceType' /\ MachineType' /\ Missing' /\ Accounted' /\ Replaces
  BY <1>2, RetiringHas, <1>1 DEF WriteRecord, EvidenceType, MachineType, machine, Inv, Missing, Accounted,
     Evident, Replaces
<1>7. HeldAt("stop")'
  <2>1. journal'.stage = "RESERVED"
    BY <1>1, Alone DEF WriteRecord, Stage
  <2>2. QED BY <2>1 DEF HeldAt, Stage, Disposing
<1>8. QED
  BY <1>1, <1>3, <1>4, <1>5, <1>6, <1>7, StayKeeps DEF WriteRecord

LEMMA StopUnitKeeps == ASSUME Inv, NEW r \in Runs, StopUnit(r) PROVE Inv'
<1> DEFINE k == runs[r].i
           p == IF k = 6 THEN "check" ELSE "stop"
           n == AtIndex(runs[r], p, k + 1 - k \div 6)
<1>1. runs[r].at = "stop" /\ runs[r].at \in (Retiring \ {"journal"}) \cap Locked
  BY DEF StopUnit, At, Retiring, Locked
<1>2. runs[r].target \in Releases /\ k \in 1..6
  <2>1. runs[r].i >= 1 /\ runs[r] \in RunType
    BY <1>1, Alone DEF Inv, Types, RunsType
  <2>2. QED BY <1>1, <2>1, Alone DEF RunType
<1>3. p \in Points /\ p \in Retiring /\ k + 1 - k \div 6 \in 1..6 /\ p \in {"check", "stop"}
  BY <1>2, HalfOf DEF Points, Retirement, Retiring
<1>4. Moves(r, n)
  <2>1. k + 1 - k \div 6 \in 0..6
    BY <1>3
  <2>2. runs' = [runs EXCEPT ![r].at = p, ![r].i = k + 1 - k \div 6]
    BY DEF StopUnit
  <2>3. QED BY <1>3, <2>1, <2>2, SetIndex DEF Inv, Types
<1>5. Shaped(n) /\ n.at = p
  BY <1>2, <1>3 DEF Shaped, AtIndex
<1>6. UNCHANGED <<evidence, tree, marker, gate, control, world>>
      /\ units' \subseteq units /\ enabled' \subseteq enabled /\ job' \in {job, "none", "detached"}
  <2>1. UNCHANGED <<evidence, tree, marker, gate, control, world>>
    BY DEF StopUnit
  <2>2. units' \subseteq units /\ enabled' \subseteq enabled
    BY DEF StopUnit
  <2>3. job' \in {job, "none", "detached"}
    BY DEF StopUnit
  <2>4. QED BY <2>1, <2>2, <2>3
<1>7. EvidenceType' /\ MachineType' /\ Missing' /\ Accounted' /\ Replaces
  BY <1>6, RetiringHas, <1>1 DEF EvidenceType, MachineType, evidence, Inv, Missing, Accounted, Evident,
     Replaces
<1>8. \A q \in {"check", "stop"} : HeldAt(q)'
  <2>1. journal'.stage = "RESERVED"
    BY <1>1, <1>6, Alone DEF evidence, Stage
  <2>2. QED BY <2>1 DEF HeldAt, Stage, Disposing
<1>9. QED
  BY <1>1, <1>3, <1>4, <1>5, <1>6, <1>7, <1>8, StayKeeps

\* The frame of a step that only goes on to p.
LEMMA GoesTo ==
  ASSUME Inv, NEW r \in Runs, NEW p \in Locked \ {"journal", "stop"}, KeepRetiring(r, p),
    runs[r].at \in Locked
  PROVE  LET n == AtPoint(runs[r], p)
         IN Moves(r, n) /\ Shaped(n) /\ n.at = p /\ UNCHANGED <<gate, control, world>>
<1>1. p \in Points /\ p \notin {"idle", "lock", "quiesce"}
  BY Points1 DEF Locked, Retiring, Disposing
<1>2. Moves(r, AtPoint(runs[r], p)) /\ UNCHANGED <<gate, control, world>>
  BY <1>1, SetAt DEF KeepRetiring, Inv, Types
<1>3. QED BY <1>1, <1>2, Alone DEF Shaped, AtPoint

LEMMA GoesOn ==
  ASSUME Inv, NEW r \in Runs, NEW p \in Locked \ {"journal", "stop"}, KeepRetiring(r, p),
    runs[r].at \in Locked,
         p \in Disposing \/ (p \in Retiring /\ runs[r].at \in Retiring),
         EvidenceType', MachineType', HeldAt(p)', Missing', Accounted', Replaces
  PROVE  Inv'
<1>1. PICK n : n = AtPoint(runs[r], p)
  OBVIOUS
<1>2. Moves(r, n) /\ Shaped(n) /\ n.at = p /\ UNCHANGED <<gate, control, world>>
  BY <1>1, GoesTo
<1>3. HeldAt(n.at)'
  BY <1>2
<1>4. QED BY <1>2, <1>3, StayKeeps

LEMMA CheckKeeps ==
  ASSUME Inv, NEW r \in Runs, At(r, "check"), units = {}, Quiescent, SetStage("SERVICES_STOPPED"),
         KeepRetiring(r, "archive"), UNCHANGED <<torn, record, archive, machine>>
  PROVE  Inv'
<1> USE DEF machine
<1>1. runs[r].at = "check" /\ runs[r].at \in (Retiring \ {"journal"}) \cap Locked
      /\ "archive" \in (Locked \ {"journal", "stop"}) \cap Retiring /\ "SERVICES_STOPPED" \in Stages
  BY DEF At, Retiring, Locked, Stages
<1>2. journal # NoJournal /\ EvidenceType /\ MachineType
  BY <1>1, RetiringHas
<1>3. /\ journal' \in Journals /\ journal' # NoJournal /\ journal'.stage = "SERVICES_STOPPED"
      /\ journal'.source = journal.source /\ journal'.target = journal.target
  BY <1>1, <1>2, StageSet
<1>4. EvidenceType' /\ MachineType'
  BY <1>2, <1>3 DEF EvidenceType, MachineType
<1>5. Missing' /\ Accounted' /\ Replaces
  BY <1>2, <1>3 DEF Inv, Missing, Accounted, Evident, Replaces
<1>6. HeldAt("archive")'
  BY <1>3 DEF HeldAt, Stage, Disposing, Quiescent, NoneActive, Pool, KeepRetiring, world
<1>7. QED BY <1>1, <1>4, <1>5, <1>6, GoesOn

LEMMA ArchiveKeeps == ASSUME Inv, NEW r \in Runs, Archive(r) PROVE Inv'
<1>1. runs[r].at = "archive" /\ runs[r].at \in (Retiring \ {"journal"}) \cap Locked
      /\ "rename" \in (Locked \ {"journal", "stop"}) \cap Retiring
  BY DEF Archive, At, Retiring, Locked
<1>2. journal # NoJournal /\ EvidenceType /\ MachineType /\ HeldAt("archive")
        /\ journal.stage = "SERVICES_STOPPED"
  BY <1>1, RetiringHas, Alone DEF Stage
<1>3. PICK files \in SUBSET Files : Adds(files)
  <2>1. ({"dir"} \cup IF marker THEN {"marker"} ELSE {}) \in SUBSET Files
    BY DEF Files
  <2>2. QED BY <1>2, <2>1, FiledAdds DEF Archive
<1>4. UNCHANGED <<journal, torn, record, tree, units, enabled, job>> /\ marker' = FALSE
        /\ KeepRetiring(r, "rename")
  BY DEF Archive
<1>5. EvidenceType' /\ MachineType'
  BY <1>2, <1>3, <1>4 DEF EvidenceType, MachineType, Adds
<1>6. Missing' /\ Accounted' /\ Replaces
  BY <1>2, <1>3, <1>4, AddsAccounts DEF Inv, Missing, Replaces
<1>7. HeldAt("rename")'
  <2>1. units' = {} /\ Quiescent'
    BY <1>2, <1>4 DEF HeldAt, Quiescent, NoneActive, Pool, KeepRetiring, world
  <2>2. QED BY <1>2, <1>4, <2>1 DEF HeldAt, Stage, Disposing
<1>8. QED BY <1>1, <1>4, <1>5, <1>6, <1>7, GoesOn

LEMMA RenameKeeps == ASSUME Inv, NEW r \in Runs, Rename(r) PROVE Inv'
<1> DEFINE me == <<journal.source, journal.target>>
           new == [runtime |-> tree.current, op |-> archive[me].op, kept |-> archive[me].kept \cup {"runner"}]
<1>1. runs[r].at = "rename" /\ runs[r].at \in (Retiring \ {"journal"}) \cap Locked
      /\ "retired" \in (Locked \ {"journal", "stop"}) \cap Retiring
  BY DEF Rename, At, Retiring, Locked
<1>2. journal # NoJournal /\ EvidenceType /\ MachineType /\ journal.stage = "SERVICES_STOPPED"
  BY <1>1, RetiringHas, Alone DEF Stage
<1>3. UNCHANGED <<journal, torn, record, marker, units, enabled, job>> /\ KeepRetiring(r, "retired")
      /\ tree' = [dir |-> FALSE, current |-> None, runner |-> FALSE]
  BY DEF Rename
<1>4. me \in Archives /\ archive[me] \in Kept
  BY <1>2, StageNone DEF EvidenceType
<1>5. new \in Kept
  BY <1>2, <1>4 DEF Kept, MachineType, Files
<1>6. archive' = [archive EXCEPT ![me] = new]
  BY DEF Rename, Own
<1>7. EvidenceType' /\ MachineType'
  BY <1>2, <1>3, <1>5, <1>6 DEF EvidenceType, MachineType
<1>8. Missing' /\ Replaces
  BY <1>2, <1>3 DEF Missing, Replaces
<1>9. Accounted'
  BY <1>2, <1>3, <1>6 DEF Inv, Accounted, Evident, EvidenceType
<1>10. HeldAt("retired")'
  BY <1>2, <1>3 DEF HeldAt, Stage, Disposing
<1>11. QED BY <1>1, <1>3, <1>7, <1>8, <1>9, <1>10, GoesOn

LEMMA RetiredKeeps == ASSUME Inv, NEW r \in Runs, Retired(r) PROVE Inv'
<1> USE DEF machine
<1>1. runs[r].at = "retired" /\ runs[r].at \in (Retiring \ {"journal"}) \cap Locked
      /\ "restore" \in (Locked \ {"journal", "stop"}) \cap Retiring /\ "RUNTIME_RETIRED" \in Stages
  BY DEF Retired, At, Retiring, Locked, Stages
<1>2. journal # NoJournal /\ EvidenceType /\ MachineType /\ journal.stage = "SERVICES_STOPPED"
  BY <1>1, RetiringHas, Alone DEF Stage
<1>3. UNCHANGED <<torn, record, archive, machine>> /\ KeepRetiring(r, "restore")
        /\ SetStage("RUNTIME_RETIRED")
  BY DEF Retired
<1>4. /\ journal' \in Journals /\ journal' # NoJournal /\ journal'.stage = "RUNTIME_RETIRED"
      /\ journal'.source = journal.source /\ journal'.target = journal.target
  BY <1>1, <1>2, <1>3, StageSet
<1>5. EvidenceType' /\ MachineType'
  BY <1>2, <1>3, <1>4 DEF EvidenceType, MachineType
<1>6. Missing' /\ Accounted' /\ Replaces
  BY <1>2, <1>3, <1>4 DEF Inv, Missing, Accounted, Evident, Replaces
<1>7. HeldAt("restore")'
  BY <1>4 DEF HeldAt, Stage, Disposing
<1>8. QED BY <1>1, <1>3, <1>5, <1>6, <1>7, GoesOn

LEMMA RestoreKeeps == ASSUME Inv, NEW r \in Runs, Restore(r) PROVE Inv'
<1> DEFINE me == <<journal.source, journal.target>>
           new == [runtime |-> archive[me].runtime, op |-> archive[me].op,
             kept |-> archive[me].kept \ {"runner"}]
<1>1. runs[r].at = "restore" /\ runs[r].at \in (Retiring \ {"journal"}) \cap Locked
      /\ "decommissioned" \in (Locked \ {"journal", "stop"}) \cap Retiring
  BY DEF Restore, At, Retiring, Locked
<1>2. journal # NoJournal /\ EvidenceType /\ MachineType /\ journal.stage = "RUNTIME_RETIRED"
  BY <1>1, RetiringHas, Alone DEF Stage
<1>3. UNCHANGED <<journal, torn, record, marker, units, enabled, job>> /\ KeepRetiring(r, "decommissioned")
      /\ tree' = [dir |-> TRUE, current |-> None, runner |-> TRUE]
  BY DEF Restore
<1>4. me \in Archives /\ archive[me] \in Kept
  BY <1>2, StageNone DEF EvidenceType
<1>5. new \in Kept /\ [archive[me] EXCEPT !.kept = @ \ {"runner"}] = new
  <2>1. \A x \in Kept : [x EXCEPT !.kept = @ \ {"runner"}] = [runtime |-> x.runtime, op |-> x.op,
          kept |-> x.kept \ {"runner"}]
    BY DEF Kept
  <2>2. QED BY <2>1, <1>4 DEF Kept
<1>6. archive' = [archive EXCEPT ![me] = new]
  BY <1>5 DEF Restore
<1>7. EvidenceType' /\ MachineType'
  BY <1>2, <1>3, <1>5, <1>6 DEF EvidenceType, MachineType
<1>8. Missing' /\ Replaces
  BY <1>2, <1>3 DEF Missing, Replaces
<1>9. Accounted'
  BY <1>2, <1>3, <1>6 DEF Inv, Accounted, Evident, EvidenceType
<1>10. HeldAt("decommissioned")'
  BY <1>2, <1>3 DEF HeldAt, Stage, Disposing
<1>11. QED BY <1>1, <1>3, <1>7, <1>8, <1>9, <1>10, GoesOn

LEMMA DecommissionedKeeps == ASSUME Inv, NEW r \in Runs, Decommissioned(r) PROVE Inv'
<1> USE DEF machine
<1>1. runs[r].at = "decommissioned" /\ runs[r].at \in (Retiring \ {"journal"}) \cap Locked
      /\ "DECOMMISSIONED" \in Stages /\ "verify" \in Points
  BY DEF Decommissioned, At, Retiring, Locked, Stages, Points, Backend
<1>2. journal # NoJournal /\ EvidenceType /\ MachineType /\ journal.stage = "RUNTIME_RETIRED"
      /\ tree.dir /\ tree.runner /\ tree.current = None /\ runs[r].target \in Releases /\ runs[r] \in RunType
  BY <1>1, RetiringHas, Alone DEF Stage, HeldAt
<1>3. UNCHANGED <<torn, record, archive, machine, gate, host, world>> /\ SetStage("DECOMMISSIONED")
        /\ flock' = None
  BY DEF Decommissioned
<1>4. /\ journal' \in Journals /\ journal' # NoJournal /\ journal'.stage = "DECOMMISSIONED"
      /\ journal'.source = journal.source /\ journal'.target = journal.target
  BY <1>1, <1>2, <1>3, StageSet
<1>5. PICK n : n = Command("verify", runs[r].target, runs[r].op, journal', 0)
  OBVIOUS
<1>6. runs' = [runs EXCEPT ![r] = n] /\ n.at = "verify"
  BY <1>5 DEF Decommissioned, Command
<1>7. n \in RunType /\ Shaped(n)
  BY <1>1, <1>2, <1>4, <1>5 DEF RunType, Shaped, Command
<1>8. Moves(r, n)
  BY <1>6, <1>7, Set DEF Inv, Types
<1>9. EvidenceType' /\ MachineType'
  BY <1>2, <1>3, <1>4 DEF EvidenceType, MachineType
<1>10. Missing' /\ Accounted' /\ Replaces
  BY <1>2, <1>3, <1>4 DEF Inv, Missing, Accounted, Evident, Replaces
<1>11. HeldAt(n.at)' /\ tree'.current = None
  BY <1>2, <1>3, <1>6 DEF HeldAt, Locked, Retiring, Disposing
<1>12. /\ n.at \notin Begun \cup Early \cup Locked \cup {"quiesce", "recover", "repeat", "final",
            "verified", "complete", "filed", "resume"}
       /\ runs[r].at \notin Disposing
  BY <1>1, <1>6 DEF Begun, Early, Locked, Retiring, Disposing
<1>13. n.at \notin Locked /\ host' \in {host, None} /\ flock' \in {r, None} /\ UNCHANGED <<gate, world>>
  BY <1>3, <1>12
<1>14. QED BY <1>1, <1>7, <1>8, <1>9, <1>10, <1>11, <1>12, <1>13, Alone, HolderKeeps

----------------------------------------------------------------------------
(* The disposition of a failed reinstall, step by step *)

\* What it finds while it holds the lock.
LEMMA DisposingHas ==
  ASSUME Inv, NEW r \in Runs, runs[r].at \in Disposing \ {"unlinked"}
  PROVE  /\ runs[r].at \in Locked /\ journal # NoJournal /\ EvidenceType /\ MachineType
         /\ journal.stage = "DECOMMISSIONED" /\ tree.current # None
<1>1. runs[r].at \in Locked
  BY DEF Locked
<1>2. journal.stage = "DECOMMISSIONED"
  BY <1>1, Alone DEF Stage, Disposing
<1>3. tree.current # None
  BY <1>1, Alone DEF HeldAt
<1>4. QED BY <1>1, <1>2, <1>3, Alone DEF NoJournal, None

LEMMA TimerKeeps ==
  ASSUME Inv, NEW r \in Runs,
         StopTimer(r) \/ (At(r, "again") /\ KeepRetiring(r, "copy") /\ UNCHANGED <<evidence, machine>>)
  PROVE  Inv'
<1> USE DEF machine, evidence
<1>1. PICK p \in {"again", "copy"} : /\ KeepRetiring(r, p) /\ UNCHANGED <<evidence, tree, marker, enabled, job>>
                                     /\ units' \subseteq units
  BY DEF StopTimer
<1>2. runs[r].at \in Disposing \ {"unlinked"} /\ p \in (Locked \ {"journal", "stop"}) \cap Disposing
  BY DEF StopTimer, At, Disposing, Locked
<1>3. journal # NoJournal /\ EvidenceType /\ MachineType /\ journal.stage = "DECOMMISSIONED"
        /\ tree.current # None
      /\ runs[r].at \in Locked
  BY <1>2, DisposingHas
<1>4. EvidenceType' /\ MachineType'
  BY <1>1, <1>3 DEF EvidenceType, MachineType
<1>5. Missing' /\ Accounted' /\ Replaces
  BY <1>1, <1>3 DEF Inv, Missing, Accounted, Evident, Replaces
<1>6. HeldAt(p)'
  BY <1>1, <1>3 DEF HeldAt, Stage, Disposing
<1>7. QED BY <1>1, <1>2, <1>3, <1>4, <1>5, <1>6, GoesOn

LEMMA CopyKeeps == ASSUME Inv, NEW r \in Runs, Copy(r) \/ Copied(r) PROVE Inv'
<1> USE DEF machine
<1>1. PICK f \in {"journal", "apply"} : Filed({f}) /\ UNCHANGED <<journal, torn, record, machine>>
        /\ (f = "journal" => At(r, "copy") /\ KeepRetiring(r, "copied"))
        /\ (f = "apply" => At(r, "copied") /\ KeepRetiring(r, "unlink"))
  BY DEF Copy, Copied
<1>2. PICK p \in {"copied", "unlink"} : KeepRetiring(r, p) /\ (p = "copied" <=> f = "journal")
  BY <1>1
<1>3. runs[r].at \in Disposing \ {"unlinked"} /\ p \in (Locked \ {"journal", "stop"}) \cap Disposing
  BY <1>1 DEF At, Disposing, Locked
<1>4. journal # NoJournal /\ EvidenceType /\ MachineType /\ journal.stage = "DECOMMISSIONED"
        /\ tree.current # None
      /\ runs[r].at \in Locked /\ HeldAt(runs[r].at)
  BY <1>3, DisposingHas, Alone
<1>5. Adds({f}) /\ <<journal.source, journal.target>> \in Archives
  <2>1. {f} \in SUBSET Files
    BY DEF Files
  <2>2. QED BY <1>1, <1>4, <2>1, FiledAdds, StageNone
<1>6. EvidenceType' /\ MachineType'
  BY <1>1, <1>4, <1>5 DEF EvidenceType, MachineType, Adds
<1>7. Missing' /\ Accounted' /\ Replaces
  BY <1>1, <1>4, <1>5, AddsAccounts DEF Inv, Missing, Replaces
<1>8. HeldAt(p)'
  <2>1. journal'.stage = "DECOMMISSIONED" /\ tree'.current # None /\ Own'.kept = Own.kept \cup {f}
    BY <1>1, <1>4, <1>5 DEF Own, Adds
  <2>2. f = "apply" => "journal" \in Own.kept
    BY <1>1, <1>4 DEF HeldAt, At
  <2>3. QED BY <1>2, <2>1, <2>2 DEF HeldAt, Stage, Disposing
<1>9. QED BY <1>2, <1>3, <1>4, <1>6, <1>7, <1>8, GoesOn

LEMMA UnlinkKeeps == ASSUME Inv, NEW r \in Runs, Unlink(r) PROVE Inv'
<1> USE DEF machine
<1>1. runs[r].at = "unlink" /\ runs[r].at \in Disposing \ {"unlinked"}
      /\ "unlinked" \in (Locked \ {"journal", "stop"}) \cap Disposing
  BY DEF Unlink, At, Disposing, Locked
<1>2. journal # NoJournal /\ EvidenceType /\ MachineType /\ tree.current # None
      /\ runs[r].at \in Locked /\ {"journal", "apply"} \subseteq Own.kept /\ journal.stage = "DECOMMISSIONED"
  BY <1>1, DisposingHas, Alone DEF HeldAt
<1>3. UNCHANGED <<torn, record, archive, machine>> /\ journal' = NoJournal /\ KeepRetiring(r, "unlinked")
  BY DEF Unlink
<1>4. EvidenceType' /\ MachineType'
  BY <1>2, <1>3, IdleType DEF EvidenceType, MachineType
<1>5. Missing' /\ Replaces
  BY <1>2, <1>3 DEF Inv, Missing, Replaces, NoJournal, None
<1>6. Accounted'
  BY <1>2, <1>3 DEF Inv, Accounted, Evident, Own
<1>7. HeldAt("unlinked")'
  BY <1>2, <1>3 DEF HeldAt, Stage, Disposing, NoJournal, None
<1>8. QED BY <1>1, <1>2, <1>3, <1>4, <1>5, <1>6, <1>7, GoesOn

LEMMA IdleIs == /\ Idle \in RunType /\ Shaped(Idle) /\ Idle.at = "idle" /\ Idle.op = 0
                /\ "idle" \notin Begun \cup Early \cup Locked \cup {"quiesce", "recover", "repeat",
                     "final", "verified",
                                                                    "complete", "filed", "resume",
                                                                      "verify", "install"}
<1>1. Shaped(Idle) /\ Idle.at = "idle" /\ Idle.op = 0
  BY DEF Shaped, Idle, Command
<1>2. QED BY <1>1, IdleType DEF Begun, Early, Locked, Retiring, Disposing

LEMMA UnlinkedKeeps == ASSUME Inv, NEW r \in Runs, Unlinked(r) PROVE Inv'
<1> USE DEF machine
<1>1. runs[r].at = "unlinked" /\ runs[r].at \in Disposing \cap Locked
  BY DEF Unlinked, At, Disposing, Locked
<1>2. EvidenceType /\ MachineType
  BY <1>1, Alone
<1>3. /\ UNCHANGED <<journal, torn, archive, machine, gate, world>> /\ record' = None /\ flock' = None
      /\ runs' = [runs EXCEPT ![r] = Idle] /\ host' \in {host, None}
  BY DEF Unlinked
<1>4. Moves(r, Idle)
  BY <1>3, IdleIs, Set DEF Inv, Types
<1>5. EvidenceType' /\ MachineType'
  BY <1>2, <1>3 DEF EvidenceType, MachineType
<1>6. Missing' /\ Accounted' /\ Replaces
  BY <1>3 DEF Inv, Missing, Accounted, Evident, Replaces
<1>7. PICK n : n = Idle
  OBVIOUS
<1>8. HeldAt("idle")'
  BY IdleIs DEF HeldAt, Locked, Retiring, Disposing
<1>9. HeldAt(n.at)'
  BY <1>7, <1>8, IdleIs
<1>10. Moves(r, n) /\ Shaped(n) /\ n.at = "idle"
  BY <1>4, <1>7, IdleIs
<1>11. QED BY <1>1, <1>3, <1>5, <1>6, <1>9, <1>10, IdleIs, Alone, HolderKeeps

----------------------------------------------------------------------------
(* Taking the operation lock, and the completion *)

\* Nobody has the lock, or installs, when it is taken.
LEMMA Free ==
  ASSUME Inv, flock = None
  PROVE  \A q \in Runs : runs[q].at \notin Locked
  BY ReleasesAssumption DEF Inv, Locks

LEMMA FreeOfInstall ==
  ASSUME Inv, record = None
  PROVE  \A q \in Runs : runs[q].at # "install"
<1>1. ASSUME NEW q \in Runs, runs[q].at = "install" PROVE FALSE
  BY <1>1, ReleasesAssumption DEF Inv, Installing, Types, RunsType
<1>2. QED BY <1>1

LEMMA LockKeeps ==
  ASSUME Inv, NEW r \in Runs, At(r, "lock"), StillRetirable(r), flock' = r, Goto(r, "journal"),
         UNCHANGED <<evidence, machine, gate, host, world>>
  PROVE  Inv'
<1> USE DEF machine, evidence
<1>1. runs[r].at = "lock" /\ "journal" \in Points /\ runs[r].target \in Releases
        /\ runs[r].source \in Releases
      /\ runs[r].at \notin Outside \cup Early \cup Disposing
  BY DEF At, Points, Retirement, Inv, Types, RunsType, Outside, Early, Disposing
<1>2. \A q \in Runs \ {r} : runs[q].at \notin Locked \cup {"install"}
  BY Free, FreeOfInstall DEF StillRetirable
<1>3. PICK n : n = AtPoint(runs[r], "journal")
  OBVIOUS
<1>4. Moves(r, n)
  BY <1>1, <1>3, SetAt DEF Inv, Types
<1>5. Shaped(n) /\ n.at = "journal"
  BY <1>1, <1>3 DEF Shaped, AtPoint
<1>6. EvidenceType' /\ MachineType' /\ Missing' /\ Accounted' /\ Replaces
  BY DEF Inv, Types, EvidenceType, MachineType, Missing, Accounted, Evident, Replaces
<1>7. HeldAt("journal")'
  BY DEF StillRetirable, HeldAt, Stage, Disposing, NoJournal, None
<1>8. HeldAt(n.at)'
  BY <1>5, <1>7
<1>9. n.at \notin Begun \cup Early \cup {"quiesce", "recover", "repeat", "final", "verified", "verify",
        "complete", "filed", "resume"}
  BY <1>5 DEF Begun, Early
<1>10. QED BY <1>1, <1>2, <1>4, <1>5, <1>6, <1>8, <1>9, HolderKeeps

LEMMA CompleteKeeps ==
  ASSUME Inv, NEW r \in Runs, At(r, "complete"), Completable(r), SetStage("COMPLETE"), flock' = r,
    Goto(r, "filed"),
         UNCHANGED <<torn, record, archive, machine, gate, host, world>>
  PROVE  Inv'
<1> USE DEF machine
<1>1. runs[r].at = "complete" /\ "filed" \in Points /\ runs[r].target \in Releases /\ "COMPLETE" \in Stages
      /\ runs[r].at \notin Outside \cup Early \cup Disposing /\ EvidenceType /\ MachineType
  BY DEF At, Points, Inv, Types, RunsType, Outside, Early, Disposing, Stages
<1>2. \A q \in Runs \ {r} : runs[q].at \notin Locked \cup {"install"}
  BY Free, FreeOfInstall DEF Completable
<1>3. PICK n : n = AtPoint(runs[r], "filed")
  OBVIOUS
<1>4. Moves(r, n)
  BY <1>1, <1>3, SetAt DEF Inv, Types
<1>5. Shaped(n) /\ n.at = "filed"
  BY <1>1, <1>3 DEF Shaped, AtPoint
<1>6. journal # NoJournal /\ journal.stage = "DECOMMISSIONED" /\ tree.current # None
  BY <1>1, ReleasesAssumption DEF Completable, NoJournal, None
<1>7. /\ journal' \in Journals /\ journal' # NoJournal /\ journal'.stage = "COMPLETE"
      /\ journal'.source = journal.source /\ journal'.target = journal.target
  BY <1>1, <1>6, StageSet
<1>8. EvidenceType' /\ MachineType'
  BY <1>1, <1>7 DEF EvidenceType, MachineType
<1>9. Missing' /\ Accounted' /\ Replaces
  BY <1>6, <1>7 DEF Inv, Missing, Accounted, Evident, Replaces
<1>10. HeldAt("filed")'
  BY <1>6, <1>7 DEF HeldAt, Stage, Disposing
<1>11. HeldAt(n.at)'
  BY <1>5, <1>10
<1>12. Pool => ~torn' /\ record' = None
  BY <1>1 DEF Inv, Proved
<1>13. n.at \notin Begun \cup Early \cup {"quiesce", "recover", "repeat", "final", "verified",
         "verify", "resume"}
  BY <1>5 DEF Begun, Early
<1>14. QED BY <1>1, <1>2, <1>4, <1>5, <1>8, <1>9, <1>11, <1>12, <1>13, HolderKeeps

LEMMA FileKeeps == ASSUME Inv, NEW r \in Runs, File(r) PROVE Inv'
<1> DEFINE me == <<journal.source, journal.target>>
           new == [runtime |-> archive[me].runtime, op |-> journal.op, kept |-> archive[me].kept
             \cup {"decommission"}]
<1> USE DEF machine
<1>1. runs[r].at = "filed" /\ runs[r].at \in Locked /\ runs[r].at \notin Disposing /\ "resume" \in Points
  BY DEF File, At, Locked, Disposing, Points, Coordinator
<1>2. EvidenceType /\ MachineType /\ journal.stage = "COMPLETE" /\ runs[r].target \in Releases
  BY <1>1, Alone DEF Stage
<1>3. journal # NoJournal
  BY <1>2 DEF NoJournal, None
<1>4. /\ UNCHANGED <<torn, record, machine, gate, host, world>> /\ journal' = NoJournal /\ flock' = None
      /\ Goto(r, "resume")
  BY DEF File
<1>5. me \in Archives /\ archive[me] \in Kept /\ journal.op \in 0..MaxOps
  BY <1>2, <1>3, StageNone DEF EvidenceType
<1>6. new \in Kept
  BY <1>5 DEF Kept, Files
<1>7. archive' = [archive EXCEPT ![me] = new]
  BY DEF File, Own
<1>8. EvidenceType' /\ MachineType'
  BY <1>2, <1>4, <1>6, <1>7, IdleType DEF EvidenceType, MachineType
<1>9. Missing' /\ Replaces
  BY <1>2, <1>4 DEF Inv, Missing, Replaces, NoJournal, None
<1>10. Accounted'
  BY <1>2, <1>4, <1>7 DEF Inv, Accounted, Evident, EvidenceType
<1>11. PICK n : n = AtPoint(runs[r], "resume")
  OBVIOUS
<1>12. Moves(r, n)
  BY <1>1, <1>4, <1>11, SetAt DEF Inv, Types
<1>13. Shaped(n) /\ n.at = "resume"
  BY <1>2, <1>11 DEF Shaped, AtPoint
<1>14. HeldAt("resume")'
  BY DEF HeldAt, Locked, Retiring, Disposing
<1>15. HeldAt(n.at)'
  BY <1>13, <1>14
<1>16. Pool => NoEvidence'
  BY <1>1, <1>4 DEF Inv, Proved, NoEvidence
<1>17. n.at \notin Begun \cup Early \cup Locked \cup {"quiesce", "recover", "repeat", "final",
         "verified", "verify", "complete", "filed"}
  BY <1>13 DEF Begun, Early, Locked, Retiring, Disposing
<1>18. QED BY <1>1, <1>4, <1>8, <1>9, <1>10, <1>12, <1>13, <1>15, <1>16, <1>17, Alone, HolderKeeps

LEMMA RecoverKeeps ==
  ASSUME Inv, NEW r \in Runs, At(r, "recover"), Recoverable(r), flock' = r, Goto(r, "timer"),
         UNCHANGED <<evidence, machine, gate, host, world>>
  PROVE  Inv'
<1> USE DEF machine, evidence, world
<1>1. runs[r].at = "recover" /\ "timer" \in Points /\ runs[r].target \in Releases
      /\ "timer" \notin Outside \cup Early \cup Begun
  BY DEF At, Points, Disposition, Inv, Types, RunsType, Outside, Early, Begun
<1>2. \A q \in Runs : runs[q].at \notin Locked
  BY Free DEF Recoverable
<1>3. journal # NoJournal /\ journal.stage = "DECOMMISSIONED" /\ tree.current # None
  BY <1>1, ReleasesAssumption DEF Recoverable, NoJournal, None
<1>4. Pool => /\ gate.phase \notin {"applying", "verified"} /\ gate # Open
              /\ \A q \in Runs : runs[q].at \in Outside
  <2>1. SUFFICES ASSUME Pool PROVE /\ gate.phase \notin {"applying", "verified"} /\ gate # Open
                                   /\ \A q \in Runs : runs[q].at \in Outside
    OBVIOUS
  <2>2. gate.phase \notin {"applying", "verified"} /\ gate # Open
    BY <2>1 DEF Recoverable, Contained, Open
  <2>3. ASSUME NEW q \in Runs, runs[q].at \notin Outside PROVE FALSE
    <3>1. runs[q].at \in Early
      BY <1>2, <2>1, <2>2, <2>3 DEF Inv, Contest, Locked
    <3>2. ~NoEvidence
      BY <1>3 DEF NoEvidence
    <3>3. QED BY <1>1, <2>1, <3>1, <3>2 DEF Inv, Contest
  <2>4. QED BY <2>2, <2>3
<1>5. \A q \in Runs : runs[q].at # "install"
  <2>1. ASSUME NEW q \in Runs, runs[q].at = "install" PROVE FALSE
    <3>1. Pool
      BY <1>3, <2>1 DEF Inv, Unserved
    <3>2. QED BY <1>4, <2>1, <3>1 DEF Outside
  <2>2. QED BY <2>1
<1>6. PICK n : n = AtPoint(runs[r], "timer")
  OBVIOUS
<1>7. Moves(r, n) /\ n.at = "timer" /\ Shaped(n)
  <2>1. Moves(r, n)
    BY <1>1, <1>6, SetAt DEF Inv, Types
  <2>2. QED BY <1>1, <1>6, <2>1 DEF Shaped, AtPoint
<1>8. Pool' = Pool /\ NoEvidence' = NoEvidence /\ runs'[r] = n /\ \A q \in Runs \ {r} : runs'[q] = runs[q]
  BY <1>7 DEF Pool, NoEvidence, Moves
<1>9. Types'
  <2>1. RunsType'
    BY <1>7, RunsKeep DEF Inv, Types
  <2>2. QED
    BY <2>1 DEF Inv, Types, EvidenceType, MachineType, GateType, ControlType, WorldType
<1>10. Locks' /\ Installing'
  BY <1>2, <1>5, <1>7, <1>8 DEF Locks, Installing
<1>11. Held'
  <2>1. HeldAt("timer")'
    BY <1>3 DEF HeldAt, Stage, Disposing
  <2>2. ASSUME NEW q \in Runs \ {r} PROVE HeldAt(runs[q].at)'
    BY <1>2, <1>8 DEF HeldAt, Locked, Retiring, Disposing
  <2>3. HeldAt(runs[r].at)'
    BY <1>7, <1>8, <2>1
  <2>4. QED BY <2>2, <2>3 DEF Held
<1>12. Missing' /\ Accounted' /\ OpenIsClean'
  BY <1>8 DEF Inv, Missing, Accounted, Evident, OpenIsClean
<1>13. OneBackend'
  BY <1>1, <1>7, OneBackendKeeps
<1>14. Unserved'
  BY <1>7, <1>8 DEF Inv, Unserved
<1>15. Pooled'
  BY <1>1, <1>7, <1>8 DEF Inv, Pooled
<1>16. Contest'
  <2>1. SUFFICES ASSUME Pool PROVE Contest'
    BY <1>8 DEF Contest
  <2>2. \A q \in Runs \ {r} : runs'[q].at \in Outside \ Early
    BY <1>4, <1>8, <2>1 DEF Outside, Early
  <2>3. runs'[r].at = "timer" /\ "timer" \in Disposing
    BY <1>7, <1>8 DEF Disposing
  <2>4. QED BY <1>1, <1>4, <1>8, <2>1, <2>2, <2>3 DEF Inv, Contest
<1>17. Proved'
  <2>1. \A q \in Runs : Pool => runs'[q].at \in Outside \cup {"timer"}
    BY <1>4, <1>7, <1>8
  <2>2. QED BY <1>8, <2>1 DEF Proved, Outside, Begun
<1>18. QED
  BY <1>9, <1>10, <1>11, <1>12, <1>13, <1>14, <1>15, <1>16, <1>17 DEF Inv

----------------------------------------------------------------------------
(* The gate of the pool, in the hands of the command past it *)

LEMMA ClosedKeeps ==
  ASSUME gate \in Closed
  PROVE  /\ \A p \in {"quiesced", "drained", "applying", "recovery-required", "verified"} :
               /\ [gate EXCEPT !.phase = p] \in Closed /\ [gate EXCEPT !.phase = p].phase = p
               /\ [gate EXCEPT !.phase = p].target = gate.target /\ [gate EXCEPT !.phase = p].op = gate.op
         /\ \A t \in Releases : [gate EXCEPT !.target = t] \in Closed
              /\ [gate EXCEPT !.target = t].phase = gate.phase
         /\ gate # Open /\ gate # NoGate
  BY DEF Closed, Open, NoGate, None

LEMMA ClosedIs == ASSUME NEW g \in Closed PROVE g # Open /\ g # NoGate
  BY DEF Closed, Open, NoGate, None

LEMMA PastGate ==
  ASSUME Inv, NEW r \in Runs, Pool, runs[r].at \notin Outside
  PROVE  gate \in Closed /\ \A q \in Runs \ {r} : runs[q].at \in Outside
  BY DEF Inv, Contest, Types, GateType, Pool

LEMMA GateKeeps ==
  ASSUME Inv, NEW r \in Runs, NEW n, Moves(r, n), Shaped(n), Pool, gate' \in Closed,
         runs[r].at \in Early \cup {"verified"},
         n.at \in {"applying", "inspect", "verify", "resume", "complete", "retarget", "reapply",
           "repeat", "postcheck"},
         n.at \in Early => runs[r].at \in Early,
         n.at \notin Early => gate'.phase \in {"applying", "verified"},
         n.at = "complete" => ~torn /\ record = None,
         n.at = "resume" => NoEvidence,
         UNCHANGED <<evidence, machine, control, world>>
  PROVE  Inv'
<1> USE DEF machine, evidence, world, control
<1>1. runs[r].at \notin Outside \cup Locked \cup Begun /\ n.at \notin Locked \cup Begun \cup Outside
      /\ n.at \notin {"filed", "verified", "idle", "quiesce", "recover"}
  BY DEF Outside, Early, Locked, Retiring, Disposing, Begun
<1>2. \A q \in Runs \ {r} : runs[q].at \in Outside
  BY <1>1, PastGate
<1>3. Pool' /\ gate' # Open /\ NoEvidence' = NoEvidence /\ runs'[r] = n
        /\ \A q \in Runs \ {r} : runs'[q] = runs[q]
  BY ClosedIs DEF Pool, NoEvidence, Moves
<1>4. \A q \in Runs : runs'[q].at \notin Locked \cup Begun
  BY <1>1, <1>2, <1>3 DEF Outside, Locked, Retiring, Disposing, Begun
<1>5. Types'
  <2>1. RunsType'
    BY RunsKeep DEF Inv, Types
  <2>2. QED
    BY <2>1 DEF Inv, Types, EvidenceType, MachineType, GateType, ControlType, WorldType
<1>6. Locks' /\ Installing' /\ OneBackend'
  BY <1>4 DEF Locks, Installing, OneBackend, Begun
<1>7. Held'
  <2>1. ASSUME NEW q \in Runs PROVE HeldAt(runs[q].at)'
    BY <1>4 DEF HeldAt, Locked, Retiring, Disposing
  <2>2. QED BY <2>1 DEF Held
<1>8. Missing' /\ Accounted' /\ OpenIsClean'
  BY <1>3 DEF Inv, Missing, Accounted, Evident, OpenIsClean
<1>9. Unserved' /\ Pooled'
  BY <1>3 DEF Unserved, Pooled
<1>10. Contest'
  BY <1>1, <1>3, ContestKeeps
<1>11. Proved'
  <2>1. n.at \notin Begun \cup {"verified"}
    BY <1>1
  <2>2. n.at \in {"verified", "complete", "filed"} => ~torn' /\ record' = None
    BY <1>1
  <2>3. n.at = "resume" => NoEvidence'
    BY <1>3
  <2>4. QED BY <1>1, <1>3, <2>1, <2>2, <2>3, ProvedKeeps
<1>12. QED BY <1>5, <1>6, <1>7, <1>8, <1>9, <1>10, <1>11 DEF Inv

LEMMA GateMoves ==
  ASSUME Inv, NEW r \in Runs,
         NEW p \in {"applying", "inspect", "verify", "resume", "complete", "retarget", "reapply",
           "repeat", "postcheck"},
         Goto(r, p), Pool, gate' \in Closed, runs[r].at \in Early \cup {"verified"},
         p \in Early => runs[r].at \in Early,
         p \notin Early => gate'.phase \in {"applying", "verified"},
         p = "complete" => ~torn /\ record = None,
         p = "resume" => NoEvidence,
         UNCHANGED <<evidence, machine, control, world>>
  PROVE  Inv'
<1>1. p \in Points
  BY DEF Points, Coordinator, Retirement, Backend
<1>2. PICK n : n = AtPoint(runs[r], p)
  OBVIOUS
<1>3. Moves(r, n)
  BY <1>1, <1>2, SetAt DEF Inv, Types
<1>4. n.at = p /\ n.target = runs[r].target
  BY <1>2 DEF AtPoint
<1>5. Shaped(n)
  BY <1>4 DEF Shaped, Inv, Types, RunsType, Early
<1>6. QED BY <1>3, <1>4, <1>5, GateKeeps

LEMMA EarlyHas == ASSUME Inv, NEW r \in Runs, runs[r].at \in Early
                  PROVE  Pool /\ gate \in Closed /\ runs[r].target \in Releases
<1>1. Pool /\ runs[r].at \notin Outside
  BY DEF Inv, Pooled, Early, Outside
<1>2. QED BY <1>1, PastGate DEF Inv, Types, RunsType, Outside

LEMMA OpeningsKeep == ASSUME Inv, NEW r \in Runs, Drain(r) \/ Regate(r) \/ Applying(r) PROVE Inv'
<1>1. runs[r].at \in Early
  BY DEF Drain, Regate, Applying, At, Early
<1>2. Pool /\ gate \in Closed /\ runs[r].target \in Releases
  BY <1>1, EarlyHas
<1>3. UNCHANGED <<evidence, machine, control, world>>
  BY DEF Drain, Regate, Applying, SetGate
<1>4. CASE Drain(r) \/ Regate(r)
  <2>1. Goto(r, "applying") /\ gate' \in Closed
    BY <1>2, <1>4, ClosedKeeps DEF Drain, Regate, SetGate
  <2>2. "applying" \in Early
    BY DEF Early
  <2>3. QED BY <1>1, <1>2, <1>3, <2>1, <2>2, GateMoves
<1>5. CASE Applying(r)
  <2>1. PICK p \in {"inspect", "verify"} : Goto(r, p)
    BY <1>5 DEF Applying, SetGate
  <2>2. gate' \in Closed /\ gate'.phase = "applying"
    BY <1>2, <1>5, ClosedKeeps DEF Applying, SetGate
  <2>3. QED BY <1>1, <1>2, <1>3, <2>1, <2>2, GateMoves DEF Early
<1>6. QED BY <1>4, <1>5

LEMMA RegatingKeeps ==
  ASSUME Inv, NEW r \in Runs, Requeue(r) \/ Retarget(r) \/ Reapply(r), ~Refused(r)
  PROVE  Inv'
<1>1. runs[r].at \in Early
  BY DEF Requeue, Retarget, Reapply, At, Early
<1>2. Pool /\ gate \in Closed /\ runs[r].target \in Releases
  BY <1>1, EarlyHas
<1>3. UNCHANGED <<evidence, machine, control, world>>
  BY DEF Requeue, Retarget, Reapply
<1>4. CASE Requeue(r) \/ Retarget(r)
  <2>1. PICK p \in {"retarget", "reapply"} : Goto(r, p)
    BY <1>4 DEF Requeue, Retarget
  <2>2. gate' \in Closed
    BY <1>2, <1>4, ClosedKeeps DEF Requeue, Retarget
  <2>3. QED BY <1>1, <1>2, <1>3, <2>1, <2>2, GateMoves DEF Early
<1>5. CASE Reapply(r)
  <2>1. PICK p \in {"postcheck", "repeat", "verify"} : Goto(r, p)
    BY <1>5 DEF Reapply
  <2>2. gate' \in Closed /\ gate'.phase = "applying"
    BY <1>2, <1>5, ClosedKeeps DEF Reapply
  <2>3. QED BY <1>1, <1>2, <1>3, <2>1, <2>2, GateMoves DEF Early
<1>6. QED BY <1>4, <1>5

LEMMA VerifiedKeeps == ASSUME Inv, NEW r \in Runs, Verified(r) PROVE Inv'
<1>1. runs[r].at = "verified" /\ runs[r].at \notin Outside
  BY DEF Verified, At, Outside
<1>2. GateOk(r) /\ UNCHANGED <<evidence, machine, control, world>>
        /\ gate' = [gate EXCEPT !.phase = "verified"]
      /\ Goto(r, IF runs[r].digest = NoJournal THEN "resume" ELSE "complete")
  BY DEF Verified, SetGate
<1>3. gate.phase = "applying"
  BY <1>1, <1>2 DEF GateOk, At
<1>4. Pool
  BY <1>3 DEF Pool, NoGate, None
<1>5. gate' \in Closed /\ gate'.phase = "verified"
  BY <1>1, <1>2, <1>4, PastGate, ClosedKeeps
<1>6. ~torn /\ record = None /\ journal = runs[r].digest
  BY <1>1, <1>4 DEF Inv, Proved
<1>7. PICK p \in {"resume", "complete"} : Goto(r, p) /\ (p = "resume" => runs[r].digest = NoJournal)
  BY <1>2
<1>8. p = "resume" => NoEvidence
  BY <1>6, <1>7 DEF NoEvidence
<1>9. QED BY <1>1, <1>2, <1>4, <1>5, <1>6, <1>7, <1>8, GateMoves DEF Early

LEMMA QuiesceKeeps == ASSUME Inv, NEW r \in Runs, Quiesce(r) PROVE Inv'
<1> USE DEF machine, evidence, world, control
<1>1. runs[r].at = "quiesce" /\ runs[r].target \in Releases /\ runs[r].op \in 1..MaxOps /\ r # None
  BY BoundsAssumption, ReleasesAssumption DEF Quiesce, At, Inv, Types, RunsType, RunType
<1>2. /\ UNCHANGED <<evidence, machine, control, world>> /\ host = r /\ Goto(r, "drain") /\ GateOk(r)
      /\ gate' = [phase |-> "quiesced", op |-> runs[r].op, target |-> runs[r].target]
  BY DEF Quiesce, SetGate
<1>3. gate = Open /\ Pool /\ gate' \in Closed /\ NoEvidence
  <2>1. gate = Open
    BY <1>1, <1>2 DEF GateOk, At
  <2>2. QED BY <1>1, <1>2, <2>1 DEF Closed, Inv, OpenIsClean, Pool, Open, NoGate, None
<1>4. \A q \in Runs : runs[q].at \in Outside
  BY <1>3 DEF Inv, Contest
<1>5. PICK n : n = AtPoint(runs[r], "drain")
  OBVIOUS
<1>6. Moves(r, n) /\ n.at = "drain" /\ Shaped(n)
  <2>1. "drain" \in Points
    BY DEF Points, Coordinator
  <2>2. Moves(r, n)
    BY <1>2, <1>5, <2>1, SetAt DEF Inv, Types
  <2>3. QED BY <1>1, <1>5, <2>2 DEF Shaped, AtPoint
<1>7. Pool' /\ gate' # Open /\ NoEvidence' /\ runs'[r] = n /\ \A q \in Runs \ {r} : runs'[q] = runs[q]
  BY <1>2, <1>3, <1>6, ClosedIs DEF Pool, NoEvidence, Moves
<1>8. \A q \in Runs : runs'[q].at \in Outside \cup {"drain"}
  BY <1>4, <1>6, <1>7
<1>9. Outside \cup {"drain"} \subseteq (Outside \cup Early) \ (Locked \cup Begun
        \cup {"verify", "repeat", "final"})
  BY DEF Outside, Early, Locked, Retiring, Disposing, Begun
<1>10. Types'
  <2>1. RunsType'
    BY <1>6, RunsKeep DEF Inv, Types
  <2>2. QED
    BY <1>2, <1>3, <2>1 DEF Inv, Types, EvidenceType, MachineType, GateType, ControlType, WorldType
<1>11. Locks' /\ Installing' /\ OneBackend' /\ Unserved' /\ Pooled'
  BY <1>7, <1>8, <1>9 DEF Locks, Installing, OneBackend, Begun, Unserved, Pooled
<1>12. Held'
  <2>1. ASSUME NEW q \in Runs PROVE HeldAt(runs[q].at)'
    BY <1>8, <1>9 DEF HeldAt, Locked, Retiring, Disposing
  <2>2. QED BY <2>1 DEF Held
<1>13. Missing' /\ Accounted' /\ OpenIsClean'
  BY <1>2, <1>7 DEF Inv, Missing, Accounted, Evident, OpenIsClean
<1>14. Contest'
  <2>1. \A q \in Runs : runs'[q].at = "quiesce" => host' # q
    BY <1>1, <1>2, <1>6, <1>7
  <2>2. \A q \in Runs : runs'[q].at \notin Outside => q = r
    BY <1>4, <1>7
  <2>3. \A q \in Runs : runs'[q].at = "recover" => runs'[q].op = 0
    BY <1>3, <1>6, <1>7 DEF Inv, Contest
  <2>4. QED BY <1>4, <1>7, <1>8, <1>9, <2>1, <2>2, <2>3 DEF Contest
<1>15. Proved'
  BY <1>8, <1>9 DEF Proved, Outside, Begun
<1>16. QED
  BY <1>10, <1>11, <1>12, <1>13, <1>14, <1>15 DEF Inv

LEMMA ResumeKeeps == ASSUME Inv, NEW r \in Runs, Resume(r) PROVE Inv'
<1> USE DEF machine, evidence, world
<1>1. runs[r].at = "resume" /\ runs[r].at \notin Outside \cup Locked
  BY DEF Resume, At, Outside, Locked, Retiring, Disposing
<1>2. /\ UNCHANGED <<evidence, machine, flock, world>> /\ gate' = (IF Pool THEN Open ELSE NoGate)
      /\ runs' = [runs EXCEPT ![r] = Idle] /\ host' = None
  BY DEF Resume
<1>3. Moves(r, Idle) /\ Shaped(Idle) /\ Idle.at = "idle"
  BY <1>2, IdleIs, Set DEF Inv, Types
<1>4. Pool' = Pool /\ NoEvidence' = NoEvidence /\ runs'[r] = Idle /\ \A q \in Runs \ {r} : runs'[q] = runs[q]
  BY <1>2, <1>3 DEF Pool, NoEvidence, Moves, Open, NoGate, None
<1>5. Types'
  <2>1. RunsType'
    <3>1. PICK n : n = Idle
      OBVIOUS
    <3>2. Moves(r, n) /\ Shaped(n)
      BY <1>3, <3>1
    <3>3. QED BY <3>2, RunsKeep DEF Inv, Types
  <2>2. QED
    BY <1>2, <2>1 DEF Inv, Types, EvidenceType, MachineType, GateType, ControlType, WorldType
<1>6. Locks' /\ Installing'
  BY <1>2, <1>4, IdleIs DEF Inv, Locks, Installing
<1>7. Held'
  <2>1. ASSUME NEW q \in Runs \ {r} PROVE HeldAt(runs[q].at)'
    BY <1>2, <1>4 DEF Inv, Held, HeldAt, Own, Quiescent, NoneActive
  <2>2. HeldAt(runs[r].at)'
    BY <1>4, IdleIs DEF HeldAt, Locked, Retiring, Disposing
  <2>3. QED BY <2>1, <2>2 DEF Held
<1>8. Missing' /\ Accounted'
  BY <1>2 DEF Inv, Missing, Accounted, Evident
<1>9. OpenIsClean'
  BY <1>1, <1>2, <1>4 DEF Inv, Proved, OpenIsClean, Open, NoGate, None
<1>10. OneBackend' /\ Unserved' /\ Pooled'
  <2>1. host' # r /\ \A q \in Runs : host' # q
    BY <1>2, ReleasesAssumption
  <2>2. OneBackend'
    BY <1>2, <1>4, IdleIs DEF Inv, OneBackend
  <2>3. Unserved'
    BY <1>2, <1>4, <2>1, IdleIs DEF Inv, Unserved
  <2>4. Pooled'
    BY <1>4, IdleIs DEF Inv, Pooled
  <2>5. QED BY <2>2, <2>3, <2>4
<1>11. Contest' /\ Proved'
  <2>1. SUFFICES ASSUME Pool PROVE Contest' /\ Proved'
    BY <1>4 DEF Contest, Proved
  <2>2. \A q \in Runs : runs'[q].at \in Outside /\ (q # r => runs[q].at \in Outside)
    BY <1>1, <1>3, <1>4, <2>1, PastGate DEF Outside
  <2>3. Outside \cap (Early \cup Begun \cup {"verified", "complete", "filed", "resume"}) = {}
    BY DEF Outside, Early, Begun
  <2>4. \A q \in Runs : host' # q
    BY <1>2, ReleasesAssumption
  <2>5. \A q \in Runs : runs'[q].at = "recover" => runs'[q].op = 0
    BY <1>3, <1>4, <2>1 DEF Inv, Contest
  <2>6. QED BY <2>2, <2>3, <2>4, <2>5 DEF Contest, Proved
<1>12. QED
  BY <1>5, <1>6, <1>7, <1>8, <1>9, <1>10, <1>11 DEF Inv

----------------------------------------------------------------------------
(* The backend *)

LEMMA BackendKeeps ==
  ASSUME Inv, NEW r \in Runs, NEW p \in {"install", "clear", "postcheck", "verified", "resume"}, Goto(r, p),
         runs[r].at \in Begun, flock = None,
         UNCHANGED <<journal, torn, archive, marker, job, gate, control, world>>,
         EvidenceType', MachineType', Missing',
         p = "install" => runs[r].at = "begin" /\ record' = runs[r].target /\ tree' = tree,
         p = "verified" => Pool /\ record' = None,
         p = "resume" => ~Pool
  PROVE  Inv'
<1> USE DEF world, control
<1>1. /\ runs[r].at \notin Outside \cup Early \cup Locked /\ runs[r].target \in Releases
      /\ p \notin Outside \cup Early \cup Locked \cup {"complete", "verify", "begin"} /\ p \in Points
  BY DEF Begun, Outside, Early, Locked, Retiring, Disposing, Inv, Types, RunsType, Points, Coordinator,
     Backend
<1>2. \A q \in Runs : runs[q].at \notin Locked
  BY Free
<1>3. host \in {r, None} /\ \A q \in Runs \ {r} : runs[q].at \notin Begun
  BY DEF Inv, OneBackend
<1>4. PICK n : n = AtPoint(runs[r], p)
  OBVIOUS
<1>5. Moves(r, n) /\ n.at = p /\ n.target = runs[r].target /\ n.digest = runs[r].digest
  <2>1. Moves(r, n)
    BY <1>1, <1>4, SetAt DEF Inv, Types
  <2>2. QED BY <1>4, <2>1 DEF AtPoint
<1>6. Shaped(n)
  BY <1>1, <1>5 DEF Shaped
<1>7. Pool' = Pool /\ runs'[r] = n /\ \A q \in Runs \ {r} : runs'[q] = runs[q]
  BY <1>5 DEF Pool, Moves
<1>8. \A q \in Runs : runs'[q].at \notin Locked
  BY <1>1, <1>2, <1>5, <1>7
<1>9. Types'
  <2>1. RunsType'
    BY <1>5, <1>6, RunsKeep DEF Inv, Types
  <2>2. QED
    BY <2>1 DEF Inv, Types, GateType, ControlType, WorldType
<1>10. Locks'
  BY <1>8 DEF Locks
<1>11. Held'
  <2>1. ASSUME NEW q \in Runs PROVE HeldAt(runs[q].at)'
    BY <1>8 DEF HeldAt, Locked, Retiring, Disposing
  <2>2. QED BY <2>1 DEF Held
<1>12. Accounted'
  BY DEF Inv, Accounted, Evident
<1>13. OneBackend'
  BY <1>5, OneBackendKeeps
<1>14. Installing'
  BY <1>3, <1>5, <1>7 DEF Installing, Begun
<1>15. Unserved'
  <2>1. ASSUME NEW q \in Runs \ {r} PROVE runs'[q].at \notin {"begin", "install"} /\ host' # q
    BY <1>3, <1>7, <2>1, ReleasesAssumption DEF Begun
  <2>2. runs'[r].at = p /\ p \notin {"begin", "verify"}
    BY <1>1, <1>5, <1>7
  <2>3. p = "install" => Pool \/ journal.stage # "DECOMMISSIONED" \/ tree.current = None
    BY DEF Inv, Unserved
  <2>4. QED BY <1>7, <2>1, <2>2, <2>3 DEF Unserved
<1>16. Pooled'
  BY <1>1, <1>5, <1>7 DEF Inv, Pooled
<1>17. gate # Open
  BY <1>1 DEF Inv, Contest, Pool, Open, NoGate, None
<1>18. Contest'
  <2>1. Pool => gate'.phase \in {"applying", "verified"}
    BY <1>1 DEF Inv, Contest, Outside, Begun, Locked
  <2>2. QED BY <1>1, <1>5, <1>7, <1>17, <2>1, ContestKeeps
<1>19. Proved'
  <2>1. Pool => ~torn /\ journal = n.digest
    BY <1>5 DEF Inv, Proved
  <2>2. n.at \notin {"complete", "filed"}
    BY <1>1, <1>5 DEF Locked
  <2>3. QED BY <1>1, <1>5, <1>7, <2>1, <2>2, ProvedKeeps
<1>20. OpenIsClean'
  BY <1>17 DEF OpenIsClean
<1>21. QED
  BY <1>9, <1>10, <1>11, <1>12, <1>13, <1>14, <1>15, <1>16, <1>18, <1>19, <1>20 DEF Inv

LEMMA BeginRecordKeeps ==
  ASSUME Inv, NEW r \in Runs, At(r, "begin"), MayBegin(r), record' = runs[r].target, Goto(r, "install"),
         UNCHANGED <<journal, torn, archive, machine, gate, control, world>>
  PROVE  Inv'
<1> USE DEF machine
<1>1. runs[r].at = "begin" /\ runs[r].at \in Begun /\ runs[r].target \in Releases
  BY DEF At, Begun, Inv, Types, RunsType
<1>2. EvidenceType' /\ MachineType' /\ Missing'
  BY <1>1 DEF Inv, Types, EvidenceType, MachineType, Missing
<1>3. flock = None
  BY DEF MayBegin
<1>4. QED BY <1>1, <1>2, <1>3, BackendKeeps

LEMMA InstallKeeps == ASSUME Inv, NEW r \in Runs, Install(r) PROVE Inv'
<1>1. runs[r].at = "install" /\ runs[r].at \in Begun /\ runs[r].target \in Releases /\ runs[r].target # None
      /\ EvidenceType /\ MachineType
  BY ReleasesAssumption DEF Install, At, Begun, Inv, Types, RunsType
<1>2. UNCHANGED <<journal, torn, record, archive, marker, job, gate, control, world>> /\ Goto(r, "clear")
  BY DEF Install, evidence
<1>3. tree' \in [dir : BOOLEAN, current : Releases \cup {None}, runner : BOOLEAN]
      /\ tree'.dir /\ tree'.current = runs[r].target /\ tree'.runner = tree.runner
  BY <1>1 DEF Install, MachineType
<1>4. units' \in SUBSET Units /\ enabled' \in SUBSET Units
  BY <1>1, UnitsAre DEF Install, MachineType
<1>5. EvidenceType' /\ MachineType' /\ Missing'
  BY <1>1, <1>2, <1>3, <1>4 DEF EvidenceType, MachineType, Inv, Missing
<1>6. flock = None
  BY <1>1 DEF Inv, Installing
<1>7. QED BY <1>1, <1>2, <1>5, <1>6, BackendKeeps

LEMMA ClearKeeps ==
  ASSUME Inv, NEW r \in Runs, At(r, "clear"), flock = None, record' = None,
         Goto(r, IF runs[r].digest # NoJournal THEN "postcheck" ELSE IF Pool THEN "verified" ELSE "resume"),
         UNCHANGED <<journal, torn, archive, machine, gate, control, world>>
  PROVE  Inv'
<1> USE DEF machine
<1>1. runs[r].at = "clear" /\ runs[r].at \in Begun
  BY DEF At, Begun
<1>2. EvidenceType' /\ MachineType' /\ Missing'
  BY DEF Inv, Types, EvidenceType, MachineType, Missing
<1>3. PICK p \in {"postcheck", "verified", "resume"} :
        Goto(r, p) /\ (p = "verified" => Pool) /\ (p = "resume" => ~Pool)
  BY DEF Goto
<1>4. QED BY <1>1, <1>2, <1>3, BackendKeeps

----------------------------------------------------------------------------
(* A command that stops, refused or failed *)

LEMMA StopKeeps ==
  ASSUME Inv, NEW r \in Runs, Stopped(r), runs[r].at # "idle",
         UNCHANGED <<journal, record, archive, machine, attempt, ops>>, faults' \in 0..MaxFaults,
         torn' \in BOOLEAN, torn' = torn \/ runs[r].at \notin Outside
  PROVE  Inv'
<1> USE DEF machine
<1>1. /\ runs' = [runs EXCEPT ![r] = Idle] /\ flock' \in {flock, None} /\ (flock' # flock => flock = r)
      /\ host' \in {host, None}
  BY DEF Stopped
<1>2. Moves(r, Idle) /\ Shaped(Idle) /\ Idle.at = "idle"
  BY <1>1, IdleIs, Set DEF Inv, Types
<1>3. runs'[r] = Idle /\ \A q \in Runs \ {r} : runs'[q] = runs[q]
  BY <1>2 DEF Moves
<1>4. gate' = gate \/ (gate \in Closed /\ gate' \in Closed /\ runs[r].at \notin Outside)
  <2>1. SUFFICES ASSUME gate' # gate PROVE gate \in Closed /\ gate' \in Closed /\ runs[r].at \notin Outside
    OBVIOUS
  <2>2. host = r /\ runs[r].op # 0 /\ runs[r].op = gate.op
          /\ gate' = [gate EXCEPT !.phase = "recovery-required"]
    BY <2>1 DEF Stopped
  <2>3. gate \in Closed
    BY <2>2 DEF Inv, Types, GateType, Open, NoGate
  <2>4. Pool /\ gate' \in Closed /\ gate # Open
    BY <2>2, <2>3, ClosedKeeps DEF Pool
  <2>5. runs[r].at \notin Outside
    BY <2>2, <2>4 DEF Inv, Contest, Outside
  <2>6. QED BY <2>3, <2>4, <2>5
<1>5. Pool' = Pool /\ (gate' = Open <=> gate = Open)
  BY <1>4, ClosedIs DEF Pool
<1>6. Pool /\ runs[r].at \notin Outside => gate # Open /\ \A q \in Runs \ {r} : runs[q].at \in Outside
  BY DEF Inv, Contest
<1>7. runs[r].at \in Outside => torn' = torn /\ gate' = gate
  BY <1>4
<1>8. Types'
  <2>1. PICK n : n = Idle
    OBVIOUS
  <2>2. Moves(r, n) /\ Shaped(n)
    BY <1>2, <2>1
  <2>3. RunsType'
    BY <2>2, RunsKeep DEF Inv, Types
  <2>4. GateType' /\ ControlType'
    BY <1>1, <1>4 DEF Inv, Types, GateType, ControlType
  <2>5. QED
    BY <2>3, <2>4 DEF Inv, Types, EvidenceType, MachineType, WorldType
<1>9. Locks'
  BY <1>1, <1>3, IdleIs DEF Inv, Locks
<1>10. Installing'
  BY <1>1, <1>3, IdleIs DEF Inv, Installing
<1>11. Held'
  <2>1. ASSUME NEW q \in Runs \ {r} PROVE HeldAt(runs[q].at)'
    BY <1>3, <1>5 DEF Inv, Held, HeldAt, Own, Quiescent, NoneActive
  <2>2. HeldAt(runs[r].at)'
    BY <1>3, IdleIs DEF HeldAt, Locked, Retiring, Disposing
  <2>3. QED BY <2>1, <2>2 DEF Held
<1>12. Missing' /\ Accounted'
  BY DEF Inv, Missing, Accounted, Evident
<1>13. OpenIsClean'
  <2>1. SUFFICES ASSUME gate = Open PROVE NoEvidence'
    BY <1>5 DEF OpenIsClean
  <2>2. Pool
    BY <2>1 DEF Pool, Open, NoGate, None
  <2>3. QED BY <1>6, <1>7, <2>1, <2>2 DEF Inv, OpenIsClean, NoEvidence
<1>14. OneBackend' /\ Unserved' /\ Pooled'
  <2>1. OneBackend'
    BY <1>1, <1>3, ReleasesAssumption, IdleIs DEF Inv, OneBackend
  <2>2. Unserved'
    BY <1>1, <1>3, <1>5, ReleasesAssumption, IdleIs DEF Inv, Unserved
  <2>3. Pooled'
    BY <1>3, <1>5, IdleIs DEF Inv, Pooled
  <2>4. QED BY <2>1, <2>2, <2>3
<1>15. Contest' /\ Proved'
  <2>1. SUFFICES ASSUME Pool PROVE Contest' /\ Proved'
    BY <1>5 DEF Contest, Proved
  <2>2. ASSUME NEW q \in Runs, host' = q PROVE host = q
    BY <1>1, <2>2, ReleasesAssumption
  <2>3. CASE runs[r].at \notin Outside
    <3>1. gate' # Open /\ gate # Open /\ \A q \in Runs \ {r} : runs'[q] = runs[q] /\ runs[q].at \in Outside
      BY <1>3, <1>5, <1>6, <2>1, <2>3
    <3>2. \A q \in Runs : runs'[q].at \in Outside /\ runs'[q].at \notin Early \cup Begun
            \cup {"verified", "complete", "filed", "resume"}
      BY <1>2, <1>3, <3>1, IdleIs DEF Outside, Early, Begun
    <3>3. \A q \in Runs : ~(runs'[q].at = "quiesce" /\ host' = q) /\ (runs'[q].at = "recover"
            => runs'[q].op = 0)
      BY <1>2, <1>3, <2>1, <2>2, <3>1, IdleIs DEF Inv, Contest
    <3>4. QED BY <3>2, <3>3 DEF Contest, Proved
  <2>4. CASE runs[r].at \in Outside
    <3>1. gate' = gate /\ NoEvidence' = NoEvidence /\ torn' = torn /\ runs'[r] = Idle /\ Idle.at = "idle"
          /\ "idle" \in Outside
      BY <1>2, <1>3, <1>7, <2>4 DEF NoEvidence, Outside
    <3>2. ASSUME NEW q \in Runs
          PROVE  /\ runs'[q].at = "quiesce" /\ host' = q => gate' = Open
                 /\ runs'[q].at \notin Outside => gate' # Open
                      /\ \A o \in Runs \ {q} : runs'[o].at \in Outside
                 /\ runs'[q].at \in Early => NoEvidence' \/ \A o \in Runs : runs'[o].at # "recover"
                 /\ runs'[q].at \notin Outside \cup Early \cup Disposing
                      => gate'.phase \in {"applying", "verified"}
                 /\ runs'[q].at = "recover" => runs'[q].op = 0
      <4>1. CASE q = r
        BY <3>1, <4>1, IdleIs
      <4>2. CASE q # r
        <5>1. runs'[q] = runs[q]
          BY <1>3, <4>2
        <5>2. runs[q].at \notin Outside => \A o \in Runs \ {q} : runs'[o].at \in Outside
          BY <1>3, <2>1, <3>1 DEF Inv, Contest
        <5>3. runs[q].at \in Early => NoEvidence \/ \A o \in Runs : runs'[o].at # "recover"
          BY <1>3, <2>1, <3>1 DEF Inv, Contest
        <5>4. QED BY <2>1, <2>2, <3>1, <5>1, <5>2, <5>3 DEF Inv, Contest
      <4>3. QED BY <4>1, <4>2
    <3>3. Contest'
      BY <3>2 DEF Contest
    <3>4. Proved'
      BY <1>3, <2>1, <3>1, IdleIs DEF Inv, Proved
    <3>5. QED BY <3>3, <3>4
  <2>5. QED BY <2>3, <2>4
<1>16. QED
  BY <1>8, <1>9, <1>10, <1>11, <1>12, <1>13, <1>14, <1>15 DEF Inv

LEMMA RefusedKeeps == ASSUME Inv, NEW r \in Runs, Refused(r), runs[r].at # "idle" PROVE Inv'
<1>1. Stopped(r) /\ UNCHANGED <<journal, record, archive, machine, attempt, ops, torn, faults>>
  BY DEF Refused, evidence, world
<1>2. torn \in BOOLEAN /\ faults \in 0..MaxFaults
  BY DEF Inv, Types, EvidenceType, WorldType
<1>3. QED BY <1>1, <1>2, StopKeeps

LEMMA FailKeeps == ASSUME Inv, NEW r \in Runs, Fail(r) PROVE Inv'
<1>1. Stopped(r) /\ UNCHANGED <<journal, record, archive, machine, attempt, ops>>
  BY DEF Fail
<1>2. faults' \in 0..MaxFaults
  BY BoundsAssumption DEF Fail, Fault, Inv, Types, WorldType
<1>3. runs[r].at # "idle"
  BY DEF Fail, Inv, Types, RunsType
<1>4. torn' \in BOOLEAN /\ (torn' = torn \/ runs[r].at \notin Outside)
  BY DEF Fail, Outside, Inv, Types, EvidenceType
<1>5. QED BY <1>1, <1>2, <1>3, <1>4, StopKeeps

----------------------------------------------------------------------------
(* A command that starts *)

\* What the start of a command asks, by its first point.
Starts(r, n) ==
  /\ n.at \in {"quiesce", "inspect", "verify", "regate", "recover", "continue"}
  /\ n.digest = NoJournal
  /\ n.at = "quiesce" => gate = Open
  /\ n.at \in {"inspect", "verify"} => ~Pool
  /\ n.at \in {"regate", "continue"} => Pool /\ gate # Open
  /\ n.at \in {"regate", "recover", "continue"} => Diagnosed
  /\ n.at = "recover" => n.op = 0

LEMMA BeginKeeps ==
  ASSUME Inv, NEW r \in Runs, NEW n \in RunType, Shaped(n), Starts(r, n), Begin(r, n), n.op \in 0..MaxOps
  PROVE  Inv'
<1> USE DEF machine, evidence
<1>1. /\ runs[r] = Idle /\ host = None /\ runs' = [runs EXCEPT ![r] = n] /\ host' = r
      /\ UNCHANGED <<evidence, machine, gate, attempt, flock, faults>> /\ ops' \in {ops, n.op}
  BY DEF Begin
<1>2. \A q \in Runs : runs[q].at \notin Begun
  BY DEF Begin, NoOrphanedBackend, Backend, Begun
<1>3. Moves(r, n)
  BY <1>1, Set DEF Inv, Types
<1>4. Pool' = Pool /\ NoEvidence' = NoEvidence /\ runs'[r] = n /\ \A q \in Runs \ {r} : runs'[q] = runs[q]
  BY <1>1, <1>3 DEF Pool, NoEvidence, Moves
<1>5. n.at \notin Locked \cup Begun \cup {"install", "repeat", "final", "verified", "complete",
        "filed", "resume", "idle"}
  BY DEF Starts, Locked, Retiring, Disposing, Begun
<1>6. Types'
  <2>1. RunsType'
    BY <1>3, RunsKeep DEF Inv, Types
  <2>2. QED
    BY <1>1, <2>1 DEF Inv, Types, EvidenceType, MachineType, GateType, ControlType, WorldType
<1>7. Locks' /\ Installing' /\ OneBackend'
  BY <1>1, <1>2, <1>4, <1>5 DEF Inv, Locks, Installing, OneBackend, Begun
<1>8. Held'
  <2>1. ASSUME NEW q \in Runs \ {r} PROVE HeldAt(runs[q].at)'
    BY <1>1, <1>4 DEF Inv, Held, HeldAt, Own, Quiescent, NoneActive
  <2>2. HeldAt(runs[r].at)'
    BY <1>4, <1>5 DEF HeldAt, Locked, Retiring, Disposing
  <2>3. QED BY <2>1, <2>2 DEF Held
<1>9. Missing' /\ Accounted' /\ OpenIsClean'
  BY <1>1, <1>4 DEF Inv, Missing, Accounted, Evident, OpenIsClean
<1>10. Unserved'
  <2>1. \A q \in Runs : runs'[q].at \notin {"begin", "install"}
    BY <1>2, <1>4, <1>5 DEF Begun
  <2>2. \A q \in Runs : host' = q => runs'[q].digest = NoJournal
    BY <1>1, <1>4 DEF Starts
  <2>3. QED BY <2>1, <2>2 DEF Unserved
<1>11. Pooled'
  <2>1. n.at \in Early \cup {"quiesce", "repeat", "final"} => Pool
    BY <1>5 DEF Starts, Early, Pool, Open, NoGate, None
  <2>2. QED BY <1>4, <2>1 DEF Inv, Pooled
<1>12. Contest'
  <2>1. SUFFICES ASSUME Pool PROVE Contest'
    BY <1>4 DEF Contest
  <2>2. Idle.at = "idle" /\ "idle" \in Outside \ Early
    BY IdleIs DEF Outside, Early
  <2>3. n.at \notin Outside => n.at \in Early /\ gate # Open /\ Diagnosed
    BY <2>1 DEF Starts, Outside, Early
  <2>4. ASSUME NEW q \in Runs
        PROVE  /\ runs'[q].at = "quiesce" /\ host' = q => gate' = Open
               /\ runs'[q].at \notin Outside => gate' # Open /\ \A o \in Runs \ {q} : runs'[o].at \in Outside
               /\ runs'[q].at \in Early => NoEvidence' \/ \A o \in Runs : runs'[o].at # "recover"
               /\ runs'[q].at \notin Outside \cup Early \cup Disposing => gate'.phase \in {"applying",
                    "verified"}
               /\ runs'[q].at = "recover" => runs'[q].op = 0
    <3>1. CASE q = r
      <4>1. \A o \in Runs \ {r} : Diagnosed => runs'[o].at = "idle"
        BY <1>4, <2>2 DEF Diagnosed
      <4>2. n.at \in Early => Diagnosed /\ n.at # "recover"
        BY DEF Starts, Early
      <4>3. QED BY <1>1, <1>4, <2>2, <2>3, <3>1, <4>1, <4>2 DEF Starts
    <3>2. CASE q # r
      <4>1. runs'[q] = runs[q] /\ host' # q
        BY <1>1, <1>4, <3>2
      <4>2. runs[q].at \notin Outside => n.at \in Outside /\ n.at # "recover"
        BY <2>2, <2>3 DEF Diagnosed, Starts
      <4>3. runs[q].at \notin Outside => \A o \in Runs \ {q} : runs'[o].at \in Outside
        BY <1>4, <2>1, <4>2 DEF Inv, Contest
      <4>4. runs[q].at \in Early => NoEvidence \/ \A o \in Runs : runs'[o].at # "recover"
        BY <1>4, <2>1, <4>2 DEF Inv, Contest, Outside, Early
      <4>5. QED BY <1>1, <1>4, <2>1, <4>1, <4>3, <4>4 DEF Inv, Contest
    <3>3. QED BY <3>1, <3>2
  <2>5. QED BY <2>4 DEF Contest
<1>13. Proved'
  BY <1>1, <1>4, <1>5 DEF Inv, Proved, NoEvidence
<1>14. QED
  BY <1>6, <1>7, <1>8, <1>9, <1>10, <1>11, <1>12, <1>13 DEF Inv

LEMMA OwnerKeeps == ASSUME Inv, NEW r \in Runs, Owner(r) PROVE Inv'
<1>1. PICK t \in Releases : \/ StartReinstall(r, t) \/ StartApply(r, t) \/ StartApplyRecovery(r, t)
                            \/ StartRecover(r, t) \/ StartContinue(r, t)
  BY DEF Owner
<1>2. ops \in 0..MaxOps /\ gate \in {Open, NoGate} \cup Closed /\ 0 \in 0..MaxOps /\ NoJournal \in Journals
  BY BoundsAssumption, IdleType DEF Inv, Types, GateType, WorldType
<1>3. gate.op \in 0..MaxOps
  BY <1>2, BoundsAssumption DEF Open, NoGate, Closed
<1>4. PICK p \in {"quiesce", "inspect", "verify", "regate", "recover", "continue"}, o \in 0..MaxOps,
        k \in {0, 1} :
        /\ Begin(r, Command(p, t, o, NoJournal, k))
        /\ p = "quiesce" => gate = Open /\ o # 0
        /\ p \in {"inspect", "verify"} => ~Pool
        /\ p \in {"regate", "continue"} => Pool /\ gate # Open
        /\ p \in {"regate", "recover", "continue"} => Diagnosed
        /\ p = "recover" => o = 0
  <2>1. CASE StartReinstall(r, t) \/ StartApply(r, t)
    <3>1. ops + 1 \in 0..MaxOps /\ ops + 1 # 0
      BY <1>2, <2>1, BoundsAssumption DEF StartReinstall, StartApply, Admitted
    <3>2. Pool => gate = Open
      BY <2>1 DEF StartReinstall, StartApply, Admitted, Pool
    <3>3. PICK p \in {"inspect", "verify"}, k \in {0, 1} : Begin(r, Fresh(t, p, k))
      BY <2>1 DEF StartReinstall, StartApply
    <3>4. CASE Pool
      BY <3>1, <3>2, <3>3, <3>4 DEF Fresh
    <3>5. CASE ~Pool
      BY <3>1, <3>3, <3>5 DEF Fresh
    <3>6. QED BY <3>4, <3>5
  <2>2. CASE StartApplyRecovery(r, t)
    BY <1>3, <2>2 DEF StartApplyRecovery, Open
  <2>3. CASE StartRecover(r, t)
    BY <1>2, <2>3 DEF StartRecover
  <2>4. CASE StartContinue(r, t)
    BY <1>3, <2>4 DEF StartContinue
  <2>5. QED BY <1>1, <2>1, <2>2, <2>3, <2>4
<1>5. PICK n : n = Command(p, t, o, NoJournal, k)
  OBVIOUS
<1>6. n.at = p /\ n.op = o /\ n.target = t /\ n.digest = NoJournal /\ Begin(r, n)
  BY <1>4, <1>5 DEF Command
<1>7. n \in RunType
  <2>1. p \in Points /\ k \in 0..6
    BY DEF Points, Coordinator, Retirement, Disposition, Backend
  <2>2. QED BY <1>2, <1>5, <2>1, CommandType
<1>8. Shaped(n) /\ Starts(r, n)
  BY <1>4, <1>6 DEF Shaped, Starts
<1>9. QED BY <1>6, <1>7, <1>8, BeginKeeps

----------------------------------------------------------------------------
(* The host and its users *)

LEMMA HostKeeps ==
  ASSUME Inv, Keep, MachineType', attempt' \in BOOLEAN, UNCHANGED faults,
         \A q \in Runs : runs[q].at \in {"archive", "rename"} => units' = {} /\ Quiescent'
  PROVE  Inv'
<1> USE DEF Keep, evidence, control
<1>1. Pool' = Pool /\ NoEvidence' = NoEvidence
  BY DEF Pool, NoEvidence
<1>2. Types'
  BY DEF Inv, Types, EvidenceType, RunsType, GateType, ControlType, WorldType
<1>3. Locks' /\ Installing' /\ OneBackend' /\ Missing' /\ Accounted'
  BY DEF Inv, Locks, Installing, OneBackend, Missing, Accounted, Evident
<1>4. Held'
  BY DEF Inv, Held, HeldAt, Own
<1>5. Unserved' /\ Pooled' /\ OpenIsClean'
  BY <1>1 DEF Inv, Unserved, Pooled, OpenIsClean
<1>6. Contest' /\ Proved'
  BY <1>1 DEF Inv, Contest, Proved
<1>7. QED BY <1>2, <1>3, <1>4, <1>5, <1>6 DEF Inv

\* The last steps before the runtime is moved find nothing at work.
LEMMA QuietBefore ==
  ASSUME Inv, NEW q \in Runs, runs[q].at \in {"archive", "rename"}
  PROVE  units = {} /\ Quiescent /\ flock = q /\ gate # Open
<1>1. runs[q].at \in Locked
  BY DEF Locked, Retiring
<1>2. units = {} /\ Quiescent /\ flock = q
  BY <1>1, Alone DEF HeldAt
<1>3. gate # Open
  BY DEF Inv, Contest, Pool, Outside, Open, NoGate, None
<1>4. QED BY <1>2, <1>3

LEMMA UsersKeep ==
  ASSUME Inv, JobStarts \/ JobEnds \/ AttemptStarts \/ AttemptEnds \/ TimerFires \/ Enable
  PROVE  Inv'
<1>1. Keep /\ UNCHANGED faults /\ Pool' = Pool
  <2>1. Keep /\ UNCHANGED faults
    BY DEF JobStarts, JobEnds, AttemptStarts, AttemptEnds, TimerFires, Enable
  <2>2. QED BY <2>1 DEF Keep, Pool
<1>2. MachineType' /\ attempt' \in BOOLEAN
  <2>1. MachineType /\ attempt \in BOOLEAN /\ tree' = tree
    BY <1>1 DEF Inv, Types, WorldType, Keep
  <2>2. CASE JobStarts \/ JobEnds \/ AttemptStarts \/ AttemptEnds
    BY <2>1, <2>2 DEF JobStarts, JobEnds, AttemptStarts, AttemptEnds, MachineType, machine
  <2>3. CASE TimerFires \/ Enable
    <3>1. units' \in SUBSET Units /\ enabled' \in SUBSET Units
      BY <2>1, <2>3, UnitsAre DEF TimerFires, Enable, MachineType
    <3>2. job' = job /\ marker' \in BOOLEAN /\ attempt' = attempt
      BY <2>1, <2>3 DEF TimerFires, Enable, MachineType
    <3>3. QED BY <2>1, <3>1, <3>2 DEF MachineType
  <2>4. QED BY <2>2, <2>3
<1>3. ASSUME NEW q \in Runs, runs[q].at \in {"archive", "rename"} PROVE units' = {} /\ Quiescent'
  <2>1. units = {} /\ Quiescent /\ flock # None /\ gate # Open
    BY <1>3, QuietBefore, ReleasesAssumption
  <2>2. JobEnds \/ AttemptEnds
    BY <2>1 DEF JobStarts, AttemptStarts, TimerFires, Enable
  <2>3. QED BY <1>1, <2>1, <2>2 DEF JobEnds, AttemptEnds, Quiescent, NoneActive, machine
<1>4. QED BY <1>1, <1>2, <1>3, HostKeeps

LEMMA LoseHostKeeps == ASSUME Inv, LoseHost PROVE Inv'
<1> USE DEF machine, evidence
<1>1. UNCHANGED <<evidence, machine, gate, runs, flock, attempt, ops>> /\ host' = None
        /\ faults' \in 0..MaxFaults
  BY BoundsAssumption DEF LoseHost, Fault, Inv, Types, WorldType
<1>2. Pool' = Pool /\ NoEvidence' = NoEvidence /\ \A q \in Runs : host' # q
  BY <1>1, ReleasesAssumption DEF Pool, NoEvidence
<1>3. Types'
  BY <1>1 DEF Inv, Types, EvidenceType, MachineType, RunsType, GateType, ControlType, WorldType
<1>4. Locks' /\ Installing' /\ Missing' /\ Accounted'
  BY <1>1 DEF Inv, Locks, Installing, Missing, Accounted, Evident
<1>5. Held'
  BY <1>1 DEF Inv, Held, HeldAt, Own, Quiescent, NoneActive, Pool
<1>6. OneBackend'
  BY <1>1 DEF Inv, OneBackend
<1>7. Unserved' /\ Pooled' /\ OpenIsClean'
  BY <1>1, <1>2 DEF Inv, Unserved, Pooled, OpenIsClean
<1>8. Contest' /\ Proved'
  BY <1>1, <1>2 DEF Inv, Contest, Proved
<1>9. QED BY <1>3, <1>4, <1>5, <1>6, <1>7, <1>8 DEF Inv

LEMMA RebootKeeps == ASSUME Inv, Reboot PROVE Inv'
<1> USE DEF evidence
<1>1. /\ UNCHANGED <<evidence, tree, marker, enabled, gate, ops>> /\ host' = None /\ flock' = None
      /\ faults' \in 0..MaxFaults /\ units' = enabled /\ job' = "none" /\ attempt' = FALSE
      /\ runs' = [r \in Runs |-> Idle]
  BY BoundsAssumption DEF Reboot, Fault, Inv, Types, WorldType
<1>2. /\ \A q \in Runs : runs'[q].at = "idle" /\ runs'[q] = Idle
      /\ runs' \in [Runs -> RunType]
  BY <1>1, IdleIs
<1>3. Types'
  <2>1. RunsType'
    BY <1>2, IdleIs DEF RunsType
  <2>2. QED
    BY <1>1, <2>1 DEF Inv, Types, EvidenceType, MachineType, GateType, ControlType, WorldType
<1>4. Locks' /\ Installing' /\ OneBackend' /\ Unserved' /\ Pooled'
  BY <1>2, IdleIs DEF Locks, Installing, OneBackend, Unserved, Pooled
<1>5. Held'
  <2>1. ASSUME NEW q \in Runs PROVE HeldAt(runs[q].at)'
    BY <1>2, IdleIs DEF HeldAt, Locked, Retiring, Disposing
  <2>2. QED BY <2>1 DEF Held
<1>6. Missing' /\ Accounted' /\ OpenIsClean'
  BY <1>1 DEF Inv, Missing, Accounted, Evident, OpenIsClean, NoEvidence
<1>7. Contest' /\ Proved'
  BY <1>2, IdleIs DEF Contest, Proved, Outside
<1>8. QED BY <1>3, <1>4, <1>5, <1>6, <1>7 DEF Inv

----------------------------------------------------------------------------
(* The invariant *)

LEMMA InitInv == Init => Inv
<1>1. SUFFICES ASSUME Init PROVE Inv
  OBVIOUS
<1>2. \A q \in Runs : runs[q].at = "idle" /\ runs[q] = Idle
  BY <1>1, IdleIs DEF Init
<1>3. Types
  <2>1. RunsType
    BY <1>1, <1>2, IdleIs DEF Init, RunsType
  <2>2. EvidenceType
    <3>1. [runtime |-> None, op |-> 0, kept |-> {}] \in Kept
      BY BoundsAssumption DEF Kept
    <3>2. archive \in [Archives -> Kept]
      BY <1>1, <3>1 DEF Init
    <3>3. QED BY <1>1, <3>2, IdleType DEF Init, EvidenceType
  <2>3. MachineType
    BY <1>1, ReleasesAssumption, UnitsAre DEF Init, MachineType
  <2>4. GateType /\ ControlType /\ WorldType
    <3>1. 0 \in 0..MaxOps /\ 0 \in 0..MaxFaults
      BY BoundsAssumption
    <3>2. gate \in {Open, NoGate}
      BY <1>1 DEF Init
    <3>3. QED BY <1>1, <3>1, <3>2 DEF Init, GateType, ControlType, WorldType
  <2>5. QED BY <2>1, <2>2, <2>3, <2>4 DEF Types
<1>4. Locks /\ Installing /\ OneBackend /\ Unserved /\ Pooled
  BY <1>2, IdleIs DEF Locks, Installing, OneBackend, Unserved, Pooled
<1>5. Held
  <2>1. ASSUME NEW q \in Runs PROVE HeldAt(runs[q].at)
    BY <1>2, IdleIs DEF HeldAt, Locked, Retiring, Disposing
  <2>2. QED BY <2>1 DEF Held
<1>6. Missing /\ Accounted /\ OpenIsClean
  BY <1>1, ReleasesAssumption DEF Init, Missing, Accounted, OpenIsClean, NoEvidence
<1>7. Contest /\ Proved
  BY <1>2, IdleIs DEF Contest, Proved, Outside
<1>8. QED BY <1>3, <1>4, <1>5, <1>6, <1>7 DEF Inv

----------------------------------------------------------------------------
(* Steps that read and go on: what else they may do is to refuse *)

LEMMA SetLock ==
  ASSUME RunsType, NEW r \in Runs, NEW s \in Releases, NEW u \in SUBSET Units,
         runs' = [runs EXCEPT ![r].at = "lock", ![r].source = s, ![r].units = u]
  PROVE  Moves(r, [at |-> "lock", target |-> runs[r].target, op |-> runs[r].op, source |-> s,
                    units |-> u, digest |-> runs[r].digest, seen |-> runs[r].seen, i |-> runs[r].i])
<1> DEFINE y == [runs[r] EXCEPT !.at = "lock"]
           n == [at |-> "lock", target |-> runs[r].target, op |-> runs[r].op, source |-> s,
                    units |-> u, digest |-> runs[r].digest, seen |-> runs[r].seen, i |-> runs[r].i]
<1>1. runs[r] \in RunType /\ "lock" \in Points
  BY DEF RunsType, Points, Retirement
<1>2. y = AtPoint(runs[r], "lock") /\ y \in RunType
  BY <1>1, AtPointIs
<1>3. \A x \in RunType : [x EXCEPT !.source = s] = [at |-> x.at, target |-> x.target, op |-> x.op,
        source |-> s, units |-> x.units,
               digest |-> x.digest, seen |-> x.seen, i |-> x.i] /\ [x EXCEPT !.source = s] \in RunType
  BY DEF RunType
<1>4. \A x \in RunType : [x EXCEPT !.units = u] = [at |-> x.at, target |-> x.target, op |-> x.op,
        source |-> x.source, units |-> u,
               digest |-> x.digest, seen |-> x.seen, i |-> x.i]
  BY DEF RunType
<1>5. PICK z : z = [y EXCEPT !.source = s]
  OBVIOUS
<1>6. z \in RunType /\ z = [at |-> y.at, target |-> y.target, op |-> y.op, source |-> s, units |-> y.units,
               digest |-> y.digest, seen |-> y.seen, i |-> y.i]
  BY <1>2, <1>3, <1>5
<1>7. [z EXCEPT !.units = u] = n
  BY <1>2, <1>4, <1>6 DEF AtPoint
<1>8. [runs[r] EXCEPT !.at = "lock", !.source = s,
        !.units = u] = [[[runs[r] EXCEPT !.at = "lock"] EXCEPT !.source = s] EXCEPT !.units = u]
  OBVIOUS
<1>9. runs' = [runs EXCEPT ![r] = [runs[r] EXCEPT !.at = "lock", !.source = s, !.units = u]]
  OBVIOUS
<1>10. n \in RunType
  BY <1>1 DEF RunType
<1>11. PICK w : w = [runs[r] EXCEPT !.at = "lock", !.source = s, !.units = u]
  OBVIOUS
<1>12. PICK v : v = y
  OBVIOUS
<1>13. w = [[v EXCEPT !.source = s] EXCEPT !.units = u] /\ z = [v EXCEPT !.source = s]
  BY <1>5, <1>8, <1>11, <1>12
<1>14. w = [z EXCEPT !.units = u]
  BY <1>13
<1>15. w = n
  BY <1>7, <1>14
<1>16. runs' = [runs EXCEPT ![r] = w]
  BY <1>9, <1>11
<1>17. Moves(r, w)
  BY <1>10, <1>15, <1>16, Set
<1>18. QED BY <1>15, <1>17

LEMMA InspectKeeps == ASSUME Inv, NEW r \in Runs, Inspect(r), ~Refused(r) PROVE Inv'
<1>1. At(r, "inspect") /\ Retirable(r) /\ UNCHANGED <<evidence, machine, gate, control, world>>
      /\ runs' = [runs EXCEPT ![r].at = "lock", ![r].source = tree.current, ![r].units = units]
  BY DEF Inspect
<1>2. PICK s \in Releases, u \in SUBSET Units : s = tree.current /\ u = units
  BY <1>1 DEF Inv, Types, MachineType, Retirable, Whole
<1>3. PICK n : n = [at |-> "lock", target |-> runs[r].target, op |-> runs[r].op, source |-> s,
                    units |-> u, digest |-> runs[r].digest, seen |-> runs[r].seen, i |-> runs[r].i]
  OBVIOUS
<1>4. Moves(r, n)
  <2>1. runs' = [runs EXCEPT ![r].at = "lock", ![r].source = s, ![r].units = u] /\ RunsType
    BY <1>1, <1>2 DEF Inv, Types
  <2>2. QED BY <1>3, <2>1, SetLock
<1>5. n.at = "lock" /\ n.source \in Releases /\ n.target = runs[r].target
  BY <1>3
<1>6. Onward(r, n)
  BY <1>1, <1>5 DEF Onward
<1>7. QED BY <1>1, <1>4, <1>5, <1>6, MoveKeeps

LEMMA SetSeen ==
  ASSUME RunsType, NEW r \in Runs, NEW b \in BOOLEAN, runs' = [runs EXCEPT ![r].at = "begin", ![r].seen = b]
  PROVE  \E n : Moves(r, n) /\ n.at = "begin" /\ n.target = runs[r].target /\ n.digest = runs[r].digest
<1>1. runs[r] \in RunType /\ "begin" \in Points
  BY DEF RunsType, Points, Backend
<1>2. \A x \in RunType : [x EXCEPT !.seen = b] \in RunType /\ [x EXCEPT !.seen = b].at = x.at
        /\ [x EXCEPT !.seen = b].target = x.target /\ [x EXCEPT !.seen = b].digest = x.digest
  BY DEF RunType
<1>3. PICK v : v = [runs[r] EXCEPT !.at = "begin"]
  OBVIOUS
<1>4. v = AtPoint(runs[r], "begin") /\ v \in RunType
  BY <1>1, <1>3, AtPointIs
<1>5. v.at = "begin" /\ v.target = runs[r].target /\ v.digest = runs[r].digest
  BY <1>4 DEF AtPoint
<1>6. PICK w : w = [runs[r] EXCEPT !.at = "begin", !.seen = b]
  OBVIOUS
<1>7. [runs[r] EXCEPT !.at = "begin", !.seen = b] = [[runs[r] EXCEPT !.at = "begin"] EXCEPT !.seen = b]
  OBVIOUS
<1>8. w = [v EXCEPT !.seen = b]
  BY <1>3, <1>6, <1>7
<1>9. w \in RunType /\ w.at = "begin" /\ w.target = runs[r].target /\ w.digest = runs[r].digest
  BY <1>2, <1>4, <1>5, <1>8
<1>10. runs' = [runs EXCEPT ![r] = w]
  BY <1>6
<1>11. Moves(r, w)
  BY <1>9, <1>10, Set
<1>12. QED BY <1>9, <1>11

LEMMA VerifyKeeps == ASSUME Inv, NEW r \in Runs, Verify(r), ~Refused(r) PROVE Inv'
<1>1. At(r, "verify") /\ host = r /\ JournalBound(r) /\ UNCHANGED <<evidence, machine, gate, control, world>>
      /\ runs' = [runs EXCEPT ![r].at = "begin", ![r].seen = record # None]
  BY DEF Verify
<1>2. PICK b \in BOOLEAN : b = (record # None)
  OBVIOUS
<1>3. PICK n : Moves(r, n) /\ n.at = "begin" /\ n.target = runs[r].target /\ n.digest = runs[r].digest
  <2>1. runs' = [runs EXCEPT ![r].at = "begin", ![r].seen = b] /\ RunsType
    BY <1>1, <1>2 DEF Inv, Types
  <2>2. QED BY <2>1, SetSeen
<1>4. Onward(r, n)
  BY <1>1, <1>3 DEF Onward
<1>5. QED BY <1>1, <1>3, <1>4, MoveKeeps

LEMMA SetDigest ==
  ASSUME RunsType, NEW r \in Runs, NEW d \in Journals, runs' = [runs EXCEPT ![r].at = "requeue",
    ![r].digest = d]
  PROVE  \E n : Moves(r, n) /\ n.at = "requeue" /\ n.target = runs[r].target
<1>1. runs[r] \in RunType /\ "requeue" \in Points
  BY DEF RunsType, Points
<1>2. \A x \in RunType : [x EXCEPT !.digest = d] \in RunType /\ [x EXCEPT !.digest = d].at = x.at
        /\ [x EXCEPT !.digest = d].target = x.target
  BY DEF RunType
<1>3. PICK v : v = [runs[r] EXCEPT !.at = "requeue"]
  OBVIOUS
<1>4. v = AtPoint(runs[r], "requeue") /\ v \in RunType
  BY <1>1, <1>3, AtPointIs
<1>5. v.at = "requeue" /\ v.target = runs[r].target
  BY <1>4 DEF AtPoint
<1>6. PICK w : w = [runs[r] EXCEPT !.at = "requeue", !.digest = d]
  OBVIOUS
<1>7. [runs[r] EXCEPT !.at = "requeue",
        !.digest = d] = [[runs[r] EXCEPT !.at = "requeue"] EXCEPT !.digest = d]
  OBVIOUS
<1>8. w = [v EXCEPT !.digest = d]
  BY <1>3, <1>6, <1>7
<1>9. w \in RunType /\ w.at = "requeue" /\ w.target = runs[r].target
  BY <1>2, <1>4, <1>5, <1>8
<1>10. runs' = [runs EXCEPT ![r] = w]
  BY <1>6
<1>11. Moves(r, w)
  BY <1>9, <1>10, Set
<1>12. QED BY <1>9, <1>11

LEMMA ContinueKeeps == ASSUME Inv, NEW r \in Runs, Continue(r), ~Refused(r) PROVE Inv'
<1>1. At(r, "continue") /\ UNCHANGED <<evidence, machine, gate, control, world>>
      /\ runs' = [runs EXCEPT ![r].at = "requeue", ![r].digest = journal]
  BY DEF Continue
<1>2. PICK d \in Journals : d = journal
  BY DEF Inv, Types, EvidenceType
<1>3. PICK n : Moves(r, n) /\ n.at = "requeue" /\ n.target = runs[r].target
  <2>1. runs' = [runs EXCEPT ![r].at = "requeue", ![r].digest = d] /\ RunsType
    BY <1>1, <1>2 DEF Inv, Types
  <2>2. QED BY <2>1, SetDigest
<1>4. Onward(r, n)
  BY <1>1, <1>3 DEF Onward
<1>5. QED BY <1>1, <1>3, <1>4, MoveKeeps

LEMMA ReadingKeeps ==
  ASSUME Inv, NEW r \in Runs, PostCheck(r) \/ Repeat(r) \/ Final(r), ~Refused(r)
  PROVE  Inv'
<1>1. UNCHANGED <<evidence, machine, gate, control, world>>
  BY DEF PostCheck, Repeat, Final
<1>2. PICK p \in {"verified", "complete", "final", "verify"} :
        /\ Goto(r, p)
        /\ \/ At(r, "postcheck") /\ p = (IF Pool THEN "verified" ELSE "complete") /\ Checked(r)
           \/ At(r, "repeat") /\ p = "final"
           \/ At(r, "final") /\ p = "verify"
  BY DEF PostCheck, Repeat, Final
<1>3. PICK n : n = AtPoint(runs[r], p)
  OBVIOUS
<1>4. Moves(r, n)
  <2>1. p \in Points
    BY DEF Points, Coordinator, Backend
  <2>2. QED BY <1>2, <1>3, <2>1, SetAt DEF Inv, Types
<1>5. n.at = p /\ n.target = runs[r].target /\ n.digest = runs[r].digest
  BY <1>3 DEF AtPoint
<1>6. Onward(r, n)
  BY <1>2, <1>5 DEF Onward
<1>7. QED BY <1>1, <1>4, <1>5, <1>6, MoveKeeps

----------------------------------------------------------------------------
(* Every step *)

LEMMA StepRuns == ASSUME NEW r \in Runs, Step(r) PROVE runs[r].at # "idle"
<1>1. CASE Quiesce(r) \/ Drain(r) \/ Regate(r) \/ Applying(r) \/ Verified(r) \/ Resume(r) \/ LeaveGate(r)
  BY <1>1 DEF Quiesce, Drain, Regate, Applying, Verified, Resume, LeaveGate, Coordinator, At
<1>2. CASE Inspect(r) \/ Lock(r) \/ WriteJournal(r) \/ WriteRecord(r) \/ StopUnit(r) \/ CheckStopped(r)
  BY <1>2 DEF Inspect, Lock, WriteJournal, WriteRecord, StopUnit, CheckStopped, At
<1>3. CASE Archive(r) \/ Rename(r) \/ Retired(r) \/ Restore(r) \/ Decommissioned(r)
  BY <1>3 DEF Archive, Rename, Retired, Restore, Decommissioned, At
<1>4. CASE Verify(r) \/ BeginRecord(r) \/ Install(r) \/ Clear(r) \/ PostCheck(r) \/ Complete(r) \/ File(r)
  BY <1>4 DEF Verify, BeginRecord, Install, Clear, PostCheck, Complete, File, At
<1>5. CASE Continue(r) \/ Requeue(r) \/ Retarget(r) \/ Reapply(r) \/ Repeat(r) \/ Final(r)
  BY <1>5 DEF Continue, Requeue, Retarget, Reapply, Repeat, Final, At
<1>6. CASE Recover(r) \/ StopTimer(r) \/ Again(r) \/ Copy(r) \/ Copied(r) \/ Unlink(r) \/ Unlinked(r)
  BY <1>6 DEF Recover, StopTimer, Again, Copy, Copied, Unlink, Unlinked, At
<1>7. QED BY <1>1, <1>2, <1>3, <1>4, <1>5, <1>6 DEF Step

LEMMA StepKeeps == ASSUME Inv, NEW r \in Runs, Step(r) PROVE Inv'
<1>1. CASE Refused(r)
  BY <1>1, StepRuns, RefusedKeeps
<1>2. CASE ~Refused(r)
  <2> USE <1>2
  <2>1. CASE Quiesce(r) \/ Drain(r) \/ Regate(r) \/ Applying(r) \/ Verified(r) \/ Resume(r)
    BY <2>1, QuiesceKeeps, OpeningsKeep, VerifiedKeeps, ResumeKeeps
  <2>2. CASE LeaveGate(r)
    BY <2>2 DEF LeaveGate
  <2>3. CASE Inspect(r) \/ WriteJournal(r) \/ WriteRecord(r) \/ StopUnit(r)
    BY <2>3, InspectKeeps, WriteJournalKeeps, WriteRecordKeeps, StopUnitKeeps
  <2>4. CASE Lock(r)
    BY <2>4, LockKeeps DEF Lock
  <2>5. CASE CheckStopped(r)
    BY <2>5, CheckKeeps DEF CheckStopped
  <2>6. CASE Archive(r) \/ Rename(r) \/ Retired(r) \/ Restore(r) \/ Decommissioned(r)
    BY <2>6, ArchiveKeeps, RenameKeeps, RetiredKeeps, RestoreKeeps, DecommissionedKeeps
  <2>7. CASE Verify(r) \/ Install(r) \/ PostCheck(r)
    BY <2>7, VerifyKeeps, InstallKeeps, ReadingKeeps
  <2>8. CASE BeginRecord(r)
    BY <2>8, BeginRecordKeeps DEF BeginRecord
  <2>9. CASE Clear(r)
    BY <2>9, ClearKeeps DEF Clear
  <2>10. CASE Complete(r)
    BY <2>10, CompleteKeeps DEF Complete
  <2>11. CASE File(r) \/ Continue(r)
    BY <2>11, FileKeeps, ContinueKeeps
  <2>12. CASE Requeue(r) \/ Retarget(r) \/ Reapply(r)
    BY <2>12, RegatingKeeps
  <2>13. CASE Repeat(r) \/ Final(r)
    BY <2>13, ReadingKeeps
  <2>14. CASE Recover(r)
    BY <2>14, RecoverKeeps DEF Recover
  <2>15. CASE StopTimer(r) \/ Copy(r) \/ Copied(r) \/ Unlink(r) \/ Unlinked(r)
    BY <2>15, TimerKeeps, CopyKeeps, UnlinkKeeps, UnlinkedKeeps
  <2>16. CASE Again(r)
    BY <2>16, TimerKeeps DEF Again
  <2>17. QED
    BY <2>1, <2>2, <2>3, <2>4, <2>5, <2>6, <2>7, <2>8, <2>9, <2>10, <2>11, <2>12, <2>13, <2>14, <2>15,
       <2>16 DEF Step
<1>3. QED BY <1>1, <1>2

LEMMA NextInv == Inv /\ [Next]_vars => Inv'
<1>1. SUFFICES ASSUME Inv, [Next]_vars PROVE Inv'
  OBVIOUS
<1>2. CASE Environment
  BY <1>1, <1>2, UsersKeep, LoseHostKeeps, RebootKeeps DEF Environment
<1>3. CASE \E r \in Runs : Owner(r) \/ Step(r) \/ Fail(r)
  BY <1>1, <1>3, OwnerKeeps, StepKeeps, FailKeeps
<1>4. CASE UNCHANGED vars
  <2>1. evidence' = evidence /\ machine' = machine /\ control' = control /\ world' = world
          /\ runs' = runs /\ gate' = gate
    BY <1>4 DEF vars, evidence, machine, control, world
  <2>2. Keep /\ MachineType' /\ attempt' \in BOOLEAN /\ UNCHANGED faults
    BY <1>1, <2>1 DEF Inv, Types, MachineType, WorldType, machine, world, evidence, control, Keep
  <2>3. \A q \in Runs : runs[q].at \in {"archive", "rename"} => units' = {} /\ Quiescent'
    BY <1>1, <2>1, QuietBefore DEF machine, world, Quiescent, NoneActive, Pool
  <2>4. QED BY <1>1, <2>2, <2>3, HostKeeps
<1>5. QED BY <1>1, <1>2, <1>3, <1>4 DEF Next

LEMMA Invariant == Spec => []Inv
<1>1. QED BY InitInv, NextInv, PTL DEF Spec

----------------------------------------------------------------------------
(* What the project's runs check *)

\* Every file, unit, command and gate keeps its shape (clean_reinstall.py, production_runner.py).
THEOREM TypeCorrect == Spec => []TypeOK
<1>1. Inv => TypeOK
  BY TypesAreTypeOK DEF Inv
<1>2. QED BY <1>1, Invariant, PTL

\* A namespace without its complete installation has a journal, its .next file or an operation
\* record, and the gate of a pool opens only when none is left: what verify_reinstall_continuation
\* and the helpers' checks of the evidence are for, however commands overlap, fail and are rerun.
THEOREM Recorded == Spec => []UnfinishedIsRecorded
<1>1. Inv => UnfinishedIsRecorded
  <2>1. SUFFICES ASSUME Inv PROVE UnfinishedIsRecorded
    OBVIOUS
  <2>2. NoEvidence => Whole
    BY <2>1 DEF Inv, Missing, NoEvidence, NoJournal, None, Whole
  <2>3. QED BY <2>1, <2>2 DEF Inv, OpenIsClean, UnfinishedIsRecorded
<1>2. QED BY <1>1, Invariant, PTL

\* When the journal has left its place, the archive of every retired runtime has the completed
\* journal or both files of the failed reinstall (complete and recover of clean_reinstall.py).
THEOREM Archived == Spec => []EvidenceArchived
<1>1. Inv => EvidenceArchived
  BY DEF Inv, Accounted, Evident, EvidenceArchived
<1>2. QED BY <1>1, Invariant, PTL

\* While a retirement, a disposition or a completion is at work under the operation lock, no other
\* one is, and no backend installs: the lock of the production operation, taken by each of them.
THEOREM HelpersAlone ==
  Spec => [](\A r \in Runs : runs[r].at \in Locked =>
               \A q \in Runs \ {r} : runs[q].at \notin Locked \cup {"install"})
<1>1. Inv => \A r \in Runs : runs[r].at \in Locked
        => \A q \in Runs \ {r} : runs[q].at \notin Locked \cup {"install"}
  BY Alone
<1>2. QED BY <1>1, Invariant, PTL

\* On a shared pool one command at a time is past the gate, a lost lock of the host or an orphaned
\* backend included, and the gate is closed to attempts as long as it is (ManagedPool's quiesce and
\* the diagnosis of the owner that a claim of recovery comes after).
THEOREM OnePastGate ==
  Spec => [](Pool => \A r \in Runs : runs[r].at \notin Outside =>
               gate # Open /\ \A q \in Runs \ {r} : runs[q].at \in Outside)
<1>1. Inv => (Pool => \A r \in Runs : runs[r].at \notin Outside =>
                gate # Open /\ \A q \in Runs \ {r} : runs[q].at \in Outside)
  BY DEF Inv, Contest
<1>2. QED BY <1>1, Invariant, PTL

\* Only the retirement's own move changes which runtime an archive has.
LEMMA RuntimeStays ==
  ASSUME Inv, NEW r \in Runs, Step(r), ~Rename(r)
  PROVE  \A a \in Archives : archive'[a].runtime = archive[a].runtime
<1> USE DEF evidence
<1>1. CASE Refused(r)
  BY <1>1 DEF Refused
<1>2. CASE Archive(r) \/ Copy(r) \/ Copied(r)
  <2>1. PICK files \in SUBSET Files : Filed(files)
    <3>1. CASE Archive(r)
      BY <3>1 DEF Archive, Files
    <3>2. CASE Copy(r) \/ Copied(r)
      BY <3>2 DEF Copy, Copied, Files
    <3>3. QED BY <1>2, <3>1, <3>2
  <2>2. runs[r].at \in (Retiring \ {"journal"}) \cup (Disposing \ {"unlinked"})
    BY <1>2 DEF Archive, Copy, Copied, At, Retiring, Disposing
  <2>3. journal # NoJournal /\ EvidenceType
    BY <2>2, RetiringHas, DisposingHas
  <2>4. QED BY <2>1, <2>3, FiledAdds DEF Adds
<1>3. CASE Restore(r) \/ File(r)
  <2> DEFINE me == <<journal.source, journal.target>>
  <2>1. journal # NoJournal /\ EvidenceType
    <3>1. CASE Restore(r)
      BY <3>1, RetiringHas DEF Restore, At, Retiring
    <3>2. CASE File(r)
      <4>1. runs[r].at = "filed" /\ runs[r].at \in Locked
        BY <3>2 DEF File, At, Locked
      <4>2. QED BY <4>1, Alone DEF Stage, NoJournal, None
    <3>3. QED BY <1>3, <3>1, <3>2
  <2>2. me \in Archives /\ archive[me] \in Kept
    BY <2>1, StageNone DEF EvidenceType
  <2>3. PICK new : archive' = [archive EXCEPT ![me] = new] /\ new.runtime = archive[me].runtime
    <3>1. CASE Restore(r)
      <4>1. \A x \in Kept : [x EXCEPT !.kept = @ \ {"runner"}].runtime = x.runtime
        BY DEF Kept
      <4>2. QED BY <2>2, <3>1, <4>1 DEF Restore
    <3>2. CASE File(r)
      <4>1. PICK new : new = [runtime |-> Own.runtime, op |-> journal.op, kept |-> Own.kept
              \cup {"decommission"}]
        OBVIOUS
      <4>2. archive' = [archive EXCEPT ![me] = new]
        BY <3>2, <4>1 DEF File
      <4>3. new.runtime = archive[me].runtime
        BY <4>1 DEF Own
      <4>4. QED BY <4>2, <4>3
    <3>3. QED BY <1>3, <3>1, <3>2
  <2>4. QED BY <2>1, <2>3 DEF EvidenceType
<1>4. CASE Quiesce(r) \/ Drain(r) \/ Regate(r) \/ Applying(r) \/ Verified(r) \/ Resume(r)
  BY <1>4 DEF Quiesce, Drain, Regate, Applying, Verified, Resume, SetGate
<1>5. CASE Inspect(r) \/ Lock(r) \/ WriteJournal(r) \/ WriteRecord(r) \/ StopUnit(r) \/ CheckStopped(r)
  BY <1>1, <1>5 DEF Inspect, Lock, WriteJournal, WriteRecord, StopUnit, CheckStopped
<1>6. CASE Retired(r) \/ Decommissioned(r) \/ Verify(r) \/ BeginRecord(r) \/ Install(r) \/ Clear(r)
  BY <1>1, <1>6 DEF Retired, Decommissioned, Verify, BeginRecord, Install, Clear
<1>7. CASE PostCheck(r) \/ Complete(r) \/ Continue(r) \/ Requeue(r) \/ Retarget(r) \/ Reapply(r)
        \/ Repeat(r) \/ Final(r)
  BY <1>1, <1>7 DEF PostCheck, Complete, Continue, Requeue, Retarget, Reapply, Repeat, Final
<1>8. CASE Recover(r) \/ StopTimer(r) \/ Again(r) \/ Unlink(r) \/ Unlinked(r)
  BY <1>1, <1>8 DEF Recover, StopTimer, Again, Unlink, Unlinked
<1>9. CASE LeaveGate(r)
  BY <1>1, <1>9 DEF LeaveGate
<1>10. QED BY <1>1, <1>2, <1>3, <1>4, <1>5, <1>6, <1>7, <1>8, <1>9 DEF Step

\* A runtime is moved to its archive only when its units are down and no worker is left anywhere
\* (decommission looks again after the services were stopped, before it retires the runtime).
THEOREM MovedQuietly == Spec => RetiredQuietly
<1> DEFINE Changed == \E a \in Archives : archive'[a].runtime # archive[a].runtime
           Quiet == units = {} /\ job = "none" /\ (Pool => ~attempt)
<1>1. Inv /\ [Next]_vars => [Changed => Quiet]_vars
  <2>1. SUFFICES ASSUME Inv, Next, Changed PROVE Quiet
    OBVIOUS
  <2>2. ~Environment /\ \A r \in Runs : ~Owner(r) /\ ~Fail(r)
    <3>1. Environment => archive' = archive
      BY DEF Environment, JobStarts, JobEnds, AttemptStarts, AttemptEnds, TimerFires, Enable, LoseHost,
         Reboot, Keep, evidence
    <3>2. \A r \in Runs : Fail(r) => archive' = archive
      BY DEF Fail
    <3>3. \A r \in Runs : Owner(r) => archive' = archive
      <4>1. ASSUME NEW r \in Runs, NEW n, Begin(r, n) PROVE archive' = archive
        BY <4>1 DEF Begin, evidence
      <4>2. QED BY <4>1 DEF Owner, StartReinstall, StartApply, StartApplyRecovery, StartRecover,
                   StartContinue
    <3>4. QED BY <2>1, <3>1, <3>2, <3>3
  <2>3. PICK r \in Runs : Step(r)
    BY <2>1, <2>2 DEF Next
  <2>4. Rename(r)
    BY <2>1, <2>3, RuntimeStays
  <2>5. runs[r].at \in {"archive", "rename"}
    BY <2>4 DEF Rename, At
  <2>6. QED BY <2>1, <2>5, QuietBefore DEF Quiescent, NoneActive
<1>2. QED BY <1>1, Invariant, PTL DEF Spec, RetiredQuietly

=============================================================================
