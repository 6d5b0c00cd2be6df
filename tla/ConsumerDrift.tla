---------------------------- MODULE ConsumerDrift ----------------------------
(***************************************************************************)
(* The consumer of an installed host no longer has the digest its gate was *)
(* opened for: somebody edited consumer.json.  Before an installation      *)
(* reserves the gate, one helper on the target restores the bytes that the *)
(* gate knows (consumer_drift.py).  It holds the Writer flock and drives   *)
(* the installed CLI through a private view of the restored bytes.         *)
(*                                                                         *)
(* Each durable effect is a step: the context file of the operation, the   *)
(* reservation of the gate, the backup, the rename.  The live file may be  *)
(* edited before and after each of them.                                   *)
(***************************************************************************)
EXTENDS Naturals

CONSTANTS Targets,      \* reviewed revisions
          Configs,      \* consumer configurations, as bytes
          Digest,       \* their canonical digests: a function on Configs
          FirstConfig,  \* the one installed at first
          Wanted,       \* those that Git pairs ask for; others are edits
          Projected,    \* what the current release can still render
          MaxOps,       \* bound: lifecycle operations
          MaxFaults     \* bound: edits, deaths, failures, self-updates

None == "none"
ASSUME DriftAssumption == /\ None \notin Targets /\ None \notin Configs
                          /\ DOMAIN Digest = Configs /\ FirstConfig \in Configs
                          /\ Projected \subseteq Configs /\ Wanted \subseteq Configs
                          /\ \A c \in Configs : Digest[c] # None
ASSUME DriftLimits == MaxOps \in Nat /\ MaxFaults \in Nat

VARIABLES consumer,  \* /etc/<namespace>/consumer.json
          gate,      \* admission-v1.json
          kept,      \* consumer-drift-before-<op>, consumer-before-<op>
          context,   \* operations whose .consumer-drift-<op>.context.json is left
          drift,     \* the helper on the target
          holder,    \* the operation whose process holds the Writer flock
          faults

driftVars == <<consumer, gate, kept, context, drift>>

Ops     == 1..MaxOps
Digests == {Digest[c] : c \in Configs}
Phases  == {"open", "quiesced", "drained", "applying", "verified", "recovery-required"}
Backups == {"drift", "before"}
Locked  == {"assess", "quiesce", "backup", "publish"}
Results == {"unchanged", "restored", "failed"}
Off     == [at |-> "off", op |-> 0, target |-> None, desired |-> None, actual |-> None, raw |-> None,
            late |-> FALSE]  \* history: the file was edited after the last look

DriftTypeOK ==
  /\ consumer \in Configs /\ context \subseteq Ops
  /\ gate \in [phase : Phases, op : 0..MaxOps, target : Targets \cup {None}, digest : Digests]
  /\ kept \in [Backups -> [Ops -> Configs \cup {None}]]
  /\ drift \in [at : Locked \cup Results \cup {"off"}, op : 0..MaxOps, target : Targets \cup {None},
                desired : Configs \cup {None}, actual : Configs \cup {None}, raw : Configs \cup {None},
                late : BOOLEAN]
  /\ holder \in 0..MaxOps /\ faults \in 0..MaxFaults

DriftInit ==
  /\ consumer = FirstConfig /\ context = {} /\ drift = Off /\ holder = 0 /\ faults = 0
  /\ gate = [phase |-> "open", op |-> 0, target |-> None, digest |-> Digest[consumer]]
  /\ kept = [b \in Backups |-> [o \in Ops |-> None]]

\* What every command of the admission CLI checks before anything else.
Readable   == gate.digest = Digest[consumer]
WriterFree == holder = 0 /\ drift.at \notin Locked
Fault      == faults < MaxFaults /\ faults' = faults + 1

----------------------------------------------------------------------------
(* The helper *)

StartDrift(o, t, desired) ==
  /\ drift.at = "off" /\ WriterFree
  /\ drift' = [Off EXCEPT !.at = "assess", !.op = o, !.target = t, !.desired = desired]

Finish(result) == drift' = [Off EXCEPT !.at = result] /\ context' = context \ {drift.op}
Goes(at)       == drift' = [drift EXCEPT !.at = at]

Unchanged == /\ drift.at = "assess" /\ Readable /\ drift' = [Off EXCEPT !.at = "unchanged"]
             /\ UNCHANGED <<consumer, gate, kept, context>>

\* The requested bytes, then the backups, then what the installed release renders.
Candidates == {drift.desired} \cup Projected
              \cup ({kept[b][o] : b \in Backups, o \in Ops} \ {None})

Matches(raw) == Digest[raw] = gate.digest

Recognisable == /\ drift.at = "assess" /\ ~Readable
                /\ gate.phase = "open" /\ drift.op \notin context
Recognise == /\ Recognisable
             /\ \E raw \in Candidates : Matches(raw) /\ drift' = [drift EXCEPT !.at = "quiesce",
                                                           !.actual = consumer, !.raw = raw]
             /\ context' = context \cup {drift.op}
             /\ UNCHANGED <<consumer, gate, kept>>

\* The installed CLI, in a mount namespace where consumer.json is the context.
Reserve == /\ drift.at = "quiesce" /\ consumer = drift.actual /\ Digest[drift.raw] = gate.digest
           /\ gate' = [gate EXCEPT !.phase = "quiesced", !.op = drift.op, !.target = drift.target]
           /\ Goes("backup") /\ UNCHANGED <<consumer, kept, context>>

\* Mutant: the bytes read at the beginning are backed up without another look.
BackupUnread == /\ drift.at = "backup" /\ kept["drift"][drift.op] = None
                /\ kept' = [kept EXCEPT !["drift"][drift.op] = drift.actual]
                /\ Goes("publish") /\ UNCHANGED <<consumer, gate, context>>
Backup == /\ drift.at = "backup" /\ consumer = drift.actual /\ kept["drift"][drift.op] = None
          /\ kept' = [kept EXCEPT !["drift"][drift.op] = drift.actual]
          /\ Goes("publish") /\ UNCHANGED <<consumer, gate, context>>

Restore == /\ drift.at = "publish" /\ consumer' = drift.raw /\ Finish("restored")
           /\ UNCHANGED <<gate, kept>>

\* A check that refuses: the context is removed if this helper made it.
Refused == /\ \/ drift.at = "assess" /\ ~Readable /\ ~(Recognisable /\ \E raw \in Candidates : Matches(raw))
                 /\ drift' = [Off EXCEPT !.at = "failed"] /\ UNCHANGED context
              \/ drift.at = "quiesce" /\ ~(consumer = drift.actual) /\ Finish("failed")
              \/ drift.at = "backup" /\ ~(consumer = drift.actual /\ kept["drift"][drift.op] = None)
                 /\ Finish("failed")
           /\ UNCHANGED <<consumer, gate, kept>>

DriftStep == Unchanged \/ Recognise \/ Reserve \/ Backup \/ Restore \/ Refused

\* A killed helper leaves its context; one that is told to stop removes it.
DriftDies == /\ drift.at \in Locked
             /\ \/ drift' = [Off EXCEPT !.at = "failed"] /\ UNCHANGED context
                \/ drift.at # "assess" /\ Finish("failed")
             /\ UNCHANGED <<consumer, gate, kept>>

----------------------------------------------------------------------------
(* An edit of the live file, at any time: nothing on the host orders it     *)
(* with the helper's last look and its rename.                              *)

Edit == /\ \E c \in Configs \ {consumer} : consumer' = c
        /\ drift' = [drift EXCEPT !.late = drift.at = "publish" \/ @]
        /\ UNCHANGED <<gate, kept, context>>
=============================================================================
