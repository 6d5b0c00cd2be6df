------------------------ MODULE ConsumerPublication ------------------------
(***************************************************************************)
(* The root helper that replaces consumer.json during an installation      *)
(* (publish_git_consumer.py), the admission gate bound to the consumer's   *)
(* digest (the consumer-transition commands of admission-control.mjs) and  *)
(* the Writer mutex: a flock of one process, or a lease that names a live  *)
(* holder of that flock (writer_lock_lease.py).                            *)
(*                                                                         *)
(* The publisher is a process of its own: the command that started it may  *)
(* die, and the holder of its lease may die, while it goes on.  Each of    *)
(* its durable effects is a step.                                          *)
(***************************************************************************)
EXTENDS Naturals

CONSTANTS Products,     \* reviewed revisions
          Configs,      \* consumer configurations, as bytes
          Digest,       \* their canonical digests: a function on Configs
          FirstConfig,  \* the one installed at first
          MaxOps,       \* bound: lifecycle operations
          MaxFaults     \* bound: deaths, lost holders, failed steps

None == "none"
ASSUME PublicationAssumption == /\ None \notin Products /\ None \notin Configs
                                /\ DOMAIN Digest = Configs /\ FirstConfig \in Configs
                                /\ \A c \in Configs : Digest[c] # None
ASSUME LimitsAssumption == MaxOps \in Nat /\ MaxFaults \in Nat

VARIABLES consumer,   \* /etc/<namespace>/consumer.json
          backup,     \* consumer-before-<operation>.json
          gate,       \* admission-v1.json
          live,       \* digest of the admitted automatic and manual attempt
          lease,      \* the live holder of the Writer mutex: operation, digest
          pub, faults

publication == <<consumer, backup, gate, live, lease, pub>>

Ops      == 1..MaxOps
Digests  == {Digest[c] : c \in Configs}
Phases   == {"open", "quiesced", "drained", "applying", "verified", "recovery-required"}
Running  == {"assess", "check", "backup", "rename", "transition"}
Results  == {"unchanged", "published", "failed"}
NoLease  == [op |-> 0, digest |-> None]
Exited   == [at |-> "exited", leased |-> FALSE, op |-> 0, target |-> None,
             desired |-> None, old |-> None, prev |-> None, base |-> None]

PublicationTypeOK ==
  /\ consumer \in Configs /\ backup \in [Ops -> Configs \cup {None}]
  /\ gate \in [phase : Phases, op : 0..MaxOps, target : Products \cup {None}, digest : Digests]
  /\ live \in [auto : Digests \cup {None}, manual : Digests \cup {None}]
  /\ lease \in [op : 0..MaxOps, digest : Digests \cup {None}]
  /\ pub \in [at : Running \cup Results \cup {"exited"}, leased : BOOLEAN, op : 0..MaxOps,
       target : Products \cup {None}, desired : Configs \cup {None}, old : Configs \cup {None},
       prev : Digests \cup {None}, base : Digests \cup {None}]
  /\ faults \in 0..MaxFaults

PublicationInit ==
  /\ consumer = FirstConfig /\ backup = [o \in Ops |-> None]
  /\ gate = [phase |-> "open", op |-> 0, target |-> None, digest |-> Digest[consumer]]
  /\ live = [auto |-> None, manual |-> None]
  /\ lease = NoLease /\ pub = Exited /\ faults = 0

(***************************************************************************)
(* What every command of the admission CLI reads first: a gate whose       *)
(* digest is the one of the current consumer; and its inventory of live    *)
(* attempts, manual ones too when the digest is about to change.           *)
(***************************************************************************)
Readable   == gate.digest = Digest[consumer]
WriterFree == lease = NoLease /\ (pub.at \in Running => pub.leased)
Quiet      == live.auto = None /\ live.manual \in {None, Digest[consumer]}
QuietAll   == live = [auto |-> None, manual |-> None]
Bound(o, t) == gate.op = o /\ gate.target = t /\ gate.phase \in {"drained", "applying"}

Fault == faults < MaxFaults /\ faults' = faults + 1

----------------------------------------------------------------------------
(* The publisher *)

Step(at) == pub' = [pub EXCEPT !.at = at]
Return(result) == pub' = [Exited EXCEPT !.at = result]

\* A leased publisher verifies the holder once, here; another one takes the
\* flock itself.  The consumer's bytes are read under either.
StartPublisher(o, t, desired, leased) ==
  /\ pub.at = "exited"
  /\ IF leased THEN lease.op = o ELSE WriterFree
  /\ pub' = [at |-> "assess", leased |-> leased, op |-> o, target |-> t, desired |-> desired,
             old |-> consumer, prev |-> None, base |-> IF leased THEN lease.digest ELSE None]

Moved(r)   == backup[r.op] # None /\ Digest[backup[r.op]] # Digest[consumer]
Pending(r) == Moved(r) /\ gate.digest = Digest[backup[r.op]]
Known(r)   == Moved(r) => /\ Bound(r.op, r.target)
                          /\ gate.digest \in {Digest[backup[r.op]], Digest[consumer]}
\* The lease still names the digest its holder proved, or the pair that an
\* interrupted publication of the same operation left.
Leased(r)  == r.leased => \/ r.base = Digest[consumer]
                          \/ /\ Moved(r) /\ Digest[r.desired] = Digest[consumer]
                             /\ Digest[backup[r.op]] = r.base /\ gate.phase = "applying"
Same(r)    == Digest[r.desired] = Digest[consumer] /\ ~Pending(r)
Retry(r)   == r.old = r.desired /\ backup[r.op] # None

Assessed(result) == /\ pub.at = "assess" /\ result
                    /\ UNCHANGED <<consumer, backup, gate, live, lease, faults>>
Unsafe    == Assessed(~(Known(pub) /\ Leased(pub))) /\ Return("failed")
Unchanged == Assessed(Known(pub) /\ Leased(pub) /\ Same(pub)) /\ Return("unchanged")
Change    == /\ Assessed(Known(pub) /\ Leased(pub) /\ ~Same(pub))
             /\ IF Retry(pub)
                THEN pub' = [pub EXCEPT !.at = "transition", !.prev = Digest[backup[pub.op]]]
                ELSE Step("check")

\* consumer-transition-check, then the bytes of an earlier backup.
\* Mutant: an existing backup is kept whatever it holds.
TransitionableAnyBackup(r) == Readable /\ Bound(r.op, r.target) /\ QuietAll
Transitionable(r) == /\ Readable /\ Bound(r.op, r.target) /\ QuietAll
                     /\ backup[r.op] \in {None, r.old}
Check ==
  /\ pub.at = "check"
  /\ \/ /\ Transitionable(pub)
        /\ pub' = [pub EXCEPT !.at = IF backup[pub.op] = None THEN "backup" ELSE "rename", !.prev = gate.digest]
     \/ ~Transitionable(pub) /\ Return("failed")
  /\ UNCHANGED <<consumer, backup, gate, live, lease, faults>>

BackUp == /\ pub.at = "backup" /\ backup' = [backup EXCEPT ![pub.op] = pub.old] /\ Step("rename")
          /\ UNCHANGED <<consumer, gate, live, lease, faults>>

Rename == /\ pub.at = "rename"
          /\ IF consumer = pub.old THEN consumer' = pub.desired /\ Step("transition")
                                   ELSE Return("failed") /\ UNCHANGED consumer
          /\ UNCHANGED <<backup, gate, live, lease, faults>>

\* consumer-transition: one CLI process reads, takes the inventory and writes.
\* Mutant: the gate moves without a second inventory.
MovableUnlooked(r) == gate.digest \in {Digest[consumer], r.prev} /\ Bound(r.op, r.target)
Movable(r) == gate.digest \in {Digest[consumer], r.prev} /\ Bound(r.op, r.target) /\ QuietAll
Transition ==
  /\ pub.at = "transition"
  /\ \/ /\ Movable(pub) /\ gate' = [gate EXCEPT !.digest = Digest[consumer]]
        /\ Return(IF Digest[consumer] = Digest[pub.desired] THEN "published" ELSE "failed")
     \/ ~Movable(pub) /\ Return("failed") /\ UNCHANGED gate
  /\ UNCHANGED <<consumer, backup, live, lease, faults>>

Publish == Unsafe \/ Unchanged \/ Change \/ Check \/ BackUp \/ Rename \/ Transition

PublisherDies == /\ Fault /\ pub.at \in Running /\ Return("failed")
                 /\ UNCHANGED <<consumer, backup, gate, live, lease>>

----------------------------------------------------------------------------
(* Attempts.  A reservation is taken under the Writer mutex; only the       *)
(* automatic route needs an open gate.                                      *)

AdmitAuto == /\ WriterFree /\ Readable /\ gate.phase = "open" /\ live.auto = None
             /\ live' = [live EXCEPT !.auto = gate.digest]
             /\ UNCHANGED <<consumer, backup, gate, lease, pub, faults>>
AdmitManual == /\ WriterFree /\ Readable /\ live.manual = None
               /\ live' = [live EXCEPT !.manual = gate.digest]
               /\ UNCHANGED <<consumer, backup, gate, lease, pub, faults>>
EndAuto == /\ live.auto = Digest[consumer] /\ live' = [live EXCEPT !.auto = None]
           /\ UNCHANGED <<consumer, backup, gate, lease, pub, faults>>
DisposeManual == /\ live.manual # None /\ live' = [live EXCEPT !.manual = None]
                 /\ UNCHANGED <<consumer, backup, gate, lease, pub, faults>>

----------------------------------------------------------------------------
(* Nobody works under a digest the gate does not name: an automatic attempt
   always has the digest of the gate and of the consumer, a manual one the
   digest of the gate, even when a lease holder dies between the check and
   the rename of a publisher that goes on (publish_git_consumer.py:317). *)
LiveAreBound == /\ live.auto \in {None, gate.digest} /\ (live.auto # None => Readable)
                /\ live.manual \in {None, gate.digest}

(* While the consumer on disk is not the one the gate names, the gate is
   closed and the backup of its very operation holds the consumer it names:
   what an interrupted publication leaves can always be told from foreign
   bytes (publish_git_consumer.py:259-276). *)
PendingIsProven ==
  ~Readable => /\ gate.phase # "open"
               /\ backup[gate.op] # None /\ Digest[backup[gate.op]] = gate.digest
=============================================================================
