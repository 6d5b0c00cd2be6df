------------------------- MODULE ManagedPoolProofs -------------------------
(***************************************************************************)
(* Theorems about ManagedPool, for every capacity, any number of           *)
(* installations that share the pool, registrations and failures.          *)
(*                                                                         *)
(* A job keeps its runner because each phase of a record fixes what may    *)
(* be on the host and at GitHub (Agrees), and because a drain that goes    *)
(* on has the unit frozen while it looks (Frozen).  A pass is alone, and   *)
(* never beside a config.sh that it does not wait for (Waits).             *)
(***************************************************************************)
EXTENDS ManagedPool, TLAPS

-----------------------------------------------------------------------------
(* The parts of the invariant                                              *)

Bound  == {"registered", "starting", "ready", "draining"}
Draining == {"unlabel", "busy", "attempts", "freeze", "inspect", "final", "signal", "stopped", "remove"}
Up     == {"active", "frozen"}

PoolShape ==
  /\ pool = [owner |-> pool.owner, desired |-> pool.desired, consumers |-> pool.consumers, rec |-> pool.rec]
  /\ pool.rec = [m \in Members |-> pool.rec[m]]
  /\ \A m \in Members : /\ pool.rec[m] = [phase |-> pool.rec[m].phase, id |-> pool.rec[m].id]
                        /\ pool.rec[m].phase \in Phases \cup {"none"}
                        /\ pool.rec[m].phase = "none" => pool.rec[m].id = 0
HostShape ==
  /\ remote = [m \in Members |-> remote[m]] /\ local = [m \in Members |-> local[m]]
  /\ service = [m \in Members |-> service[m]] /\ files = [m \in Members |-> files[m]]
  /\ job = [m \in Members |-> job[m]]
  /\ \A m \in Members :
       /\ remote[m] = [id |-> remote[m].id, labels |-> remote[m].labels, ours |-> remote[m].ours]
       /\ remote[m].ours \in BOOLEAN
       /\ service[m] \in Up \cup {"inactive", "stopping"}
       /\ job[m] \in {"none", "matched", "assigned", "running", "lost"}
PassShape ==
  /\ pass = [at |-> pass.at, desired |-> pass.desired, m |-> pass.m]
  /\ pass = NoPass \/ (pass.at \in Points /\ pass.m \in Members /\ pass.desired \in Members)
ConfigShape ==
  /\ config = [m |-> config.m, step |-> config.step]
  /\ config = NoConfig \/ config.m \in Members

\* What a record says is so on the host and at GitHub.
Agrees(m) ==
  LET r == pool.rec[m] IN
  /\ remote[m].ours \/ local[m] # 0 => r.phase # "none"
  /\ remote[m].ours /\ r.id # 0 => remote[m].id = r.id
  /\ r.phase = "register" => r.id = 0
  /\ r.phase \in Bound => r.id # 0 /\ local[m] = r.id
  /\ r.phase \in Bound \cup {"register"} => files[m] = "whole"
  /\ service[m] # "inactive" => r.phase \in {"starting", "ready", "draining"}
  /\ r.phase = "ready" => service[m] \in Up
Agreement == \A m \in Members : Agrees(m)

\* A unit that is down or going down has no work.
Resting == \A m \in Members : service[m] \notin Up => job[m] \in {"none", "matched"}

\* The package is there for the members that the pass has yet to register.
Packed == pass # NoPass => \A m \in Members :
  pass.m <= m /\ m <= pass.desired /\ pool.rec[m].phase # "remove" => files[m] = "whole"

\* What a pass knows of its member.
Placed ==
  /\ pass.at \in {"configure", "configuring"} => pool.rec[pass.m].phase = "register"
  /\ pass.at = "labelled" => pool.rec[pass.m].phase \in Bound
  /\ pass.at = "start" => pool.rec[pass.m].phase = "starting"
  /\ pass.at = "wait" => pool.rec[pass.m].phase \in {"starting", "ready"}
  /\ pass.at \in Draining => pool.rec[pass.m].phase = "draining"
  /\ pass.at \in {"removing", "retire", "drop"} => pool.rec[pass.m].phase = "remove"
  /\ pass.at \in {"retire", "drop"} => local[pass.m] = 0 /\ ~remote[pass.m].ours
  /\ pass.at = "remove" => service[pass.m] = "inactive"
Frozen ==
  /\ pass.at \in {"inspect", "final", "signal"} => service[pass.m] = "frozen"
  /\ pass.at \in {"final", "signal"} => job[pass.m] \in {"none", "matched", "assigned"}
  /\ pass.at = "signal" => job[pass.m] \in {"none", "matched"}

\* config.sh works for the record that named it, and the pass waits for it.
Waits ==
  config # NoConfig =>
    /\ \/ config.step \in {"add", "added", "adding"} /\ pool.rec[config.m].phase = "register"
       \/ config.step \in {"delete", "deleted", "deleting"} /\ pool.rec[config.m].phase = "remove"
    /\ pass = NoPass \/ (pass.at \in {"configuring", "removing"} /\ pass.m = config.m)

Shape == PoolShape /\ HostShape /\ PassShape /\ ConfigShape
Inv   == Shape /\ Agreement /\ Resting /\ Packed /\ Placed /\ Frozen /\ Waits

-----------------------------------------------------------------------------
(* What a step leaves alone                                                *)

LEMMA AgreementSame == Agreement /\ UNCHANGED <<pool, remote, local, service, files>> => Agreement'
  BY DEF Agreement, Agrees
LEMMA RestingSame == Resting /\ UNCHANGED <<service, job>> => Resting'
  BY DEF Resting
LEMMA PackedSame == Packed /\ UNCHANGED <<pool, files, pass>> => Packed'
  BY DEF Packed
LEMMA PlacedSame == Placed /\ UNCHANGED <<pass, pool, remote, local, service>> => Placed'
  BY DEF Placed
LEMMA FrozenSame == Frozen /\ UNCHANGED <<pass, service, job>> => Frozen'
  BY DEF Frozen
LEMMA WaitsSame == Waits /\ UNCHANGED <<config, pool, pass>> => Waits'
  BY DEF Waits

-----------------------------------------------------------------------------
(* How a step changes what it changes                                      *)

Moved(point) == /\ PassShape' /\ pass' # NoPass /\ pass'.at = point
                /\ pass'.m = pass.m /\ pass'.desired = pass.desired
Passed == /\ PassShape'
          /\ \/ pass' = NoPass
             \/ pass' # NoPass /\ pass'.at = "member" /\ pass'.m = pass.m + 1 /\ pass'.desired = pass.desired

LEMMA GotoMoves ==
  ASSUME PassShape, pass # NoPass, NEW point \in Points, Goto(point)
  PROVE  Moved(point)
<1>1. pass' = [at |-> point, desired |-> pass.desired, m |-> pass.m]
  BY DEF PassShape, Goto
<1>2. point # "none"
  BY DEF Points
<1>3. QED BY <1>1, <1>2 DEF PassShape, Moved, NoPass

LEMMA NextPasses ==
  ASSUME PassShape, pass # NoPass, NextMember
  PROVE  Passed
<1>1. CASE pass.m = Capacity
  BY <1>1 DEF NextMember, M, Passed, PassShape, NoPass
<1>2. CASE pass.m # Capacity
  <2>1. pass' = [at |-> "member", desired |-> pass.desired, m |-> pass.m + 1]
    BY <1>2 DEF PassShape, NextMember, M
  <2>2. pass.m + 1 \in Members
    BY <1>2, CapacityAssumption DEF PassShape, Members
  <2>3. "member" \in Points /\ NoPass.at = "none"
    BY DEF Points, NoPass
  <2>4. QED BY <2>1, <2>2, <2>3 DEF PassShape, Passed
<1>3. QED BY <1>1, <1>2

LEMMA NoneShape == pass' = NoPass => PassShape'
  BY DEF PassShape, NoPass

\* A function on the members, changed at one of them.
Edited(f, g, n, v) == /\ g = [m \in Members |-> g[m]] /\ g[n] = v
                      /\ \A m \in Members \ {n} : g[m] = f[m]

LEMMA EditIs ==
  ASSUME NEW f, f = [m \in Members |-> f[m]], NEW n \in Members, NEW v
  PROVE  Edited(f, [f EXCEPT ![n] = v], n, v)
BY DEF Edited

LEMMA RunnerEdits ==
  ASSUME NEW x, x = [id |-> x.id, labels |-> x.labels, ours |-> x.ours], NEW v
  PROVE  [x EXCEPT !.labels = v] = [id |-> x.id, labels |-> v, ours |-> x.ours]
OBVIOUS

\* A write of the pass's record.
Wrote(p, i) == /\ PoolShape' /\ pool'.rec[pass.m] = [phase |-> p, id |-> i]
               /\ \A m \in Members \ {pass.m} : pool'.rec[m] = pool.rec[m]

LEMMA WriteIs ==
  ASSUME PoolShape, pass.m \in Members, NEW p, p \in Phases \cup {"none"}, NEW i, p = "none" => i = 0,
         Write([phase |-> p, id |-> i])
  PROVE  Wrote(p, i)
<1>1. ASSUME NEW v PROVE [pool EXCEPT !.rec = v] = [owner |-> pool.owner, desired |-> pool.desired,
                                                    consumers |-> pool.consumers, rec |-> v]
  BY DEF PoolShape
<1>2. pool' = [owner |-> pool.owner, desired |-> pool.desired, consumers |-> pool.consumers,
               rec |-> [pool.rec EXCEPT ![pass.m] = [phase |-> p, id |-> i]]]
  BY <1>1 DEF Write, M
<1>3. Edited(pool.rec, pool'.rec, pass.m, [phase |-> p, id |-> i])
  BY <1>2, EditIs DEF PoolShape
<1>4. QED BY <1>2, <1>3 DEF PoolShape, Edited, Wrote

LEMMA RecordEdits ==
  ASSUME NEW x, x = [phase |-> x.phase, id |-> x.id], NEW v
  PROVE  [x EXCEPT !.phase = v] = [phase |-> v, id |-> x.id]
OBVIOUS

LEMMA PhaseIs ==
  ASSUME PoolShape, pass.m \in Members, NEW p \in Phases, SetPhase(p)
  PROVE  Wrote(p, pool.rec[pass.m].id)
<1>1. [pool.rec[pass.m] EXCEPT !.phase = p] = [phase |-> p, id |-> pool.rec[pass.m].id]
  BY RecordEdits DEF PoolShape
<1>2. "none" \notin Phases
  BY DEF Phases
<1>3. Write([phase |-> p, id |-> pool.rec[pass.m].id])
  BY <1>1 DEF SetPhase, Rec, M
<1>4. QED BY <1>2, <1>3, WriteIs

-----------------------------------------------------------------------------
(* The steps of a pass that only read                                      *)

LEMMA SkipKeeps ==
  ASSUME Inv, pass # NoPass, Skip
  PROVE  Inv'
<1>1. /\ PoolShape /\ HostShape /\ PassShape /\ ConfigShape
      /\ Agreement /\ Resting /\ Packed /\ Placed /\ Frozen /\ Waits
  BY DEF Inv, Shape
<1>2. UNCHANGED <<pool, remote, local, service, files, job, config>> /\ pass.at = "member"
  BY DEF Skip, Outside, At, M, Rec, Excess
<1>3. Passed
  BY <1>1, NextPasses DEF Skip
<1>4. Shape'
  BY <1>1, <1>2, <1>3 DEF Shape, PoolShape, HostShape, PassShape, ConfigShape, Passed, Members, Up, NoPass
<1>5. Agreement' /\ Resting'
  BY <1>1, <1>2, AgreementSame, RestingSame
<1>6. Packed'
  BY <1>1, <1>2, <1>3 DEF Packed, PassShape, Passed, Members, NoPass
<1>7. Placed'
  BY <1>1, <1>2, <1>3 DEF Placed, PassShape, PoolShape, Passed, Members, Bound, Draining, NoPass
<1>8. Frozen'
  BY <1>1, <1>2, <1>3 DEF Frozen, HostShape, PassShape, Passed, Members, NoPass, Up, Draining
<1>9. Waits'
  BY <1>1, <1>2, <1>3 DEF Waits, ConfigShape, Passed, Members, NoPass
<1>10. QED BY <1>4, <1>5, <1>6, <1>7, <1>8, <1>9 DEF Inv

LEMMA ConfiguredKeeps ==
  ASSUME Inv, pass # NoPass, Configured
  PROVE  Inv'
<1>1. /\ PoolShape /\ HostShape /\ PassShape /\ ConfigShape
      /\ Agreement /\ Resting /\ Packed /\ Placed /\ Frozen /\ Waits
  BY DEF Inv, Shape
<1>2. /\ UNCHANGED <<pool, remote, local, service, files, job, config>> /\ pass.at = "configuring"
      /\ config = NoConfig
  BY DEF Configured, Outside, At, M, Rec, Excess
<1>3. Moved("member")
  BY <1>1, GotoMoves DEF Configured, Points
<1>4. Shape'
  BY <1>1, <1>2, <1>3
     DEF Shape, PoolShape, HostShape, PassShape, ConfigShape, Moved, Members, Up, NoConfig, NoPass
<1>5. Agreement' /\ Resting'
  BY <1>1, <1>2, AgreementSame, RestingSame
<1>6. Packed'
  BY <1>1, <1>2, <1>3 DEF Packed, PassShape, Moved, Members, NoPass
<1>7. Placed'
  BY <1>1, <1>2, <1>3 DEF Placed, PassShape, PoolShape, Moved, Members, Bound, Draining, NoPass
<1>8. Frozen'
  BY <1>1, <1>2, <1>3 DEF Frozen, HostShape, PassShape, Moved, Members, NoPass, Up, Draining
<1>9. Waits'
  BY <1>1, <1>2, <1>3 DEF Waits, ConfigShape, Moved, Members, NoPass, NoConfig
<1>10. QED BY <1>4, <1>5, <1>6, <1>7, <1>8, <1>9 DEF Inv

LEMMA RemovedKeeps ==
  ASSUME Inv, pass # NoPass, Removed
  PROVE  Inv'
<1>1. /\ PoolShape /\ HostShape /\ PassShape /\ ConfigShape
      /\ Agreement /\ Resting /\ Packed /\ Placed /\ Frozen /\ Waits
  BY DEF Inv, Shape
<1>2. /\ UNCHANGED <<pool, remote, local, service, files, job, config>> /\ pass.at = "removing"
      /\ config = NoConfig /\ local[pass.m] = 0 /\ ~remote[pass.m].ours
  BY DEF Removed, Outside, At, M, Rec, Excess, NoRunner
<1>3. Moved("retire")
  BY <1>1, GotoMoves DEF Removed, Points
<1>4. Shape'
  BY <1>1, <1>2, <1>3
     DEF Shape, PoolShape, HostShape, PassShape, ConfigShape, Moved, Members, Up, NoConfig, NoPass
<1>5. Agreement' /\ Resting'
  BY <1>1, <1>2, AgreementSame, RestingSame
<1>6. Packed'
  BY <1>1, <1>2, <1>3 DEF Packed, PassShape, Moved, Members, NoPass
<1>7. Placed'
  BY <1>1, <1>2, <1>3 DEF Placed, PassShape, PoolShape, Moved, Members, Bound, Draining, NoPass
<1>8. Frozen'
  BY <1>1, <1>2, <1>3 DEF Frozen, HostShape, PassShape, Moved, Members, NoPass, Up, Draining
<1>9. Waits'
  BY <1>1, <1>2, <1>3 DEF Waits, ConfigShape, Moved, Members, NoPass, NoConfig
<1>10. QED BY <1>4, <1>5, <1>6, <1>7, <1>8, <1>9 DEF Inv

LEMMA ReadBusyKeeps ==
  ASSUME Inv, pass # NoPass, ReadBusy
  PROVE  Inv'
<1>1. /\ PoolShape /\ HostShape /\ PassShape /\ ConfigShape
      /\ Agreement /\ Resting /\ Packed /\ Placed /\ Frozen /\ Waits
  BY DEF Inv, Shape
<1>2. UNCHANGED <<pool, remote, local, service, files, job, config>> /\ pass.at = "busy"
  BY DEF ReadBusy, Outside, At, M, Rec, Excess, Look
<1>3. Moved("attempts") \/ Passed
  BY <1>1, GotoMoves, NextPasses DEF ReadBusy, Points, Look
<1>4. Shape'
  BY <1>1, <1>2, <1>3
     DEF Shape, PoolShape, HostShape, PassShape, ConfigShape, Moved, Passed, Members, Up, NoPass
<1>5. Agreement' /\ Resting'
  BY <1>1, <1>2, AgreementSame, RestingSame
<1>6. Packed'
  BY <1>1, <1>2, <1>3 DEF Packed, PassShape, Moved, Passed, Members, NoPass
<1>7. Placed'
  BY <1>1, <1>2, <1>3 DEF Placed, PassShape, PoolShape, Moved, Passed, Members, Bound, Draining, NoPass
<1>8. Frozen'
  BY <1>1, <1>2, <1>3 DEF Frozen, HostShape, PassShape, Moved, Passed, Members, NoPass, Up, Draining
<1>9. Waits'
  BY <1>1, <1>2, <1>3 DEF Waits, ConfigShape, Moved, Passed, Members, NoPass
<1>10. QED BY <1>4, <1>5, <1>6, <1>7, <1>8, <1>9 DEF Inv

LEMMA ReadAttemptsKeeps ==
  ASSUME Inv, pass # NoPass, ReadAttempts
  PROVE  Inv'
<1>1. /\ PoolShape /\ HostShape /\ PassShape /\ ConfigShape
      /\ Agreement /\ Resting /\ Packed /\ Placed /\ Frozen /\ Waits
  BY DEF Inv, Shape
<1>2. UNCHANGED <<pool, remote, local, service, files, job, config>> /\ pass.at = "attempts"
  BY DEF ReadAttempts, Outside, At, M, Rec, Excess, Look
<1>3. Moved("freeze") \/ Passed
  BY <1>1, GotoMoves, NextPasses DEF ReadAttempts, Points, Look
<1>4. Shape'
  BY <1>1, <1>2, <1>3
     DEF Shape, PoolShape, HostShape, PassShape, ConfigShape, Moved, Passed, Members, Up, NoPass
<1>5. Agreement' /\ Resting'
  BY <1>1, <1>2, AgreementSame, RestingSame
<1>6. Packed'
  BY <1>1, <1>2, <1>3 DEF Packed, PassShape, Moved, Passed, Members, NoPass
<1>7. Placed'
  BY <1>1, <1>2, <1>3 DEF Placed, PassShape, PoolShape, Moved, Passed, Members, Bound, Draining, NoPass
<1>8. Frozen'
  BY <1>1, <1>2, <1>3 DEF Frozen, HostShape, PassShape, Moved, Passed, Members, NoPass, Up, Draining
<1>9. Waits'
  BY <1>1, <1>2, <1>3 DEF Waits, ConfigShape, Moved, Passed, Members, NoPass
<1>10. QED BY <1>4, <1>5, <1>6, <1>7, <1>8, <1>9 DEF Inv

LEMMA AlreadyStoppedKeeps ==
  ASSUME Inv, pass # NoPass, AlreadyStopped
  PROVE  Inv'
<1>1. /\ PoolShape /\ HostShape /\ PassShape /\ ConfigShape
      /\ Agreement /\ Resting /\ Packed /\ Placed /\ Frozen /\ Waits
  BY DEF Inv, Shape
<1>2. /\ UNCHANGED <<pool, remote, local, service, files, job, config>> /\ pass.at = "freeze"
      /\ service[pass.m] = "inactive"
  BY DEF AlreadyStopped, Outside, At, M, Rec, Excess, Look
<1>3. Moved("remove") \/ Passed
  BY <1>1, GotoMoves, NextPasses DEF AlreadyStopped, Points, Look
<1>4. Shape'
  BY <1>1, <1>2, <1>3
     DEF Shape, PoolShape, HostShape, PassShape, ConfigShape, Moved, Passed, Members, Up, NoPass
<1>5. Agreement' /\ Resting'
  BY <1>1, <1>2, AgreementSame, RestingSame
<1>6. Packed'
  BY <1>1, <1>2, <1>3 DEF Packed, PassShape, Moved, Passed, Members, NoPass
<1>7. Placed'
  BY <1>1, <1>2, <1>3 DEF Placed, PassShape, PoolShape, Moved, Passed, Members, Bound, Draining, NoPass
<1>8. Frozen'
  BY <1>1, <1>2, <1>3 DEF Frozen, HostShape, PassShape, Moved, Passed, Members, NoPass, Up, Draining
<1>9. Waits'
  BY <1>1, <1>2, <1>3 DEF Waits, ConfigShape, Moved, Passed, Members, NoPass
<1>10. QED BY <1>4, <1>5, <1>6, <1>7, <1>8, <1>9 DEF Inv

LEMMA StoppedKeeps ==
  ASSUME Inv, pass # NoPass, Stopped
  PROVE  Inv'
<1>1. /\ PoolShape /\ HostShape /\ PassShape /\ ConfigShape
      /\ Agreement /\ Resting /\ Packed /\ Placed /\ Frozen /\ Waits
  BY DEF Inv, Shape
<1>2. UNCHANGED <<pool, remote, local, service, files, job, config>> /\ pass.at = "stopped"
  BY DEF Stopped, Look, Outside, At, M, Rec, Excess
<1>3. (Moved("remove") /\ service[pass.m] = "inactive") \/ Passed
  BY <1>1, GotoMoves, NextPasses DEF Stopped, Look, Points, M
<1>4. Shape'
  BY <1>1, <1>2, <1>3
     DEF Shape, PoolShape, HostShape, PassShape, ConfigShape, Moved, Passed, Members, Up, NoPass
<1>5. Agreement' /\ Resting'
  BY <1>1, <1>2, AgreementSame, RestingSame
<1>6. Packed'
  BY <1>1, <1>2, <1>3 DEF Packed, PassShape, Moved, Passed, Members, NoPass
<1>7. Placed'
  BY <1>1, <1>2, <1>3 DEF Placed, PassShape, PoolShape, Moved, Passed, Members, Bound, Draining, NoPass
<1>8. Frozen'
  BY <1>1, <1>2, <1>3 DEF Frozen, HostShape, PassShape, Moved, Passed, Members, NoPass, Up, Draining
<1>9. Waits'
  BY <1>1, <1>2, <1>3 DEF Waits, ConfigShape, Moved, Passed, Members, NoPass
<1>10. QED BY <1>4, <1>5, <1>6, <1>7, <1>8, <1>9 DEF Inv

-----------------------------------------------------------------------------
(* The steps that write a record                                           *)

LEMMA ReserveKeeps ==
  ASSUME Inv, pass # NoPass, Reserve
  PROVE  Inv'
<1>1. /\ PoolShape /\ HostShape /\ PassShape /\ ConfigShape
      /\ Agreement /\ Resting /\ Packed /\ Placed /\ Frozen /\ Waits
  BY DEF Inv, Shape
<1>2. /\ UNCHANGED <<remote, local, service, files, job, config>> /\ pass.at = "member"
      /\ pass.m <= pass.desired /\ pool.rec[pass.m].phase = "none" /\ local[pass.m] = 0
      /\ ~remote[pass.m].ours /\ pass.m \in Members /\ pass.desired \in Members
  BY <1>1 DEF Reserve, Outside, At, M, Rec, Excess, NoRecord, NoRunner, PassShape, Members
<1>3. Moved("configure")
  BY <1>1, GotoMoves DEF Reserve, Points
<1>4. Wrote("register", 0)
  BY <1>1, <1>2, WriteIs DEF Reserve, Phases
<1>5. files[pass.m] = "whole" /\ service[pass.m] = "inactive"
  BY <1>1, <1>2 DEF Packed, Agreement, Agrees, Members
<1>6. Shape'
  BY <1>1, <1>2, <1>3, <1>4, <1>5
     DEF Shape, PoolShape, HostShape, PassShape, ConfigShape, Moved, Wrote, Members, Up, NoPass
<1>7. Resting'
  BY <1>1, <1>2, RestingSame
<1>8. Agreement'
  BY <1>1, <1>2, <1>3, <1>4, <1>5
     DEF Agreement, Agrees, PoolShape, HostShape, Moved, Wrote, Members, Bound, Up, Phases
<1>9. Packed'
  BY <1>1, <1>2, <1>3, <1>4, <1>5 DEF Packed, PassShape, Moved, Wrote, Members, NoPass
<1>10. Placed'
  BY <1>1, <1>2, <1>3, <1>4, <1>5
     DEF Placed, PassShape, PoolShape, Moved, Wrote, Members, Bound, Draining, NoPass
<1>11. Frozen'
  BY <1>1, <1>2, <1>3, <1>4, <1>5
     DEF Frozen, HostShape, PassShape, Moved, Wrote, Members, NoPass, Up, Draining
<1>12. Waits'
  BY <1>1, <1>2, <1>3, <1>4, <1>5 DEF Waits, ConfigShape, Moved, Wrote, Members, NoPass
<1>13. QED BY <1>6, <1>7, <1>8, <1>9, <1>10, <1>11, <1>12 DEF Inv

LEMMA ConfigureKeeps ==
  ASSUME Inv, pass # NoPass, Configure
  PROVE  Inv'
<1>1. /\ PoolShape /\ HostShape /\ PassShape /\ ConfigShape
      /\ Agreement /\ Resting /\ Packed /\ Placed /\ Frozen /\ Waits
  BY DEF Inv, Shape
<1>2. /\ UNCHANGED <<pool, remote, local, service, files, job>> /\ pass.at = "configure"
      /\ pass.m \in Members /\ config' = [m |-> pass.m, step |-> "add"]
  BY <1>1 DEF Configure, Outside, At, M, Rec, Excess, PassShape, NoPass
<1>3. Moved("configuring")
  BY <1>1, GotoMoves DEF Configure, Points
<1>4. Shape'
  BY <1>1, <1>2, <1>3
     DEF Shape, PoolShape, HostShape, PassShape, ConfigShape, Moved, Members, Up, NoConfig, NoPass
<1>5. Agreement' /\ Resting'
  BY <1>1, <1>2, AgreementSame, RestingSame
<1>6. Packed'
  BY <1>1, <1>2, <1>3 DEF Packed, PassShape, Moved, Members, NoPass
<1>7. Placed'
  BY <1>1, <1>2, <1>3 DEF Placed, PassShape, PoolShape, Moved, Members, Bound, Draining, NoPass
<1>8. Frozen'
  BY <1>1, <1>2, <1>3 DEF Frozen, HostShape, PassShape, Moved, Members, NoPass, Up, Draining
<1>9. Waits'
  BY <1>1, <1>2, <1>3 DEF Waits, ConfigShape, Moved, Members, NoPass, NoConfig, Placed
<1>10. QED BY <1>4, <1>5, <1>6, <1>7, <1>8, <1>9 DEF Inv

LEMMA RegisteredKeeps ==
  ASSUME Inv, pass # NoPass, Registered
  PROVE  Inv'
<1>1. /\ PoolShape /\ HostShape /\ PassShape /\ ConfigShape
      /\ Agreement /\ Resting /\ Packed /\ Placed /\ Frozen /\ Waits
  BY DEF Inv, Shape
<1>2. /\ UNCHANGED <<remote, local, service, files, job, config>> /\ pass.at = "member"
      /\ pass.m \in Members /\ pool.rec[pass.m].phase = "register" /\ UNCHANGED pass
      /\ local[pass.m] # 0 /\ remote[pass.m].id = local[pass.m] /\ remote[pass.m].ours
  BY <1>1 DEF Registered, Outside, At, M, Rec, Excess, PassShape, NoPass, BoundTo
<1>3. Wrote("registered", local[pass.m])
  BY <1>1, <1>2, WriteIs DEF Registered, Phases, M
<1>4. Shape'
  BY <1>1, <1>2, <1>3 DEF Shape, PoolShape, HostShape, PassShape, ConfigShape, Wrote, Members, Up, NoPass
<1>5. Resting'
  BY <1>1, <1>2, RestingSame
<1>6. Agreement'
  BY <1>1, <1>2, <1>3 DEF Agreement, Agrees, PoolShape, HostShape, Wrote, Members, Bound, Up, Phases
<1>7. Packed'
  BY <1>1, <1>2, <1>3 DEF Packed, PassShape, Wrote, Members, NoPass
<1>8. Placed'
  BY <1>1, <1>2, <1>3 DEF Placed, PassShape, PoolShape, Wrote, Members, Bound, Draining, NoPass
<1>9. Frozen'
  BY <1>1, <1>2, <1>3 DEF Frozen, HostShape, PassShape, Wrote, Members, NoPass, Up, Draining
<1>10. Waits'
  BY <1>1, <1>2, <1>3 DEF Waits, ConfigShape, Wrote, Members, NoPass
<1>11. QED BY <1>4, <1>5, <1>6, <1>7, <1>8, <1>9, <1>10 DEF Inv

LEMMA StartingKeeps ==
  ASSUME Inv, pass # NoPass, Starting
  PROVE  Inv'
<1>1. /\ PoolShape /\ HostShape /\ PassShape /\ ConfigShape
      /\ Agreement /\ Resting /\ Packed /\ Placed /\ Frozen /\ Waits
  BY DEF Inv, Shape
<1>2. UNCHANGED <<remote, local, service, files, job, config>> /\ pass.at = "labelled" /\ pass.m \in Members
  BY <1>1 DEF Starting, Outside, At, M, Rec, Excess, PassShape, NoPass
<1>3. \/ Moved("start") /\ Wrote("starting", pool.rec[pass.m].id)
         /\ pool.rec[pass.m].phase \in {"registered", "draining"}
      \/ Moved("wait") /\ UNCHANGED pool /\ pool.rec[pass.m].phase \notin {"registered", "draining"}
  <2>1. CASE Rec.phase \in {"registered", "draining"}
    <3>1. SetPhase("starting") /\ Goto("start")
      BY <2>1 DEF Starting
    <3>2. "starting" \in Phases /\ "start" \in Points
      BY DEF Phases, Points
    <3>3. QED BY <1>1, <1>2, <2>1, <3>1, <3>2, GotoMoves, PhaseIs DEF Rec, M
  <2>2. CASE Rec.phase \notin {"registered", "draining"}
    <3>1. Goto("wait") /\ UNCHANGED pool /\ "wait" \in Points
      BY <2>2 DEF Starting, Points
    <3>2. QED BY <1>1, <2>2, <3>1, GotoMoves DEF Rec, M
  <2>3. QED BY <2>1, <2>2
<1>4. PassShape' /\ PoolShape'
  BY <1>1, <1>3 DEF Moved, Wrote, PoolShape
<1>5. Shape'
  BY <1>1, <1>2, <1>3, <1>4
     DEF Shape, PoolShape, HostShape, PassShape, ConfigShape, Moved, Wrote, Members, Up, NoPass
<1>6. Resting'
  BY <1>1, <1>2, RestingSame
<1>7. Agreement'
  BY <1>1, <1>2, <1>3, <1>4
     DEF Agreement, Agrees, PoolShape, HostShape, Moved, Wrote, Members, Bound, Up, Phases
<1>8. Packed'
  BY <1>1, <1>2, <1>3, <1>4 DEF Packed, PassShape, Moved, Wrote, Members, NoPass
<1>9. Placed'
  BY <1>1, <1>2, <1>3, <1>4 DEF Placed, PassShape, PoolShape, Moved, Wrote, Members, Bound, Draining, NoPass
<1>10. Frozen'
  BY <1>1, <1>2, <1>3, <1>4 DEF Frozen, HostShape, PassShape, Moved, Wrote, Members, NoPass, Up, Draining
<1>11. Waits'
  BY <1>1, <1>2, <1>3, <1>4 DEF Waits, ConfigShape, Moved, Wrote, Members, NoPass
<1>12. QED BY <1>5, <1>6, <1>7, <1>8, <1>9, <1>10, <1>11 DEF Inv

LEMMA WaitReadyKeeps ==
  ASSUME Inv, pass # NoPass, WaitReady
  PROVE  Inv'
<1>1. /\ PoolShape /\ HostShape /\ PassShape /\ ConfigShape
      /\ Agreement /\ Resting /\ Packed /\ Placed /\ Frozen /\ Waits
  BY DEF Inv, Shape
<1>2. /\ UNCHANGED <<remote, local, service, files, job, config>> /\ pass.at = "wait"
      /\ pass.m \in Members /\ service[pass.m] \in Up
  BY <1>1 DEF WaitReady, Outside, At, M, Rec, Excess, PassShape, NoPass, Up
<1>3. Passed
  BY <1>1, NextPasses DEF WaitReady
<1>4. Wrote("ready", pool.rec[pass.m].id)
  BY <1>1, <1>2, PhaseIs DEF WaitReady, Phases
<1>5. Shape'
  BY <1>1, <1>2, <1>3, <1>4
     DEF Shape, PoolShape, HostShape, PassShape, ConfigShape, Passed, Wrote, Members, Up, NoPass
<1>6. Resting'
  BY <1>1, <1>2, RestingSame
<1>7. Agreement'
  BY <1>1, <1>2, <1>3, <1>4
     DEF Agreement, Agrees, PoolShape, HostShape, Passed, Wrote, Members, Bound, Up, Phases
<1>8. Packed'
  BY <1>1, <1>2, <1>3, <1>4 DEF Packed, PassShape, Passed, Wrote, Members, NoPass
<1>9. Placed'
  BY <1>1, <1>2, <1>3, <1>4
     DEF Placed, PassShape, PoolShape, Passed, Wrote, Members, Bound, Draining, NoPass
<1>10. Frozen'
  BY <1>1, <1>2, <1>3, <1>4 DEF Frozen, HostShape, PassShape, Passed, Wrote, Members, NoPass, Up, Draining
<1>11. Waits'
  BY <1>1, <1>2, <1>3, <1>4 DEF Waits, ConfigShape, Passed, Wrote, Members, NoPass
<1>12. QED BY <1>5, <1>6, <1>7, <1>8, <1>9, <1>10, <1>11 DEF Inv

LEMMA DrainKeeps ==
  ASSUME Inv, pass # NoPass, Drain
  PROVE  Inv'
<1>1. /\ PoolShape /\ HostShape /\ PassShape /\ ConfigShape
      /\ Agreement /\ Resting /\ Packed /\ Placed /\ Frozen /\ Waits
  BY DEF Inv, Shape
<1>2. /\ UNCHANGED <<remote, local, service, files, job, config>> /\ pass.at = "member"
      /\ pass.m \in Members /\ pool.rec[pass.m].phase \in Bound
  BY <1>1 DEF Drain, Outside, At, M, Rec, Excess, PassShape, NoPass, Held, Bound
<1>3. Moved("unlabel")
  BY <1>1, GotoMoves DEF Drain, Points
<1>4. Wrote("draining", pool.rec[pass.m].id)
  BY <1>1, <1>2, PhaseIs DEF Drain, Phases
<1>5. Shape'
  BY <1>1, <1>2, <1>3, <1>4
     DEF Shape, PoolShape, HostShape, PassShape, ConfigShape, Moved, Wrote, Members, Up, NoPass
<1>6. Resting'
  BY <1>1, <1>2, RestingSame
<1>7. Agreement'
  BY <1>1, <1>2, <1>3, <1>4
     DEF Agreement, Agrees, PoolShape, HostShape, Moved, Wrote, Members, Bound, Up, Phases
<1>8. Packed'
  BY <1>1, <1>2, <1>3, <1>4 DEF Packed, PassShape, Moved, Wrote, Members, NoPass, Bound
<1>9. Placed'
  BY <1>1, <1>2, <1>3, <1>4 DEF Placed, PassShape, PoolShape, Moved, Wrote, Members, Bound, Draining, NoPass
<1>10. Frozen'
  BY <1>1, <1>2, <1>3, <1>4 DEF Frozen, HostShape, PassShape, Moved, Wrote, Members, NoPass, Up, Draining
<1>11. Waits'
  BY <1>1, <1>2, <1>3, <1>4 DEF Waits, ConfigShape, Moved, Wrote, Members, NoPass
<1>12. QED BY <1>5, <1>6, <1>7, <1>8, <1>9, <1>10, <1>11 DEF Inv

LEMMA RemoveKeeps ==
  ASSUME Inv, pass # NoPass, Remove
  PROVE  Inv'
<1>1. /\ PoolShape /\ HostShape /\ PassShape /\ ConfigShape
      /\ Agreement /\ Resting /\ Packed /\ Placed /\ Frozen /\ Waits
  BY DEF Inv, Shape
<1>2. /\ UNCHANGED <<remote, local, service, files, job>> /\ pass.at = "remove"
      /\ pass.m \in Members /\ config' = [m |-> pass.m, step |-> "delete"]
  BY <1>1 DEF Remove, Outside, At, M, Rec, Excess, PassShape, NoPass
<1>3. Moved("removing")
  BY <1>1, GotoMoves DEF Remove, Points
<1>4. Wrote("remove", pool.rec[pass.m].id)
  BY <1>1, <1>2, PhaseIs DEF Remove, Phases
<1>5. Shape'
  BY <1>1, <1>2, <1>3, <1>4
     DEF Shape, PoolShape, HostShape, PassShape, ConfigShape, Moved, Wrote, Members, Up, NoConfig,
         NoPass
<1>6. Resting'
  BY <1>1, <1>2, RestingSame
<1>7. Agreement'
  BY <1>1, <1>2, <1>3, <1>4
     DEF Agreement, Agrees, PoolShape, HostShape, Moved, Wrote, Members, Bound, Up, Phases, Placed,
         Draining
<1>8. Packed'
  BY <1>1, <1>2, <1>3, <1>4 DEF Packed, PassShape, Moved, Wrote, Members, NoPass
<1>9. Placed'
  BY <1>1, <1>2, <1>3, <1>4 DEF Placed, PassShape, PoolShape, Moved, Wrote, Members, Bound, Draining, NoPass
<1>10. Frozen'
  BY <1>1, <1>2, <1>3, <1>4 DEF Frozen, HostShape, PassShape, Moved, Wrote, Members, NoPass, Up, Draining
<1>11. Waits'
  BY <1>1, <1>2, <1>3, <1>4 DEF Waits, ConfigShape, Moved, Wrote, Members, NoPass, NoConfig
<1>12. QED BY <1>5, <1>6, <1>7, <1>8, <1>9, <1>10, <1>11 DEF Inv

LEMMA DropKeeps ==
  ASSUME Inv, pass # NoPass, Drop
  PROVE  Inv'
<1>1. /\ PoolShape /\ HostShape /\ PassShape /\ ConfigShape
      /\ Agreement /\ Resting /\ Packed /\ Placed /\ Frozen /\ Waits
  BY DEF Inv, Shape
<1>2. UNCHANGED <<remote, local, service, files, job, config>> /\ pass.at = "drop" /\ pass.m \in Members
  BY <1>1 DEF Drop, Outside, At, M, Rec, Excess, PassShape, NoPass
<1>3. Passed
  BY <1>1, NextPasses DEF Drop
<1>4. Wrote("none", 0)
  BY <1>1, <1>2, WriteIs DEF Drop, NoRecord
<1>5. Shape'
  BY <1>1, <1>2, <1>3, <1>4
     DEF Shape, PoolShape, HostShape, PassShape, ConfigShape, Passed, Wrote, Members, Up, NoPass
<1>6. Resting'
  BY <1>1, <1>2, RestingSame
<1>7. Agreement'
  BY <1>1, <1>2, <1>3, <1>4
     DEF Agreement, Agrees, PoolShape, HostShape, Passed, Wrote, Members, Bound, Up, Phases, Placed
<1>8. Packed'
  BY <1>1, <1>2, <1>3, <1>4 DEF Packed, PassShape, Passed, Wrote, Members, NoPass
<1>9. Placed'
  BY <1>1, <1>2, <1>3, <1>4
     DEF Placed, PassShape, PoolShape, Passed, Wrote, Members, Bound, Draining, NoPass
<1>10. Frozen'
  BY <1>1, <1>2, <1>3, <1>4 DEF Frozen, HostShape, PassShape, Passed, Wrote, Members, NoPass, Up, Draining
<1>11. Waits'
  BY <1>1, <1>2, <1>3, <1>4 DEF Waits, ConfigShape, Passed, Wrote, Members, NoPass
<1>12. QED BY <1>5, <1>6, <1>7, <1>8, <1>9, <1>10, <1>11 DEF Inv

-----------------------------------------------------------------------------
(* The steps that change the host or GitHub                                *)

LEMMA LabelKeeps ==
  ASSUME Inv, pass # NoPass, Label
  PROVE  Inv'
<1>1. /\ PoolShape /\ HostShape /\ PassShape /\ ConfigShape
      /\ Agreement /\ Resting /\ Packed /\ Placed /\ Frozen /\ Waits
  BY DEF Inv, Shape
<1>2. /\ UNCHANGED <<pool, local, service, files, job, config>> /\ pass.at = "member"
      /\ pass.m \in Members /\ pool.rec[pass.m].phase \in Bound
  BY <1>1 DEF Label, Outside, At, M, Rec, Excess, PassShape, NoPass, Held, Bound
<1>3. Moved("labelled")
  BY <1>1, GotoMoves DEF Label, Points
<1>4. Edited(remote, remote', pass.m, [id |-> remote[pass.m].id, labels |-> TRUE, ours |-> remote[pass.m].ours])
  BY <1>1, <1>2, RunnerEdits, EditIs DEF Label, HostShape, M
<1>5. Shape'
  BY <1>1, <1>2, <1>3, <1>4
     DEF Shape, PoolShape, HostShape, PassShape, ConfigShape, Moved, Edited, Members, Up, NoPass
<1>6. Resting'
  BY <1>1, <1>2, RestingSame
<1>7. Agreement'
  BY <1>1, <1>2, <1>3, <1>4
     DEF Agreement, Agrees, PoolShape, HostShape, Moved, Edited, Members, Bound, Up, Phases
<1>8. Packed'
  BY <1>1, <1>2, <1>3, <1>4 DEF Packed, PassShape, Moved, Edited, Members, NoPass
<1>9. Placed'
  BY <1>1, <1>2, <1>3, <1>4
     DEF Placed, PassShape, PoolShape, Moved, Edited, Members, Bound, Draining, NoPass, Held
<1>10. Frozen'
  BY <1>1, <1>2, <1>3, <1>4 DEF Frozen, HostShape, PassShape, Moved, Edited, Members, NoPass, Up, Draining
<1>11. Waits'
  BY <1>1, <1>2, <1>3, <1>4 DEF Waits, ConfigShape, Moved, Edited, Members, NoPass
<1>12. QED BY <1>5, <1>6, <1>7, <1>8, <1>9, <1>10, <1>11 DEF Inv

LEMMA UnlabelKeeps ==
  ASSUME Inv, pass # NoPass, Unlabel
  PROVE  Inv'
<1>1. /\ PoolShape /\ HostShape /\ PassShape /\ ConfigShape
      /\ Agreement /\ Resting /\ Packed /\ Placed /\ Frozen /\ Waits
  BY DEF Inv, Shape
<1>2. UNCHANGED <<pool, local, service, files, job, config>> /\ pass.at = "unlabel" /\ pass.m \in Members
  BY <1>1 DEF Unlabel, Outside, At, M, Rec, Excess, PassShape, NoPass
<1>3. Moved("busy")
  BY <1>1, GotoMoves DEF Unlabel, Points
<1>4. Edited(remote, remote', pass.m, [id |-> remote[pass.m].id, labels |-> FALSE, ours |-> remote[pass.m].ours])
  BY <1>1, <1>2, RunnerEdits, EditIs DEF Unlabel, HostShape, M
<1>5. Shape'
  BY <1>1, <1>2, <1>3, <1>4
     DEF Shape, PoolShape, HostShape, PassShape, ConfigShape, Moved, Edited, Members, Up, NoPass
<1>6. Resting'
  BY <1>1, <1>2, RestingSame
<1>7. Agreement'
  BY <1>1, <1>2, <1>3, <1>4
     DEF Agreement, Agrees, PoolShape, HostShape, Moved, Edited, Members, Bound, Up, Phases
<1>8. Packed'
  BY <1>1, <1>2, <1>3, <1>4 DEF Packed, PassShape, Moved, Edited, Members, NoPass
<1>9. Placed'
  BY <1>1, <1>2, <1>3, <1>4
     DEF Placed, PassShape, PoolShape, Moved, Edited, Members, Bound, Draining, NoPass
<1>10. Frozen'
  BY <1>1, <1>2, <1>3, <1>4 DEF Frozen, HostShape, PassShape, Moved, Edited, Members, NoPass, Up, Draining
<1>11. Waits'
  BY <1>1, <1>2, <1>3, <1>4 DEF Waits, ConfigShape, Moved, Edited, Members, NoPass
<1>12. QED BY <1>5, <1>6, <1>7, <1>8, <1>9, <1>10, <1>11 DEF Inv

LEMMA StartServiceKeeps ==
  ASSUME Inv, pass # NoPass, StartService
  PROVE  Inv'
<1>1. /\ PoolShape /\ HostShape /\ PassShape /\ ConfigShape
      /\ Agreement /\ Resting /\ Packed /\ Placed /\ Frozen /\ Waits
  BY DEF Inv, Shape
<1>2. UNCHANGED <<pool, remote, local, files, job, config>> /\ pass.at = "start" /\ pass.m \in Members
  BY <1>1 DEF StartService, Outside, At, M, Rec, Excess, PassShape, NoPass
<1>3. Moved("wait")
  BY <1>1, GotoMoves DEF StartService, Points
<1>4. Edited(service, service', pass.m, IF service[pass.m] = "frozen" THEN "frozen" ELSE "active")
  BY <1>1, <1>2, EditIs DEF StartService, HostShape, M
<1>5. Shape'
  BY <1>1, <1>2, <1>3, <1>4
     DEF Shape, PoolShape, HostShape, PassShape, ConfigShape, Moved, Edited, Members, Up, NoPass
<1>6. Agreement'
  BY <1>1, <1>2, <1>3, <1>4
     DEF Agreement, Agrees, PoolShape, HostShape, Moved, Edited, Members, Bound, Up, Phases, Placed
<1>7. Resting'
  BY <1>1, <1>2, <1>3, <1>4 DEF Resting, HostShape, Moved, Edited, Members, Up
<1>8. Packed'
  BY <1>1, <1>2, <1>3, <1>4 DEF Packed, PassShape, Moved, Edited, Members, NoPass
<1>9. Placed'
  BY <1>1, <1>2, <1>3, <1>4
     DEF Placed, PassShape, PoolShape, Moved, Edited, Members, Bound, Draining, NoPass
<1>10. Frozen'
  BY <1>1, <1>2, <1>3, <1>4 DEF Frozen, HostShape, PassShape, Moved, Edited, Members, NoPass, Up, Draining
<1>11. Waits'
  BY <1>1, <1>2, <1>3, <1>4 DEF Waits, ConfigShape, Moved, Edited, Members, NoPass
<1>12. QED BY <1>5, <1>6, <1>7, <1>8, <1>9, <1>10, <1>11 DEF Inv

LEMMA FreezeKeeps ==
  ASSUME Inv, pass # NoPass, Freeze
  PROVE  Inv'
<1>1. /\ PoolShape /\ HostShape /\ PassShape /\ ConfigShape
      /\ Agreement /\ Resting /\ Packed /\ Placed /\ Frozen /\ Waits
  BY DEF Inv, Shape
<1>2. /\ UNCHANGED <<pool, remote, local, files, job, config>> /\ pass.at = "freeze"
      /\ pass.m \in Members /\ service[pass.m] \in Up
  BY <1>1 DEF Freeze, Outside, At, M, Rec, Excess, PassShape, NoPass, Look, Up
<1>3. Moved("inspect")
  BY <1>1, GotoMoves DEF Freeze, Points, Look
<1>4. Edited(service, service', pass.m, "frozen")
  BY <1>1, <1>2, EditIs DEF Freeze, HostShape, M
<1>5. Shape'
  BY <1>1, <1>2, <1>3, <1>4
     DEF Shape, PoolShape, HostShape, PassShape, ConfigShape, Moved, Edited, Members, Up, NoPass
<1>6. Agreement'
  BY <1>1, <1>2, <1>3, <1>4
     DEF Agreement, Agrees, PoolShape, HostShape, Moved, Edited, Members, Bound, Up, Phases
<1>7. Resting'
  BY <1>1, <1>2, <1>3, <1>4 DEF Resting, HostShape, Moved, Edited, Members, Up
<1>8. Packed'
  BY <1>1, <1>2, <1>3, <1>4 DEF Packed, PassShape, Moved, Edited, Members, NoPass
<1>9. Placed'
  BY <1>1, <1>2, <1>3, <1>4
     DEF Placed, PassShape, PoolShape, Moved, Edited, Members, Bound, Draining, NoPass
<1>10. Frozen'
  BY <1>1, <1>2, <1>3, <1>4 DEF Frozen, HostShape, PassShape, Moved, Edited, Members, NoPass, Up, Draining
<1>11. Waits'
  BY <1>1, <1>2, <1>3, <1>4 DEF Waits, ConfigShape, Moved, Edited, Members, NoPass
<1>12. QED BY <1>5, <1>6, <1>7, <1>8, <1>9, <1>10, <1>11 DEF Inv

LEMMA InspectKeeps ==
  ASSUME Inv, pass # NoPass, Inspect
  PROVE  Inv'
<1>1. /\ PoolShape /\ HostShape /\ PassShape /\ ConfigShape
      /\ Agreement /\ Resting /\ Packed /\ Placed /\ Frozen /\ Waits
  BY DEF Inv, Shape
<1>2. UNCHANGED <<pool, remote, local, files, job, config>> /\ pass.at = "inspect" /\ pass.m \in Members
  BY <1>1 DEF Inspect, Outside, At, M, Rec, Excess, PassShape, NoPass, Look
<1>3. \/ Moved("final") /\ UNCHANGED service /\ job[pass.m] \notin {"running", "lost"}
      \/ Passed /\ Edited(service, service', pass.m, "active")
  BY <1>1, <1>2, GotoMoves, NextPasses, EditIs
     DEF Inspect, Look, ThawUnless, Points, HostShape, M, Busy, Worker
<1>4. /\ PassShape' /\ service' = [m \in Members |-> service'[m]]
      /\ \A m \in Members : service'[m] = service[m] \/ (m = pass.m /\ service'[m] = "active")
  BY <1>1, <1>3 DEF Moved, Passed, Edited, HostShape
<1>5. service[pass.m] = "frozen"
  BY <1>1, <1>2 DEF Frozen
<1>6. Shape'
  BY <1>1, <1>2, <1>3, <1>4, <1>5
     DEF Shape, PoolShape, HostShape, PassShape, ConfigShape, Moved, Passed, Edited, Members, Up,
         NoPass
<1>7. Agreement'
  BY <1>1, <1>2, <1>3, <1>4, <1>5
     DEF Agreement, Agrees, PoolShape, HostShape, Moved, Passed, Edited, Members, Bound, Up, Phases
<1>8. Resting'
  BY <1>1, <1>2, <1>3, <1>4, <1>5 DEF Resting, HostShape, Moved, Passed, Edited, Members, Up
<1>9. Packed'
  BY <1>1, <1>2, <1>3, <1>4, <1>5 DEF Packed, PassShape, Moved, Passed, Edited, Members, NoPass
<1>10. Placed'
  BY <1>1, <1>2, <1>3, <1>4, <1>5
     DEF Placed, PassShape, PoolShape, Moved, Passed, Edited, Members, Bound, Draining, NoPass
<1>11. Frozen'
  BY <1>1, <1>2, <1>3, <1>4, <1>5
     DEF Frozen, HostShape, PassShape, Moved, Passed, Edited, Members, NoPass, Up, Draining
<1>12. Waits'
  BY <1>1, <1>2, <1>3, <1>4, <1>5 DEF Waits, ConfigShape, Moved, Passed, Edited, Members, NoPass
<1>13. QED BY <1>6, <1>7, <1>8, <1>9, <1>10, <1>11, <1>12 DEF Inv

LEMMA RemoteIdleKeeps ==
  ASSUME Inv, pass # NoPass, RemoteIdle
  PROVE  Inv'
<1>1. /\ PoolShape /\ HostShape /\ PassShape /\ ConfigShape
      /\ Agreement /\ Resting /\ Packed /\ Placed /\ Frozen /\ Waits
  BY DEF Inv, Shape
<1>2. UNCHANGED <<pool, remote, local, files, job, config>> /\ pass.at = "final" /\ pass.m \in Members
  BY <1>1 DEF RemoteIdle, Outside, At, M, Rec, Excess, PassShape, NoPass, Look
<1>3. \/ Moved("signal") /\ UNCHANGED service /\ job[pass.m] \notin {"assigned", "running"}
      \/ Passed /\ Edited(service, service', pass.m, "active")
  BY <1>1, <1>2, GotoMoves, NextPasses, EditIs
     DEF RemoteIdle, Look, ThawUnless, Points, HostShape, M, Busy, Worker
<1>4. /\ PassShape' /\ service' = [m \in Members |-> service'[m]]
      /\ \A m \in Members : service'[m] = service[m] \/ (m = pass.m /\ service'[m] = "active")
  BY <1>1, <1>3 DEF Moved, Passed, Edited, HostShape
<1>5. service[pass.m] = "frozen"
  BY <1>1, <1>2 DEF Frozen
<1>6. Shape'
  BY <1>1, <1>2, <1>3, <1>4, <1>5
     DEF Shape, PoolShape, HostShape, PassShape, ConfigShape, Moved, Passed, Edited, Members, Up,
         NoPass
<1>7. Agreement'
  BY <1>1, <1>2, <1>3, <1>4, <1>5
     DEF Agreement, Agrees, PoolShape, HostShape, Moved, Passed, Edited, Members, Bound, Up, Phases
<1>8. Resting'
  BY <1>1, <1>2, <1>3, <1>4, <1>5 DEF Resting, HostShape, Moved, Passed, Edited, Members, Up
<1>9. Packed'
  BY <1>1, <1>2, <1>3, <1>4, <1>5 DEF Packed, PassShape, Moved, Passed, Edited, Members, NoPass
<1>10. Placed'
  BY <1>1, <1>2, <1>3, <1>4, <1>5
     DEF Placed, PassShape, PoolShape, Moved, Passed, Edited, Members, Bound, Draining, NoPass
<1>11. Frozen'
  BY <1>1, <1>2, <1>3, <1>4, <1>5
     DEF Frozen, HostShape, PassShape, Moved, Passed, Edited, Members, NoPass, Up, Draining
<1>12. Waits'
  BY <1>1, <1>2, <1>3, <1>4, <1>5 DEF Waits, ConfigShape, Moved, Passed, Edited, Members, NoPass
<1>13. QED BY <1>6, <1>7, <1>8, <1>9, <1>10, <1>11, <1>12 DEF Inv

LEMMA SignalKeeps ==
  ASSUME Inv, pass # NoPass, Signal
  PROVE  Inv'
<1>1. /\ PoolShape /\ HostShape /\ PassShape /\ ConfigShape
      /\ Agreement /\ Resting /\ Packed /\ Placed /\ Frozen /\ Waits
  BY DEF Inv, Shape
<1>2. UNCHANGED <<pool, remote, local, files, job, config>> /\ pass.at = "signal" /\ pass.m \in Members
  BY <1>1 DEF Signal, Outside, At, M, Rec, Excess, PassShape, NoPass, Look
<1>3. Moved("stopped")
  BY <1>1, GotoMoves DEF Signal, Points, Look
<1>4. Edited(service, service', pass.m, "stopping")
  BY <1>1, <1>2, EditIs DEF Signal, HostShape, M
<1>5. Shape'
  BY <1>1, <1>2, <1>3, <1>4
     DEF Shape, PoolShape, HostShape, PassShape, ConfigShape, Moved, Edited, Members, Up, NoPass
<1>6. Agreement'
  BY <1>1, <1>2, <1>3, <1>4
     DEF Agreement, Agrees, PoolShape, HostShape, Moved, Edited, Members, Bound, Up, Phases, Placed,
         Draining
<1>7. Resting'
  BY <1>1, <1>2, <1>3, <1>4 DEF Resting, HostShape, Moved, Edited, Members, Up, Frozen
<1>8. Packed'
  BY <1>1, <1>2, <1>3, <1>4 DEF Packed, PassShape, Moved, Edited, Members, NoPass
<1>9. Placed'
  BY <1>1, <1>2, <1>3, <1>4
     DEF Placed, PassShape, PoolShape, Moved, Edited, Members, Bound, Draining, NoPass
<1>10. Frozen'
  BY <1>1, <1>2, <1>3, <1>4 DEF Frozen, HostShape, PassShape, Moved, Edited, Members, NoPass, Up, Draining
<1>11. Waits'
  BY <1>1, <1>2, <1>3, <1>4 DEF Waits, ConfigShape, Moved, Edited, Members, NoPass
<1>12. QED BY <1>5, <1>6, <1>7, <1>8, <1>9, <1>10, <1>11 DEF Inv

LEMMA CleanUpKeeps ==
  ASSUME Inv, pass # NoPass, CleanUp
  PROVE  Inv'
<1>1. /\ PoolShape /\ HostShape /\ PassShape /\ ConfigShape
      /\ Agreement /\ Resting /\ Packed /\ Placed /\ Frozen /\ Waits
  BY DEF Inv, Shape
<1>2. /\ UNCHANGED <<pool, remote, service, files, job, config>> /\ pass.at = "member"
      /\ pass.m \in Members /\ pool.rec[pass.m].phase = "remove" /\ ~remote[pass.m].ours
  BY <1>1 DEF CleanUp, Outside, At, M, Rec, Excess, PassShape, NoPass, NoRunner
<1>3. Moved("retire")
  BY <1>1, GotoMoves DEF CleanUp, Points
<1>4. Edited(local, local', pass.m, 0)
  BY <1>1, <1>2, EditIs DEF CleanUp, HostShape, M
<1>5. Shape'
  BY <1>1, <1>2, <1>3, <1>4
     DEF Shape, PoolShape, HostShape, PassShape, ConfigShape, Moved, Edited, Members, Up, NoPass
<1>6. Resting'
  BY <1>1, <1>2, RestingSame
<1>7. Agreement'
  BY <1>1, <1>2, <1>3, <1>4
     DEF Agreement, Agrees, PoolShape, HostShape, Moved, Edited, Members, Bound, Up, Phases
<1>8. Packed'
  BY <1>1, <1>2, <1>3, <1>4 DEF Packed, PassShape, Moved, Edited, Members, NoPass
<1>9. Placed'
  BY <1>1, <1>2, <1>3, <1>4
     DEF Placed, PassShape, PoolShape, Moved, Edited, Members, Bound, Draining, NoPass
<1>10. Frozen'
  BY <1>1, <1>2, <1>3, <1>4 DEF Frozen, HostShape, PassShape, Moved, Edited, Members, NoPass, Up, Draining
<1>11. Waits'
  BY <1>1, <1>2, <1>3, <1>4 DEF Waits, ConfigShape, Moved, Edited, Members, NoPass
<1>12. QED BY <1>5, <1>6, <1>7, <1>8, <1>9, <1>10, <1>11 DEF Inv

LEMMA RetireKeeps ==
  ASSUME Inv, pass # NoPass, Retire
  PROVE  Inv'
<1>1. /\ PoolShape /\ HostShape /\ PassShape /\ ConfigShape
      /\ Agreement /\ Resting /\ Packed /\ Placed /\ Frozen /\ Waits
  BY DEF Inv, Shape
<1>2. UNCHANGED <<pool, remote, local, service, job, config>> /\ pass.at = "retire" /\ pass.m \in Members
  BY <1>1 DEF Retire, Outside, At, M, Rec, Excess, PassShape, NoPass
<1>3. Moved("drop") \/ UNCHANGED pass
  BY <1>1, <1>2, GotoMoves DEF Retire, Points
<1>4. PassShape'
  BY <1>1, <1>3 DEF Moved, PassShape
<1>5. files' = [m \in Members |-> files'[m]] /\ \A m \in Members \ {pass.m} : files'[m] = files[m]
  BY <1>1, <1>2 DEF Retire, HostShape, M
<1>6. Shape'
  BY <1>1, <1>2, <1>3, <1>4, <1>5
     DEF Shape, PoolShape, HostShape, PassShape, ConfigShape, Moved, Members, Up, NoPass
<1>7. Resting'
  BY <1>1, <1>2, RestingSame
<1>8. Agreement'
  BY <1>1, <1>2, <1>3, <1>4, <1>5
     DEF Agreement, Agrees, PoolShape, HostShape, Moved, Members, Bound, Up, Phases, Placed
<1>9. Packed'
  BY <1>1, <1>2, <1>3, <1>4, <1>5 DEF Packed, PassShape, Moved, Members, NoPass, Placed
<1>10. Placed'
  BY <1>1, <1>2, <1>3, <1>4, <1>5 DEF Placed, PassShape, PoolShape, Moved, Members, Bound, Draining, NoPass
<1>11. Frozen'
  BY <1>1, <1>2, <1>3, <1>4, <1>5 DEF Frozen, HostShape, PassShape, Moved, Members, NoPass, Up, Draining
<1>12. Waits'
  BY <1>1, <1>2, <1>3, <1>4, <1>5 DEF Waits, ConfigShape, Moved, Members, NoPass
<1>13. QED BY <1>6, <1>7, <1>8, <1>9, <1>10, <1>11, <1>12 DEF Inv

-----------------------------------------------------------------------------
(* The beginning and the early ends of a pass                              *)

\* A pass begins: the packages of its members are there.
LEMMA BeginKeeps ==
  ASSUME Inv, NEW c \in Consumers, NEW d \in Members, Begin(c, d)
  PROVE  Inv'
<1>1. /\ PoolShape /\ HostShape /\ PassShape /\ ConfigShape
      /\ Agreement /\ Resting /\ Packed /\ Placed /\ Frozen /\ Waits
  BY DEF Inv, Shape
<1>2. /\ UNCHANGED <<remote, local, service, job, config>> /\ config = NoConfig
      /\ pass' = [at |-> "member", desired |-> d, m |-> 1] /\ files' = Installed(d)
  BY <1>1 DEF Begin, Outside, At, M, Rec, Excess
<1>3. PassShape' /\ pass'.at = "member" /\ pass'.desired = d /\ pass'.m = 1 /\ pass' # NoPass
  BY <1>2, CapacityAssumption DEF PassShape, Points, Members, NoPass
<1>4. pool'.rec = pool.rec /\ PoolShape'
  BY <1>1 DEF Begin, PoolShape
<1>5. /\ files' = [m \in Members |-> files'[m]]
      /\ \A m \in Members : IF m <= d /\ pool.rec[m].phase # "remove" THEN files'[m] = "whole" ELSE files'[m] = files[m]
  BY <1>2 DEF Installed
<1>6. Shape'
  BY <1>1, <1>2, <1>3, <1>4, <1>5
     DEF Shape, PoolShape, HostShape, PassShape, ConfigShape, Members, Up, NoConfig, NoPass
<1>7. Resting'
  BY <1>1, <1>2, RestingSame
<1>8. Agreement'
  BY <1>1, <1>2, <1>3, <1>4, <1>5 DEF Agreement, Agrees, PoolShape, HostShape, Members, Bound, Up, Phases
<1>9. Packed'
  BY <1>1, <1>2, <1>3, <1>4, <1>5 DEF Packed, PassShape, Members, NoPass
<1>10. Placed'
  BY <1>1, <1>2, <1>3, <1>4, <1>5 DEF Placed, PassShape, PoolShape, Members, Bound, Draining, NoPass
<1>11. Frozen'
  BY <1>1, <1>2, <1>3, <1>4, <1>5 DEF Frozen, HostShape, PassShape, Members, NoPass, Up, Draining
<1>12. Waits'
  BY <1>1, <1>2, <1>3, <1>4, <1>5 DEF Waits, ConfigShape, Members, NoPass, NoConfig
<1>13. QED BY <1>6, <1>7, <1>8, <1>9, <1>10, <1>11, <1>12 DEF Inv

LEMMA RaiseKeeps ==
  ASSUME Inv, pass # NoPass, Raise
  PROVE  Inv'
<1>1. /\ PoolShape /\ HostShape /\ PassShape /\ ConfigShape
      /\ Agreement /\ Resting /\ Packed /\ Placed /\ Frozen /\ Waits
  BY DEF Inv, Shape
<1>2. /\ UNCHANGED <<pool, remote, local, files, job, config>> /\ pass' = NoPass /\ PassShape'
      /\ pass.m \in Members /\ service' = Thawed
  BY <1>1, NoneShape DEF Raise, Outside, At, M, Rec, Excess, PassShape
<1>3. /\ service' = [m \in Members |-> service'[m]]
      /\ \A m \in Members : service'[m] = service[m] \/ (service[m] = "frozen" /\ service'[m] = "active")
  BY <1>1, <1>2 DEF Thawed, HostShape, M
<1>4. Shape'
  BY <1>1, <1>2, <1>3 DEF Shape, PoolShape, HostShape, PassShape, ConfigShape, Members, Up, NoPass
<1>5. Agreement'
  BY <1>1, <1>2, <1>3 DEF Agreement, Agrees, PoolShape, HostShape, Members, Bound, Up, Phases
<1>6. Resting'
  BY <1>1, <1>2, <1>3 DEF Resting, HostShape, Members, Up
<1>7. Packed'
  BY <1>1, <1>2, <1>3 DEF Packed, PassShape, Members, NoPass
<1>8. Placed'
  BY <1>1, <1>2, <1>3 DEF Placed, PassShape, PoolShape, Members, Bound, Draining, NoPass
<1>9. Frozen'
  BY <1>1, <1>2, <1>3 DEF Frozen, HostShape, PassShape, Members, NoPass, Up, Draining
<1>10. Waits'
  BY <1>1, <1>2, <1>3 DEF Waits, ConfigShape, Members, NoPass
<1>11. QED BY <1>4, <1>5, <1>6, <1>7, <1>8, <1>9, <1>10 DEF Inv

LEMMA FailKeeps ==
  ASSUME Inv, pass # NoPass, Fail
  PROVE  Inv'
<1>1. /\ PoolShape /\ HostShape /\ PassShape /\ ConfigShape
      /\ Agreement /\ Resting /\ Packed /\ Placed /\ Frozen /\ Waits
  BY DEF Inv, Shape
<1>2. /\ UNCHANGED <<pool, remote, local, files, job, config>> /\ pass' = NoPass /\ PassShape'
      /\ pass.m \in Members /\ service' = Thawed
  BY <1>1, NoneShape DEF Fail, Outside, At, M, Rec, Excess, PassShape
<1>3. /\ service' = [m \in Members |-> service'[m]]
      /\ \A m \in Members : service'[m] = service[m] \/ (service[m] = "frozen" /\ service'[m] = "active")
  BY <1>1, <1>2 DEF Thawed, HostShape, M
<1>4. Shape'
  BY <1>1, <1>2, <1>3 DEF Shape, PoolShape, HostShape, PassShape, ConfigShape, Members, Up, NoPass
<1>5. Agreement'
  BY <1>1, <1>2, <1>3 DEF Agreement, Agrees, PoolShape, HostShape, Members, Bound, Up, Phases
<1>6. Resting'
  BY <1>1, <1>2, <1>3 DEF Resting, HostShape, Members, Up
<1>7. Packed'
  BY <1>1, <1>2, <1>3 DEF Packed, PassShape, Members, NoPass
<1>8. Placed'
  BY <1>1, <1>2, <1>3 DEF Placed, PassShape, PoolShape, Members, Bound, Draining, NoPass
<1>9. Frozen'
  BY <1>1, <1>2, <1>3 DEF Frozen, HostShape, PassShape, Members, NoPass, Up, Draining
<1>10. Waits'
  BY <1>1, <1>2, <1>3 DEF Waits, ConfigShape, Members, NoPass
<1>11. QED BY <1>4, <1>5, <1>6, <1>7, <1>8, <1>9, <1>10 DEF Inv

LEMMA DieKeeps ==
  ASSUME Inv, Die
  PROVE  Inv'
<1>1. /\ PoolShape /\ HostShape /\ PassShape /\ ConfigShape
      /\ Agreement /\ Resting /\ Packed /\ Placed /\ Frozen /\ Waits
  BY DEF Inv, Shape
<1>2. UNCHANGED <<pool, remote, local, service, files, job, config>> /\ pass' = NoPass /\ PassShape'
  BY <1>1, NoneShape DEF Die
<1>3. Shape'
  BY <1>1, <1>2 DEF Shape, PoolShape, HostShape, PassShape, ConfigShape, Members, Up, NoPass
<1>4. Agreement' /\ Resting'
  BY <1>1, <1>2, AgreementSame, RestingSame
<1>5. Packed'
  BY <1>1, <1>2 DEF Packed, PassShape, Members, NoPass
<1>6. Placed'
  BY <1>1, <1>2 DEF Placed, PassShape, PoolShape, Members, Bound, Draining, NoPass
<1>7. Frozen'
  BY <1>1, <1>2 DEF Frozen, HostShape, PassShape, Members, NoPass, Up, Draining
<1>8. Waits'
  BY <1>1, <1>2 DEF Waits, ConfigShape, Members, NoPass
<1>9. QED BY <1>3, <1>4, <1>5, <1>6, <1>7, <1>8 DEF Inv

-----------------------------------------------------------------------------
(* config.sh, systemd and GitHub                                           *)

LEMMA AddRemoteKeeps ==
  ASSUME Inv, AddRemote
  PROVE  Inv'
<1>1. /\ PoolShape /\ HostShape /\ PassShape /\ ConfigShape
      /\ Agreement /\ Resting /\ Packed /\ Placed /\ Frozen /\ Waits
  BY DEF Inv, Shape
<1>2. /\ UNCHANGED <<pool, local, service, files, job>> /\ UNCHANGED pass /\ config # NoConfig
      /\ config.m \in Members /\ config.step \in {"add"}
  BY <1>1 DEF AddRemote, ConfigStep, KeepHost, ConfigShape, NoConfig
<1>3. config' = NoConfig \/ config' \in {[m |-> config.m, step |-> to] : to \in {"added"}}
  BY <1>1 DEF AddRemote, ConfigStep, ConfigShape
<1>4. ConfigShape' /\ (config' # NoConfig => config'.m = config.m /\ config'.step \in {"added"})
  BY <1>2, <1>3 DEF ConfigShape, NoConfig
<1>5. Edited(remote, remote', config.m, [id |-> lastId', labels |-> TRUE, ours |-> TRUE])
  BY <1>1, <1>2, EditIs DEF AddRemote, HostShape
<1>6. remote'[config.m] = [id |-> remote'[config.m].id, labels |-> remote'[config.m].labels, ours |-> remote'[config.m].ours]
      /\ remote'[config.m].ours \in BOOLEAN
  BY <1>1, <1>2, <1>5 DEF Edited, NoRunner, HostShape
<1>7. HostShape'
  BY <1>1, <1>2, <1>5, <1>6 DEF HostShape, Edited
<1>8. Shape'
  BY <1>1, <1>2, <1>3, <1>4, <1>5, <1>6, <1>7
     DEF Shape, PoolShape, HostShape, PassShape, ConfigShape, Edited, Members, Up, NoConfig, NoPass
<1>9. Resting' /\ Packed' /\ Frozen'
  BY <1>1, <1>2, RestingSame, PackedSame, FrozenSame
<1>10. Agreement'
  BY <1>1, <1>2, <1>3, <1>4, <1>5, <1>6, <1>7
     DEF Agreement, Agrees, PoolShape, HostShape, Edited, Members, Bound, Up, Phases, Waits
<1>11. Placed'
  BY <1>1, <1>2, <1>3, <1>4, <1>5, <1>6, <1>7
     DEF Placed, PassShape, PoolShape, Edited, Members, Bound, Draining, NoPass, Waits
<1>12. Waits'
  BY <1>1, <1>2, <1>3, <1>4, <1>5, <1>6, <1>7 DEF Waits, ConfigShape, Edited, Members, NoPass, NoConfig
<1>13. QED BY <1>8, <1>9, <1>10, <1>11, <1>12 DEF Inv

LEMMA AddLocalKeeps ==
  ASSUME Inv, AddLocal
  PROVE  Inv'
<1>1. /\ PoolShape /\ HostShape /\ PassShape /\ ConfigShape
      /\ Agreement /\ Resting /\ Packed /\ Placed /\ Frozen /\ Waits
  BY DEF Inv, Shape
<1>2. /\ UNCHANGED <<pool, remote, service, files, job>> /\ UNCHANGED pass /\ config # NoConfig
      /\ config.m \in Members /\ config.step \in {"added", "adding"}
  BY <1>1 DEF AddLocal, ConfigStep, KeepHost, ConfigShape, NoConfig
<1>3. config' = NoConfig \/ config' \in {[m |-> config.m, step |-> to] : to \in {"adding"}}
  BY <1>1 DEF AddLocal, ConfigStep, ConfigShape
<1>4. ConfigShape' /\ (config' # NoConfig => config'.m = config.m /\ config'.step \in {"adding"})
  BY <1>2, <1>3 DEF ConfigShape, NoConfig
<1>5. Edited(local, local', config.m, Partial) \/ Edited(local, local', config.m, remote[config.m].id)
  BY <1>1, <1>2, EditIs DEF AddLocal, HostShape
<1>6. local' = [m \in Members |-> local'[m]] /\ \A m \in Members \ {config.m} : local'[m] = local[m]
  BY <1>5 DEF Edited
<1>7. Shape'
  BY <1>1, <1>2, <1>3, <1>4, <1>5, <1>6
     DEF Shape, PoolShape, HostShape, PassShape, ConfigShape, Edited, Members, Up, NoConfig, NoPass
<1>8. Resting' /\ Packed' /\ Frozen'
  BY <1>1, <1>2, RestingSame, PackedSame, FrozenSame
<1>9. Agreement'
  BY <1>1, <1>2, <1>3, <1>4, <1>5, <1>6
     DEF Agreement, Agrees, PoolShape, HostShape, Edited, Members, Bound, Up, Phases, Waits
<1>10. Placed'
  BY <1>1, <1>2, <1>3, <1>4, <1>5, <1>6
     DEF Placed, PassShape, PoolShape, Edited, Members, Bound, Draining, NoPass, Waits
<1>11. Waits'
  BY <1>1, <1>2, <1>3, <1>4, <1>5, <1>6 DEF Waits, ConfigShape, Edited, Members, NoPass, NoConfig
<1>12. QED BY <1>7, <1>8, <1>9, <1>10, <1>11 DEF Inv

LEMMA DeleteRemoteKeeps ==
  ASSUME Inv, DeleteRemote
  PROVE  Inv'
<1>1. /\ PoolShape /\ HostShape /\ PassShape /\ ConfigShape
      /\ Agreement /\ Resting /\ Packed /\ Placed /\ Frozen /\ Waits
  BY DEF Inv, Shape
<1>2. /\ UNCHANGED <<pool, local, service, files, job>> /\ UNCHANGED pass /\ config # NoConfig
      /\ config.m \in Members /\ config.step \in {"delete"}
  BY <1>1 DEF DeleteRemote, ConfigStep, KeepHost, ConfigShape, NoConfig
<1>3. config' = NoConfig \/ config' \in {[m |-> config.m, step |-> to] : to \in {"deleted"}}
  BY <1>1 DEF DeleteRemote, ConfigStep, ConfigShape
<1>4. ConfigShape' /\ (config' # NoConfig => config'.m = config.m /\ config'.step \in {"deleted"})
  BY <1>2, <1>3 DEF ConfigShape, NoConfig
<1>5. \/ Edited(remote, remote', config.m, NoRunner)
      \/ Edited(remote, remote', config.m, remote[config.m])
  BY <1>1, <1>2, EditIs DEF DeleteRemote, HostShape
<1>6. /\ remote' = [m \in Members |-> remote'[m]] /\ \A m \in Members \ {config.m} : remote'[m] = remote[m]
      /\ remote'[config.m] \in {NoRunner, remote[config.m]}
  BY <1>5 DEF Edited
<1>7. remote'[config.m] = [id |-> remote'[config.m].id, labels |-> remote'[config.m].labels, ours |-> remote'[config.m].ours]
      /\ remote'[config.m].ours \in BOOLEAN
  <2>1. CASE Edited(remote, remote', config.m, NoRunner)
    BY <2>1 DEF Edited, NoRunner
  <2>2. CASE Edited(remote, remote', config.m, remote[config.m])
    <3>1. remote'[config.m] = remote[config.m]
      BY <2>2 DEF Edited
    <3>2. QED BY <1>1, <1>2, <3>1 DEF HostShape
  <2>3. QED BY <1>5, <2>1, <2>2
<1>8. HostShape'
  BY <1>1, <1>2, <1>6, <1>7 DEF HostShape, Edited
<1>9. Shape'
  BY <1>1, <1>2, <1>3, <1>4, <1>5, <1>6, <1>7, <1>8
     DEF Shape, PoolShape, HostShape, PassShape, ConfigShape, Edited, Members, Up, NoRunner,
         NoConfig, NoPass
<1>10. Resting' /\ Packed' /\ Frozen'
  BY <1>1, <1>2, RestingSame, PackedSame, FrozenSame
<1>11. Agreement'
  BY <1>1, <1>2, <1>3, <1>4, <1>5, <1>6, <1>7, <1>8
     DEF Agreement, Agrees, PoolShape, HostShape, Edited, Members, Bound, Up, NoRunner, Phases,
         Waits
<1>12. Placed'
  BY <1>1, <1>2, <1>3, <1>4, <1>5, <1>6, <1>7, <1>8
     DEF Placed, PassShape, PoolShape, Edited, Members, Bound, Draining, NoPass, NoRunner, Waits
<1>13. Waits'
  BY <1>1, <1>2, <1>3, <1>4, <1>5, <1>6, <1>7, <1>8
     DEF Waits, ConfigShape, Edited, Members, NoPass, NoConfig
<1>14. QED BY <1>9, <1>10, <1>11, <1>12, <1>13 DEF Inv

LEMMA DeleteLocalKeeps ==
  ASSUME Inv, DeleteLocal
  PROVE  Inv'
<1>1. /\ PoolShape /\ HostShape /\ PassShape /\ ConfigShape
      /\ Agreement /\ Resting /\ Packed /\ Placed /\ Frozen /\ Waits
  BY DEF Inv, Shape
<1>2. /\ UNCHANGED <<pool, remote, service, files, job>> /\ UNCHANGED pass /\ config # NoConfig
      /\ config.m \in Members /\ config.step \in {"deleted", "deleting"}
  BY <1>1 DEF DeleteLocal, ConfigStep, KeepHost, ConfigShape, NoConfig
<1>3. config' = NoConfig \/ config' \in {[m |-> config.m, step |-> to] : to \in {"deleting"}}
  BY <1>1 DEF DeleteLocal, ConfigStep, ConfigShape
<1>4. ConfigShape' /\ (config' # NoConfig => config'.m = config.m /\ config'.step \in {"deleting"})
  BY <1>2, <1>3 DEF ConfigShape, NoConfig
<1>5. Edited(local, local', config.m, Partial) \/ Edited(local, local', config.m, 0)
  BY <1>1, <1>2, EditIs DEF DeleteLocal, HostShape
<1>6. local' = [m \in Members |-> local'[m]] /\ \A m \in Members \ {config.m} : local'[m] = local[m]
  BY <1>5 DEF Edited
<1>7. Shape'
  BY <1>1, <1>2, <1>3, <1>4, <1>5, <1>6
     DEF Shape, PoolShape, HostShape, PassShape, ConfigShape, Edited, Members, Up, NoConfig, NoPass
<1>8. Resting' /\ Packed' /\ Frozen'
  BY <1>1, <1>2, RestingSame, PackedSame, FrozenSame
<1>9. Agreement'
  BY <1>1, <1>2, <1>3, <1>4, <1>5, <1>6
     DEF Agreement, Agrees, PoolShape, HostShape, Edited, Members, Bound, Up, Phases, Waits
<1>10. Placed'
  BY <1>1, <1>2, <1>3, <1>4, <1>5, <1>6
     DEF Placed, PassShape, PoolShape, Edited, Members, Bound, Draining, NoPass, Waits
<1>11. Waits'
  BY <1>1, <1>2, <1>3, <1>4, <1>5, <1>6 DEF Waits, ConfigShape, Edited, Members, NoPass, NoConfig
<1>12. QED BY <1>7, <1>8, <1>9, <1>10, <1>11 DEF Inv

LEMMA ConfigDiesKeeps ==
  ASSUME Inv, ConfigDies
  PROVE  Inv'
<1>1. /\ PoolShape /\ HostShape /\ PassShape /\ ConfigShape
      /\ Agreement /\ Resting /\ Packed /\ Placed /\ Frozen /\ Waits
  BY DEF Inv, Shape
<1>2. /\ UNCHANGED <<pool, remote, local, service, files, job>> /\ pass' = NoPass /\ PassShape'
      /\ config' = NoConfig /\ ConfigShape'
  BY <1>1, NoneShape DEF ConfigDies, ConfigShape, NoConfig
<1>3. Shape'
  BY <1>1, <1>2 DEF Shape, PoolShape, HostShape, PassShape, ConfigShape, Members, Up, NoConfig, NoPass
<1>4. Agreement' /\ Resting'
  BY <1>1, <1>2, AgreementSame, RestingSame
<1>5. Packed'
  BY <1>1, <1>2 DEF Packed, PassShape, Members, NoPass
<1>6. Placed'
  BY <1>1, <1>2 DEF Placed, PassShape, PoolShape, Members, Bound, Draining, NoPass
<1>7. Frozen'
  BY <1>1, <1>2 DEF Frozen, HostShape, PassShape, Members, NoPass, Up, Draining
<1>8. Waits'
  BY <1>1, <1>2 DEF Waits, ConfigShape, Members, NoPass, NoConfig
<1>9. QED BY <1>3, <1>4, <1>5, <1>6, <1>7, <1>8 DEF Inv

LEMMA StopDoneKeeps ==
  ASSUME Inv, NEW m \in Members, StopDone(m)
  PROVE  Inv'
<1>1. /\ PoolShape /\ HostShape /\ PassShape /\ ConfigShape
      /\ Agreement /\ Resting /\ Packed /\ Placed /\ Frozen /\ Waits
  BY DEF Inv, Shape
<1>2. UNCHANGED <<pool, remote, local, files, config, pass>> /\ service[m] = "stopping"
  BY DEF StopDone
<1>3. Edited(service, service', m, "inactive") /\ Edited(job, job', m, "none")
  BY <1>1, EditIs DEF StopDone, HostShape
<1>4. Shape'
  BY <1>1, <1>2, <1>3 DEF Shape, PoolShape, HostShape, PassShape, ConfigShape, Edited, Members, Up, NoPass
<1>5. Packed' /\ Waits'
  BY <1>1, <1>2, PackedSame, WaitsSame
<1>6. Agreement'
  BY <1>1, <1>2, <1>3 DEF Agreement, Agrees, PoolShape, HostShape, Edited, Members, Bound, Up, Phases
<1>7. Resting'
  BY <1>1, <1>2, <1>3 DEF Resting, HostShape, Edited, Members, Up
<1>8. Placed'
  BY <1>1, <1>2, <1>3 DEF Placed, PassShape, PoolShape, Edited, Members, Bound, Draining, NoPass
<1>9. Frozen'
  BY <1>1, <1>2, <1>3 DEF Frozen, HostShape, PassShape, Edited, Members, NoPass, Up, Draining
<1>10. QED BY <1>4, <1>5, <1>6, <1>7, <1>8, <1>9 DEF Inv

LEMMA ExpireKeeps ==
  ASSUME Inv, NEW m \in Members, Expire(m)
  PROVE  Inv'
<1>1. /\ PoolShape /\ HostShape /\ PassShape /\ ConfigShape
      /\ Agreement /\ Resting /\ Packed /\ Placed /\ Frozen /\ Waits
  BY DEF Inv, Shape
<1>2. UNCHANGED <<pool, local, service, files, job, config, pass>>
  BY DEF Expire
<1>3. Edited(remote, remote', m, NoRunner)
  BY <1>1, EditIs DEF Expire, HostShape
<1>4. remote'[m] = [id |-> remote'[m].id, labels |-> remote'[m].labels, ours |-> remote'[m].ours]
      /\ remote'[m].ours \in BOOLEAN
  BY <1>1, <1>2, <1>3 DEF Edited, NoRunner, HostShape
<1>5. Shape'
  BY <1>1, <1>2, <1>3, <1>4
     DEF Shape, PoolShape, HostShape, PassShape, ConfigShape, Edited, Members, Up, NoRunner, NoPass
<1>6. Resting' /\ Packed' /\ Frozen' /\ Waits'
  BY <1>1, <1>2, RestingSame, PackedSame, FrozenSame, WaitsSame
<1>7. Agreement'
  BY <1>1, <1>2, <1>3, <1>4
     DEF Agreement, Agrees, PoolShape, HostShape, Edited, Members, Bound, Up, NoRunner, Phases
<1>8. Placed'
  BY <1>1, <1>2, <1>3, <1>4
     DEF Placed, PassShape, PoolShape, Edited, Members, Bound, Draining, NoPass, NoRunner
<1>9. QED BY <1>5, <1>6, <1>7, <1>8 DEF Inv

LEMMA ForeignKeeps ==
  ASSUME Inv, NEW m \in Members, Foreign(m)
  PROVE  Inv'
<1>1. /\ PoolShape /\ HostShape /\ PassShape /\ ConfigShape
      /\ Agreement /\ Resting /\ Packed /\ Placed /\ Frozen /\ Waits
  BY DEF Inv, Shape
<1>2. UNCHANGED <<pool, local, service, files, job, config, pass>>
  BY DEF Foreign
<1>3. Edited(remote, remote', m, [id |-> lastId', labels |-> TRUE, ours |-> FALSE])
  BY <1>1, EditIs DEF Foreign, HostShape
<1>4. remote'[m] = [id |-> remote'[m].id, labels |-> remote'[m].labels, ours |-> remote'[m].ours]
      /\ remote'[m].ours \in BOOLEAN
  BY <1>1, <1>2, <1>3 DEF Edited, NoRunner, HostShape
<1>5. Shape'
  BY <1>1, <1>2, <1>3, <1>4
     DEF Shape, PoolShape, HostShape, PassShape, ConfigShape, Edited, Members, Up, NoPass
<1>6. Resting' /\ Packed' /\ Frozen' /\ Waits'
  BY <1>1, <1>2, RestingSame, PackedSame, FrozenSame, WaitsSame
<1>7. Agreement'
  BY <1>1, <1>2, <1>3, <1>4 DEF Agreement, Agrees, PoolShape, HostShape, Edited, Members, Bound, Up, Phases
<1>8. Placed'
  BY <1>1, <1>2, <1>3, <1>4 DEF Placed, PassShape, PoolShape, Edited, Members, Bound, Draining, NoPass
<1>9. QED BY <1>5, <1>6, <1>7, <1>8 DEF Inv

-----------------------------------------------------------------------------
(* The jobs                                                                *)

\* The jobs: none moves unless its unit is active, or it is lost.
LEMMA JobKeeps ==
  ASSUME Inv, NEW m \in Members, NEW to \in {"none", "matched", "assigned", "running", "lost"},
         Edited(job, job', m, to), UNCHANGED <<pool, remote, local, service, files, config, pass>>,
         \/ to \in {"none", "matched"}
         \/ service[m] = "active"
         \/ service[m] = "frozen" /\ job[m] \in {"running", "lost"}
  PROVE  Inv'
<1>1. /\ PoolShape /\ HostShape /\ PassShape /\ ConfigShape
      /\ Agreement /\ Resting /\ Packed /\ Placed /\ Frozen /\ Waits
  BY DEF Inv, Shape
<1>2. Shape'
  BY <1>1 DEF Shape, PoolShape, HostShape, PassShape, ConfigShape, Edited
<1>3. Agreement' /\ Packed' /\ Placed' /\ Waits'
  BY <1>1, AgreementSame, PackedSame, PlacedSame, WaitsSame
<1>4. Resting'
  BY <1>1 DEF Resting, Edited, Up
<1>5. Frozen'
  BY <1>1 DEF Frozen, Edited, PassShape, NoPass
<1>6. QED BY <1>2, <1>3, <1>4, <1>5 DEF Inv

LEMMA JobsKeep ==
  ASSUME Inv, NEW m \in Members, Jobs(m)
  PROVE  Inv'
<1>1. HostShape
  BY DEF Inv, Shape
<1>2. ASSUME NEW from, NEW to, SetJob(m, from, to)
      PROVE  job[m] = from /\ Edited(job, job', m, to) /\ UNCHANGED <<pool, remote, local, service, files, config, pass>>
  BY <1>1, <1>2, EditIs DEF SetJob, HostShape
<1>3. CASE Match(m) \/ Requeue(m)
  BY <1>2, <1>3, JobKeeps DEF Match, Requeue
<1>4. CASE Acquire(m) \/ Spawn(m)
  BY <1>2, <1>4, JobKeeps DEF Acquire, Spawn
<1>5. CASE EndJob(m)
  BY <1>2, <1>5, JobKeeps DEF EndJob
<1>6. CASE Lose(m)
  BY <1>2, <1>6, JobKeeps DEF Lose, Worker, Busy
<1>7. CASE \E c \in Consumers : BeginAttempt(m, c)
  BY <1>2, <1>7, JobKeeps DEF BeginAttempt
<1>8. CASE EndAttempt(m)
  <2>1. UNCHANGED <<pool, remote, local, service, files, job, config, pass>>
    BY <1>8 DEF EndAttempt
  <2>2. QED BY <2>1, AgreementSame, RestingSame, PackedSame, PlacedSame, FrozenSame, WaitsSame
            DEF Inv, Shape, PoolShape, HostShape, PassShape, ConfigShape
<1>9. QED BY <1>3, <1>4, <1>5, <1>6, <1>7, <1>8 DEF Jobs

-----------------------------------------------------------------------------
(* The theorems                                                            *)

LEMMA InitEstablishes == Init => Inv
<1> SUFFICES ASSUME Init PROVE Inv OBVIOUS
<1>1. /\ pool = [owner |-> NoConsumer, desired |-> 0, consumers |-> {}, rec |-> [m \in Members |-> NoRecord]]
      /\ remote = [m \in Members |-> NoRunner] /\ local = [m \in Members |-> 0]
      /\ service = [m \in Members |-> "inactive"] /\ files = [m \in Members |-> "absent"]
      /\ job = [m \in Members |-> "none"] /\ config = NoConfig /\ pass = NoPass
  BY DEF Init
<1>2. PoolShape
  BY <1>1 DEF PoolShape, NoRecord
<1>3. HostShape /\ PassShape /\ ConfigShape
  BY <1>1 DEF HostShape, PassShape, ConfigShape, NoRunner, NoPass, NoConfig
<1>4. Agreement /\ Resting
  BY <1>1 DEF Agreement, Agrees, Resting, NoRunner, NoRecord, Bound
<1>5. Packed /\ Placed /\ Frozen /\ Waits
  BY <1>1 DEF Packed, Placed, Frozen, Waits, NoPass, Draining
<1>6. QED BY <1>2, <1>3, <1>4, <1>5 DEF Inv, Shape

LEMMA StepKeeps == Inv /\ [Next]_vars => Inv'
<1> SUFFICES ASSUME Inv, [Next]_vars PROVE Inv' OBVIOUS
<1>1. CASE \E c \in Consumers, d \in Members : Begin(c, d)
  BY <1>1, BeginKeeps
<1>2. CASE pass # NoPass /\ Register
  BY <1>2, SkipKeeps, ReserveKeeps, ConfigureKeeps, ConfiguredKeeps, RegisteredKeeps, LabelKeeps,
     StartingKeeps, StartServiceKeeps, WaitReadyKeeps DEF Register
<1>3. CASE pass # NoPass /\ Unregister
  BY <1>3, DrainKeeps, UnlabelKeeps, ReadBusyKeeps, ReadAttemptsKeeps, AlreadyStoppedKeeps, FreezeKeeps,
     InspectKeeps, RemoteIdleKeeps, SignalKeeps, StoppedKeeps, RemoveKeeps, RemovedKeeps, CleanUpKeeps,
     RetireKeeps, DropKeeps DEF Unregister
<1>4. CASE (pass # NoPass /\ Raise) \/ Fail \/ Die
  BY <1>4, RaiseKeeps, FailKeeps, DieKeeps DEF Fail
<1>5. CASE ConfigSh \/ ConfigDies
  BY <1>5, AddRemoteKeeps, AddLocalKeeps, DeleteRemoteKeeps, DeleteLocalKeeps, ConfigDiesKeeps DEF ConfigSh
<1>6. CASE \E m \in Members : StopDone(m) \/ Jobs(m) \/ Expire(m) \/ Foreign(m)
  BY <1>6, StopDoneKeeps, JobsKeep, ExpireKeeps, ForeignKeeps
<1>7. CASE UNCHANGED vars
  <2>1. UNCHANGED <<pool, remote, local, service, files, job, config, pass>>
    BY <1>7 DEF vars
  <2>2. QED BY <2>1, AgreementSame, RestingSame, PackedSame, PlacedSame, FrozenSame, WaitsSame
            DEF Inv, Shape, PoolShape, HostShape, PassShape, ConfigShape
<1>8. QED BY <1>1, <1>2, <1>3, <1>4, <1>5, <1>6, <1>7 DEF Next, Reconcile

(* What pool.json says, the host and GitHub agree in every state, whoever
   dies (managed_pool.py). *)
THEOREM PoolInvariance == Spec => []Inv
<1>1. QED BY InitEstablishes, StepKeeps, PTL DEF Spec

(* No pass takes the unit, the registration or the package from under a job,
   whenever GitHub hands it out (managed_pool.py, stop_idle). *)
THEOREM JobsAreSafe == Spec => []JobsKeepTheirRunner
<1>1. Inv => JobsKeepTheirRunner
  <2> SUFFICES ASSUME Inv, NEW m \in Members, Busy(m) \/ Worker(m)
               PROVE  /\ service[m] \in {"active", "frozen"} /\ files[m] = "whole"
                      /\ local[m] # 0 /\ pool.rec[m].phase # "remove"
    BY DEF JobsKeepTheirRunner
  <2>1. Agrees(m)
    BY DEF Inv, Agreement
  <2>2. service[m] \in Up
    BY DEF Inv, Resting, Busy, Worker
  <2>3. pool.rec[m].phase \in {"starting", "ready", "draining"}
    BY <2>1, <2>2 DEF Agrees, Up
  <2>4. QED BY <2>1, <2>2, <2>3 DEF Agrees, Bound, Up
<1>2. QED BY <1>1, PoolInvariance, PTL

(* Whatever config.sh registered is in pool.json, with the same id
   (managed_pool.py, reconcile). *)
THEOREM RegistrationsHaveOwners == Spec => []RegistrationsAreOwned
<1>1. Inv => RegistrationsAreOwned
  BY DEF Inv, Agreement, Agrees, RegistrationsAreOwned, NoRecord
<1>2. QED BY <1>1, PoolInvariance, PTL

(* A ready record has its unit up (managed_pool.py, reconcile). *)
THEOREM ReadyMembersAreUp == Spec => []ReadyIsUp
<1>1. Inv => ReadyIsUp
  BY DEF Inv, Agreement, Agrees, ReadyIsUp, Up
<1>2. QED BY <1>1, PoolInvariance, PTL

=============================================================================
