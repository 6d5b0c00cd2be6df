------------------------- MODULE FreshInstallProofs -------------------------
(***************************************************************************)
(* Theorems about FreshInstall, for all pairs, runners and surroundings    *)
(* and any number of failures.  Neither the registration of a runner nor   *)
(* the TLS phases rely on the command that starts them: whatever it is     *)
(* doing and however it ends, the durable markers alone keep a second      *)
(* registration, a foreign key and an unrehearsed order away.  A ready     *)
(* installation does rely on its command: the schedule was composed from   *)
(* what was found when the command began, and what is not in it must stay. *)
(***************************************************************************)
EXTENDS FreshInstall, TLAPS

-----------------------------------------------------------------------------
(* Registration                                                            *)

Rows == [pending : BOOLEAN, local : {"none", "rsa", "full"}, agents : Nat, enabled : BOOLEAN]

\* A registration that may exist at GitHub leaves a trace on the host.
Traced(r) == /\ runner[r].agents <= 1
             /\ runner[r].agents # 0 => runner[r].pending \/ runner[r].local # "none"

\* A helper that has passed its look at the host works on a name without registration.
Fresh(r) == runner[r].local = "none" /\ runner[r].agents = 0
Claimed == /\ H \in Runners /\ helper.at = "reserve" => ~runner[H].pending /\ Fresh(H)
           /\ H \in Runners /\ helper.at \in {"configure", "rejected"} => Fresh(H)
           /\ H \in Runners /\ helper.at = "clear" => runner[H].local = "full"

HelperShape == helper = [runner |-> helper.runner, at |-> helper.at, token |-> helper.token]

RegistrationInv == /\ runner \in [Runners -> Rows] /\ HelperShape
                   /\ \A r \in Runners : Traced(r)
                   /\ Claimed

\* Replacing one row keeps the shape, and all other rows.
LEMMA SetRow ==
  ASSUME runner \in [Runners -> Rows], NEW row, H \in Runners => row \in Rows, Set(row)
  PROVE  /\ runner' \in [Runners -> Rows]
         /\ H \in Runners => runner'[H] = row
         /\ \A r \in Runners : r # H => runner'[r] = runner[r]
  BY DEF Set, H

\* A step of the helper that writes a row: what the row and the helper's place must satisfy.
Admissible(row, at) ==
  /\ row \in Rows /\ row.agents <= 1
  /\ row.agents # 0 => row.pending \/ row.local # "none"
  /\ at = "reserve" => ~row.pending /\ row.local = "none" /\ row.agents = 0
  /\ at \in {"configure", "rejected"} => row.local = "none" /\ row.agents = 0
  /\ at = "clear" => row.local = "full"

LEMMA WriteRow ==
  ASSUME RegistrationInv, NEW row, NEW at, Set(row), Then(at),
         H \in Runners => Admissible(row, at)
  PROVE  RegistrationInv'
<1>1. /\ helper'.runner = H /\ helper'.at = at /\ HelperShape'
  BY DEF RegistrationInv, HelperShape, Then, H
<1>2. /\ runner' \in [Runners -> Rows]
      /\ H \in Runners => runner'[H] = row
      /\ \A r \in Runners : r # H => runner'[r] = runner[r]
  BY SetRow DEF RegistrationInv, Admissible
<1>3. \A r \in Runners : Traced(r)'
  BY <1>2 DEF RegistrationInv, Traced, Admissible
<1>4. Claimed'
  BY <1>1, <1>2 DEF Claimed, Fresh, Admissible, H
<1>5. QED BY <1>1, <1>2, <1>3, <1>4 DEF RegistrationInv

\* A step that only moves the helper.
LEMMA MoveHelper ==
  ASSUME RegistrationInv, NEW at, Then(at), UNCHANGED runner,
         H \in Runners => Admissible(Row, at)
  PROVE  RegistrationInv'
<1>1. /\ helper'.runner = H /\ helper'.at = at /\ HelperShape'
  BY DEF RegistrationInv, HelperShape, Then, H
<1>2. Claimed'
  BY <1>1 DEF Claimed, Fresh, Admissible, H, Row
<1>3. QED BY <1>1, <1>2 DEF RegistrationInv, Traced

LEMMA RowMarked ==
  ASSUME NEW row \in Rows, NEW p \in BOOLEAN
  PROVE  /\ [row EXCEPT !.pending = p] \in Rows /\ [row EXCEPT !.pending = p].pending = p
         /\ [row EXCEPT !.pending = p].local = row.local /\ [row EXCEPT !.pending = p].agents = row.agents
  BY DEF Rows

LEMMA RunnerStepKeeps == RegistrationInv /\ RunnerStep => RegistrationInv'
<1> SUFFICES ASSUME RegistrationInv, RunnerStep PROVE RegistrationInv' OBVIOUS
<1>r. H \in Runners => /\ Row \in Rows /\ Traced(H)
  BY DEF RegistrationInv, Row
<1>1. CASE Reconcile
  BY <1>1, <1>r, MoveHelper DEF Reconcile, Row, Admissible, Traced
<1>2. CASE Inspect
  BY <1>2, <1>r, MoveHelper DEF Inspect, Vacant, Row, Admissible, Traced, Rows
<1>3. CASE Decline
  BY <1>3, <1>r, MoveHelper DEF Decline, Row, Admissible, Traced, Rows
<1>4. CASE Reserve
  <2> DEFINE row == [Row EXCEPT !.pending = TRUE]
  <2>1. H \in Runners => Admissible(row, "configure")
    <3>1. H \in Runners => /\ row \in Rows /\ row.pending = TRUE
                           /\ row.local = Row.local /\ row.agents = Row.agents
      BY <1>r, RowMarked
    <3>2. H \in Runners => Fresh(H)
      BY <1>4 DEF Reserve, Helping, RegistrationInv, Claimed
    <3>3. QED BY <3>1, <3>2 DEF Admissible, Fresh, Row
  <2>2. QED BY <1>4, <2>1, WriteRow DEF Reserve
<1>5. CASE Configure
  <2> DEFINE row == [Row EXCEPT !.local = "full", !.agents = @ + 1]
  <2>1. H \in Runners => Admissible(row, "clear")
    <3>1. H \in Runners => Fresh(H)
      BY <1>5 DEF Configure, Helping, RegistrationInv, Claimed
    <3>2. H \in Runners => Row.agents + 1 = 1
      BY <3>1 DEF Fresh, Row
    <3>3. H \in Runners => row \in Rows /\ row.local = "full" /\ row.agents = 1
      <4> SUFFICES ASSUME H \in Runners PROVE row \in Rows /\ row.local = "full" /\ row.agents = 1
        OBVIOUS
      <4> DEFINE done == [Row EXCEPT !.local = "full", !.agents = 1]
      <4>1. row = done
        BY <3>2
      <4>2. done \in Rows /\ done.local = "full" /\ done.agents = 1
        BY <1>r DEF Rows
      <4>3. QED BY <4>1, <4>2
    <3>4. QED BY <3>3 DEF Admissible
  <2>2. QED BY <1>5, <2>1, WriteRow DEF Configure
<1>6. CASE ClearPending
  <2> DEFINE row == [Row EXCEPT !.pending = FALSE]
  <2>1. H \in Runners => Admissible(row, "done")
    <3>1. H \in Runners => /\ row \in Rows
                           /\ row.local = Row.local /\ row.agents = Row.agents
      BY <1>r, RowMarked
    <3>2. H \in Runners => Row.local = "full"
      BY <1>6 DEF ClearPending, Helping, RegistrationInv, Claimed, Row
    <3>3. QED BY <1>r, <3>1, <3>2 DEF Admissible, Traced, Row
  <2>2. QED BY <1>6, <2>1, WriteRow DEF ClearPending
<1>7. CASE ClearReject
  <2> DEFINE row == [Row EXCEPT !.pending = FALSE]
  <2>1. H \in Runners => Admissible(row, "failed")
    <3>1. H \in Runners => row \in Rows /\ row.agents = Row.agents
      BY <1>r, RowMarked
    <3>2. H \in Runners => Fresh(H)
      BY <1>7 DEF ClearReject, Helping, RegistrationInv, Claimed
    <3>3. QED BY <3>1, <3>2 DEF Admissible, Fresh, Row
  <2>2. QED BY <1>7, <2>1, WriteRow DEF ClearReject
<1>8. QED BY <1>1, <1>2, <1>3, <1>4, <1>5, <1>6, <1>7 DEF RunnerStep

\* An end of config.sh that proves nothing leaves the marker.
LEMMA UnknownKeeps ==
  ASSUME RegistrationInv, Helping("configure"), Unknown(TRUE),
         Then("failed") \/ helper' = NoHelper
  PROVE  RegistrationInv'
<1>1. PICK key \in {"none", "rsa"}, a \in {0, 1} :
        Set([Row EXCEPT !.pending = TRUE, !.local = key, !.agents = @ + a])
  BY DEF Unknown
<1> DEFINE row == [Row EXCEPT !.pending = TRUE, !.local = key, !.agents = Row.agents + a]
<1>2. H \in Runners => row \in Rows /\ row.pending = TRUE /\ row.agents <= 1
  <2> SUFFICES ASSUME H \in Runners PROVE row \in Rows /\ row.pending = TRUE /\ row.agents <= 1
    OBVIOUS
  <2>1. Row \in Rows /\ Row.agents = 0
    BY DEF RegistrationInv, Helping, Claimed, Fresh, Row
  <2> DEFINE tried == [Row EXCEPT !.pending = TRUE, !.local = key, !.agents = a]
  <2>2. row = tried
    BY <2>1, Row.agents + a = a
  <2>3. a \in Nat /\ a <= 1 /\ key \in {"none", "rsa", "full"}
    OBVIOUS
  <2> DEFINE marked == [Row EXCEPT !.pending = TRUE]
             keyed  == [marked EXCEPT !.local = key]
  <2>4. marked \in Rows /\ marked.pending = TRUE
    BY <2>1 DEF Rows
  <2>5. keyed \in Rows /\ keyed.pending = TRUE
    BY <2>3, <2>4 DEF Rows
  <2> HIDE DEF keyed
  <2>6. [keyed EXCEPT !.agents = a] \in Rows
    BY <2>3, <2>5 DEF Rows
  <2>7. [keyed EXCEPT !.agents = a].pending = TRUE /\ [keyed EXCEPT !.agents = a].agents = a
    BY <2>5 DEF Rows
  <2>8. tried = [keyed EXCEPT !.agents = a]
    BY DEF keyed
  <2>9. QED BY <2>2, <2>3, <2>6, <2>7, <2>8
<1>3. CASE Then("failed")
  <2>1. H \in Runners => Admissible(row, "failed")
    BY <1>2 DEF Admissible
  <2>2. Set(row)
    BY <1>1
  <2>3. QED BY <1>3, <2>1, <2>2, WriteRow
<1>4. CASE helper' = NoHelper
  <2>1. /\ runner' \in [Runners -> Rows]
        /\ H \in Runners => runner'[H] = row
        /\ \A r \in Runners : r # H => runner'[r] = runner[r]
    BY <1>1, <1>2, SetRow DEF RegistrationInv
  <2>2. \A r \in Runners : Traced(r)'
    BY <1>2, <2>1 DEF RegistrationInv, Traced
  <2>3. Claimed' /\ HelperShape'
    BY <1>4 DEF Claimed, HelperShape, NoHelper
  <2>4. QED BY <2>1, <2>2, <2>3 DEF RegistrationInv
<1>5. QED BY <1>3, <1>4

LEMMA RejectKeeps == RegistrationInv /\ Reject => RegistrationInv'
<1> SUFFICES ASSUME RegistrationInv, Reject PROVE RegistrationInv' OBVIOUS
<1>1. H \in Runners => Admissible(Row, "rejected")
  BY DEF RegistrationInv, Reject, Helping, Claimed, Fresh, Admissible, Row
<1>2. QED BY <1>1, MoveHelper DEF Reject

LEMMA DiagnoseKeeps == ASSUME RegistrationInv, NEW r \in Runners, Diagnose(r) PROVE RegistrationInv'
<1>1. Blank \in Rows /\ Blank.agents = 0 /\ Blank.local = "none" /\ Blank.pending = FALSE
  BY DEF Blank, Rows
<1>2. runner' = [runner EXCEPT ![r] = Blank] /\ helper' = helper /\ runner[r].local # "full"
  BY DEF Diagnose
<1>3. /\ runner' \in [Runners -> Rows] /\ runner'[r] = Blank
      /\ \A q \in Runners : q # r => runner'[q] = runner[q]
  BY <1>1, <1>2 DEF RegistrationInv
<1>4. \A q \in Runners : Traced(q)'
  BY <1>1, <1>3 DEF RegistrationInv, Traced
<1>5. Claimed' /\ HelperShape'
  BY <1>1, <1>2, <1>3 DEF RegistrationInv, HelperShape, Claimed, Fresh, H
<1>6. QED BY <1>3, <1>4, <1>5 DEF RegistrationInv

LEMMA EnableKeeps == ASSUME RegistrationInv, NEW r, Enable(r) PROVE RegistrationInv'
<1> DEFINE row == [runner[r] EXCEPT !.enabled = TRUE]
<1>1. runner' = [runner EXCEPT ![r] = row] /\ helper' = helper
  BY DEF Enable
<1>2. r \in Runners => /\ row \in Rows /\ row.agents = runner[r].agents
                       /\ row.local = runner[r].local /\ row.pending = runner[r].pending
  BY DEF RegistrationInv, Rows
<1>3. runner' \in [Runners -> Rows]
  BY <1>1, <1>2 DEF RegistrationInv
<1>4. \A q \in Runners : /\ runner'[q].agents = runner[q].agents /\ runner'[q].local = runner[q].local
                          /\ runner'[q].pending = runner[q].pending
  BY <1>1, <1>2 DEF RegistrationInv
<1>5. QED BY <1>1, <1>3, <1>4 DEF RegistrationInv, Traced, HelperShape, Claimed, Fresh, H

\* A helper that starts, or ends, has looked at nothing.
LEMMA OtherHelperKeeps ==
  ASSUME RegistrationInv, UNCHANGED runner, HelperShape', helper'.at \in {"none", "inspect"}
  PROVE  RegistrationInv'
  BY DEF RegistrationInv, Traced, Claimed

LEMMA StartOrEnd ==
  ASSUME RegistrationInv, UNCHANGED runner,
         helper' = NoHelper \/ \E r, token : helper' = [runner |-> r, at |-> "inspect", token |-> token]
  PROVE  RegistrationInv'
<1>1. HelperShape' /\ helper'.at \in {"none", "inspect"}
  BY DEF HelperShape, NoHelper
<1>2. QED BY <1>1, OtherHelperKeeps

LEMMA RegistrationUnchanged == RegistrationInv /\ UNCHANGED registration => RegistrationInv'
  BY DEF registration, RegistrationInv, Traced, HelperShape, Claimed, Fresh, H

LEMMA JointKeepsRegistration == RegistrationInv /\ Joint => RegistrationInv'
<1> SUFFICES ASSUME RegistrationInv, Joint PROVE RegistrationInv' OBVIOUS
<1>1. CASE Publish \/ Activate \/ RunTls \/ TlsPassed
  <2>1. UNCHANGED registration
    BY <1>1 DEF Publish, Activate, RunTls, TlsPassed
  <2>2. QED BY <2>1, RegistrationUnchanged
<1>2. CASE EnableProduction \/ EnableGeneral
  BY <1>2, EnableKeeps DEF EnableProduction, EnableGeneral
<1>3. CASE RunRegister
  BY <1>3, StartOrEnd DEF RunRegister, StartHelper
<1>4. CASE Registers
  BY <1>4, StartOrEnd DEF Registers
<1>5. QED BY <1>1, <1>2, <1>3, <1>4 DEF Joint

LEMMA FailsKeepsRegistration == RegistrationInv /\ Fails => RegistrationInv'
<1> SUFFICES ASSUME RegistrationInv, Fails PROVE RegistrationInv' OBVIOUS
<1>1. CASE Fail
  BY <1>1, UnknownKeeps DEF Fail
<1>2. CASE Reject
  BY <1>2, RejectKeeps
<1>3. CASE UNCHANGED registration
  BY <1>3, RegistrationUnchanged
<1>4. QED BY <1>1, <1>2, <1>3 DEF Fails

LEMMA OwnerKeepsRegistration == RegistrationInv /\ Owner => RegistrationInv'
<1> SUFFICES ASSUME RegistrationInv, Owner PROVE RegistrationInv' OBVIOUS
<1>1. CASE Unregister
  BY <1>1, DiagnoseKeeps DEF Unregister
<1>2. CASE UNCHANGED registration
  BY <1>2, RegistrationUnchanged
<1>3. Repair => Unregister \/ UNCHANGED registration
  BY DEF Repair, Clean, OpenGate, Dispose
<1>4. Owner => Repair \/ UNCHANGED registration
  BY DEF Owner, Install, ExpertTls, ExpertRegister, ExpertRecorded, Expert, Command, Others, Provide
<1>5. QED BY <1>1, <1>2, <1>3, <1>4

LEMMA RegistrationKept == RegistrationInv /\ [Next]_vars => RegistrationInv'
<1> SUFFICES ASSUME RegistrationInv, [Next]_vars PROVE RegistrationInv' OBVIOUS
<1>1. CASE Owner
  BY <1>1, OwnerKeepsRegistration
<1>2. CASE PhaseStep
  <2>1. Joint \/ UNCHANGED registration
    BY <1>2 DEF PhaseStep
  <2>2. QED BY <2>1, JointKeepsRegistration, RegistrationUnchanged
<1>3. CASE ToolStep
  BY <1>3, RunnerStepKeeps, RegistrationUnchanged DEF ToolStep
<1>4. CASE Stops \/ Dies
  <2>1. Ends
    BY <1>4 DEF Stops, Dies
  <2>2. QED BY <2>1, StartOrEnd DEF Ends
<1>5. CASE DiesUnknown
  BY <1>5, UnknownKeeps DEF DiesUnknown
<1>6. CASE Fails
  BY <1>6, FailsKeepsRegistration
<1>7. CASE UNCHANGED vars
  BY <1>7, RegistrationUnchanged DEF vars
<1>8. QED BY <1>1, <1>2, <1>3, <1>4, <1>5, <1>6, <1>7 DEF Next

LEMMA RegistrationInit == Init => RegistrationInv
  BY DEF Init, RunnerInit, RegistrationInv, Rows, Blank, HelperShape, NoHelper, Traced, Claimed, Fresh

\* The markers trace every registration, beside whatever else the installation does
\* (relay-runner-registration.j2 with every end of its helper).
THEOREM RegistrationInvariance == Spec => []RegistrationInv
<1>1. QED BY RegistrationInit, RegistrationKept, PTL DEF Spec

\* GitHub never gets a second runner for a name before the owner has looked at the first attempt.
THEOREM RunnerRegisteredOnce == Spec => []RegisteredOnce
<1>1. RegistrationInv => RegisteredOnce
  BY DEF RegistrationInv, Traced, RegisteredOnce
<1>2. QED BY <1>1, RegistrationInvariance, PTL

-----------------------------------------------------------------------------
(* TLS                                                                     *)

TlsShape  == tls = [ca |-> tls.ca, marker |-> tls.marker, fragment |-> tls.fragment,
                    lineage |-> tls.lineage, key |-> tls.key, cert |-> tls.cert]
WorkShape == work = [phase |-> work.phase, at |-> work.at, saved |-> work.saved,
                     bound |-> work.bound, ok |-> work.ok, gen |-> work.gen]

\* While a pair is published its certificate is still missing, and the key is the copy's.
PairInv == /\ tls.cert # 0 => tls.key = tls.cert
           /\ Working("key") => tls.cert = 0
           /\ Working("cert") => tls.key = work.gen

BeforeOrder == work.at \in {"ca", "own", "plan", "order", "ask"}

\* A readable marker is the last rehearsal.  Whoever may order has taken it away, and an order is
\* bound to what it took.
RehearsalInv ==
  /\ env \in Envs
  /\ tls.marker \in Envs => rehearsed = tls.marker
  /\ Working("invalidate") => Acme
  /\ BeforeOrder /\ Acme => tls.marker \notin Envs
  /\ BeforeOrder /\ Issuing /\ work.saved \in Envs => rehearsed = work.saved
  /\ Working("order") \/ Working("ask") => Acme /\ work.bound \in Envs /\ (Issuing => work.saved = work.bound)
  /\ Working("invalidate") \/ BeforeOrder => work.ok = FALSE
  /\ Working("close") /\ work.ok = TRUE /\ ~Issuing => rehearsed = work.bound
  /\ Working("close") => work.ok \in BOOLEAN
  /\ Working("mark") => rehearsed = work.bound

TlsInv == TlsShape /\ WorkShape /\ PairInv /\ RehearsalInv

LEMMA InvalidIsNoEnv == Invalid \notin Envs /\ None \notin Envs /\ FirstEnv \in Envs
  BY EnvsAssumption DEF Invalid

LEMMA TlsStepKeeps == TlsInv /\ TlsStep => TlsInv'
<1> SUFFICES ASSUME TlsInv, TlsStep PROVE TlsInv' OBVIOUS
<1> USE InvalidIsNoEnv
    DEF TlsInv, TlsShape, WorkShape, PairInv, RehearsalInv, BeforeOrder, Working, Move, Files, NoFile,
        Issuing, Acme
<1>1. CASE Invalidate
  BY <1>1 DEF Invalidate
<1>2. CASE PrepareCa
  BY <1>2 DEF PrepareCa
<1>3. CASE OwnCa
  BY <1>3 DEF OwnCa
<1>4. CASE Reuse
  BY <1>4 DEF Reuse
<1>5. CASE Republish
  BY <1>5 DEF Republish
<1>6. CASE OpenChallenge
  BY <1>6 DEF OpenChallenge, Ready, Untouched
<1>7. CASE Order
  BY <1>7 DEF Order
<1>8. CASE Look \/ Moved
  BY <1>8 DEF Look, Moved, LookFails
<1>9. CASE Close
  BY <1>9 DEF Close
<1>10. CASE Mark
  BY <1>10 DEF Mark
<1>11. CASE Copy
  BY <1>11 DEF Copy
<1>12. CASE PublishKey
  BY <1>12 DEF PublishKey
<1>13. CASE PublishCert
  BY <1>13 DEF PublishCert
<1>14. CASE Refuse
  BY <1>14 DEF Refuse
<1>15. QED
  BY <1>1, <1>2, <1>3, <1>4, <1>5, <1>6, <1>7, <1>8, <1>9, <1>10, <1>11, <1>12, <1>13, <1>14 DEF TlsStep

LEMMA TlsUnchanged == TlsInv /\ UNCHANGED bootstrap => TlsInv'
  BY DEF bootstrap, TlsInv, TlsShape, WorkShape, PairInv, RehearsalInv, BeforeOrder, Working, Issuing, Acme

\* A process that ends leaves its files.
LEMMA WorkEnds == TlsInv /\ UNCHANGED <<tls, env, rehearsed>> /\ work' = NoWork => TlsInv'
  BY DEF NoWork, TlsInv, TlsShape, WorkShape, PairInv, RehearsalInv, BeforeOrder, Working

LEMMA StartTlsKeeps == ASSUME TlsInv, NEW ph \in TlsPhases, StartTls(ph) PROVE TlsInv'
<1> DEFINE at == IF ph = "tls-prepare" THEN "ca" ELSE "invalidate"
<1>1. work' = [phase |-> ph, at |-> at, saved |-> None, bound |-> None, ok |-> FALSE, gen |-> 0]
  BY DEF StartTls, NoWork
<1>2. /\ work'.phase = ph /\ work'.at = at /\ work'.saved = None
      /\ work'.ok = FALSE /\ WorkShape'
  BY <1>1 DEF WorkShape
<1>3. (at = "ca" /\ ph = "tls-prepare") \/ (at = "invalidate" /\ ph # "tls-prepare")
  OBVIOUS
<1>4. UNCHANGED <<tls, env, rehearsed>>
  BY DEF StartTls, NoFile
<1> HIDE DEF at
<1>5. TlsShape' /\ PairInv'
  BY <1>2, <1>3, <1>4 DEF TlsInv, TlsShape, PairInv, Working
<1>6. RehearsalInv'
  BY <1>2, <1>3, <1>4 DEF TlsInv, RehearsalInv, BeforeOrder, Working, Issuing, Acme
<1>7. QED BY <1>2, <1>5, <1>6 DEF TlsInv

LEMMA JointKeepsTls == TlsInv /\ Joint => TlsInv'
<1> SUFFICES ASSUME TlsInv, Joint PROVE TlsInv' OBVIOUS
<1>1. CASE Publish
  BY <1>1 DEF Publish, TlsInv, TlsShape, WorkShape, PairInv, RehearsalInv, BeforeOrder, Working, Issuing,
     Acme
<1>2. CASE RunTls
  BY <1>2, StartTlsKeeps DEF RunTls, Doing
<1>3. CASE TlsPassed
  BY <1>3, WorkEnds DEF TlsPassed
<1>4. CASE Activate \/ EnableProduction \/ EnableGeneral \/ RunRegister \/ Registers
  <2>1. UNCHANGED bootstrap
    BY <1>4 DEF Activate, EnableProduction, EnableGeneral, Enable, RunRegister, Registers
  <2>2. QED BY <2>1, TlsUnchanged
<1>5. QED BY <1>1, <1>2, <1>3, <1>4 DEF Joint

LEMMA FailsKeepsTls == TlsInv /\ Fails => TlsInv'
<1> SUFFICES ASSUME TlsInv, Fails PROVE TlsInv' OBVIOUS
<1> USE InvalidIsNoEnv
    DEF TlsInv, TlsShape, WorkShape, PairInv, RehearsalInv, BeforeOrder, Working, Move, Files, Issuing, Acme
<1>1. CASE LookFails \/ OrderFails
  BY <1>1 DEF LookFails, OrderFails
<1>2. CASE Drift
  BY <1>2 DEF Drift
<1>3. CASE Renew
  BY <1>3 DEF Renew, TlsRunning
<1>4. CASE UNCHANGED bootstrap
  BY <1>4, TlsUnchanged
<1>5. QED BY <1>1, <1>2, <1>3, <1>4 DEF Fails

LEMMA OwnerKeepsTls == TlsInv /\ Owner => TlsInv'
<1> SUFFICES ASSUME TlsInv, Owner PROVE TlsInv' OBVIOUS
<1>1. CASE CleanTls
  BY <1>1 DEF CleanTls, TlsRunning, Orphaned, Files,
     TlsInv, TlsShape, WorkShape, PairInv, RehearsalInv, BeforeOrder, Working, Issuing, Acme
<1>2. CASE UNCHANGED bootstrap
  BY <1>2, TlsUnchanged
<1>3. Repair => CleanTls \/ UNCHANGED bootstrap
  BY DEF Repair, Clean, Unregister, OpenGate, Dispose
<1>4. Owner => Repair \/ UNCHANGED bootstrap
  BY DEF Owner, Install, ExpertTls, ExpertRegister, ExpertRecorded, Expert, Command, Others, Provide
<1>5. QED BY <1>1, <1>2, <1>3, <1>4

LEMMA TlsKept == TlsInv /\ [Next]_vars => TlsInv'
<1> SUFFICES ASSUME TlsInv, [Next]_vars PROVE TlsInv' OBVIOUS
<1>1. CASE Owner
  BY <1>1, OwnerKeepsTls
<1>2. CASE PhaseStep
  <2>1. Joint \/ UNCHANGED bootstrap
    BY <1>2 DEF PhaseStep
  <2>2. QED BY <2>1, JointKeepsTls, TlsUnchanged
<1>3. CASE ToolStep
  BY <1>3, TlsStepKeeps, TlsUnchanged DEF ToolStep
<1>4. CASE Stops \/ Dies
  <2>1. Ends
    BY <1>4 DEF Stops, Dies
  <2>2. QED BY <2>1, WorkEnds DEF Ends
<1>5. CASE DiesUnknown
  BY <1>5, TlsUnchanged DEF DiesUnknown
<1>6. CASE Fails
  BY <1>6, FailsKeepsTls
<1>7. CASE UNCHANGED vars
  BY <1>7, TlsUnchanged DEF vars
<1>8. QED BY <1>1, <1>2, <1>3, <1>4, <1>5, <1>6, <1>7 DEF Next

LEMMA TlsInitially == Init => TlsInv
  BY InvalidIsNoEnv DEF Init, TlsInit, NoWork, TlsInv, TlsShape, WorkShape, PairInv, RehearsalInv,
     BeforeOrder, Working

\* Files, marker and the running process fit together (tls-webroot-bootstrap.py with every end of
\* its phases, and whatever the installation does beside them).
THEOREM TlsInvariance == Spec => []TlsInv
<1>1. QED BY TlsInitially, TlsKept, PTL DEF Spec

\* A certificate is never beside the key of another lineage, though the two files are published one
\* after the other and the lineage may be renewed in between.
THEOREM KeyAndCertificateMatch == Spec => []KeyMatches
<1>1. TlsInv => KeyMatches
  BY DEF TlsInv, PairInv, KeyMatches
<1>2. QED BY <1>1, TlsInvariance, PTL

\* The live authority is asked only for what the staging authority granted last, in the
\* surroundings of the last look, and once for each such rehearsal.
THEOREM OrdersAreRehearsed == Spec => OrderIsRehearsed
<1>1. TlsInv /\ [Next]_vars => [(Order \/ OrderFails) /\ Issuing => rehearsed = work.bound]_bootstrap
  BY DEF TlsInv, RehearsalInv, BeforeOrder, Order, OrderFails, Working
<1>2. QED BY <1>1, TlsInvariance, PTL DEF Spec, OrderIsRehearsed

-----------------------------------------------------------------------------
(* A ready installation                                                    *)

\* What a phase makes stays made.
Paired     == tls.cert # 0 /\ tls.key # 0
Enabled(r) == Registered(r) /\ runner[r].enabled
HasSource  == (Working("key") \/ Working("cert")) => work.gen # 0

PhaseNames == {"bootstrap", "credentials", "apply", "tls-prepare", "tls-dry-run", "tls-issue", "tls-check", "ingress",
               "activate", "runner-register", "runner-enable", "post-check"}
Slots      == Roles \cup Runners \cup {"primary", Head(RunnerOrder)}
HostShape == /\ host = [record |-> host.record, gate |-> host.gate, begun |-> host.begun, keys |-> host.keys,
                        ingress |-> host.ingress, active |-> host.active, manifest |-> host.manifest]
             /\ host.manifest = [pair |-> host.manifest.pair, stage |-> host.manifest.stage]
\* What the commands of the expert phases read from it.
HostKnown == (host.record \in Recorded \cup {None}) /\ (Present => host.manifest.pair \in Pairs)
CommandShape ==
  /\ s = [at |-> s.at, todo |-> s.todo, pair |-> s.pair, token |-> s.token, ordinary |-> s.ordinary]
  /\ s.todo \in Seq(PhaseNames \X Slots) /\ s.ordinary \in BOOLEAN
  /\ At("idle") \/ s.pair \in Pairs
  /\ s.at \notin {"idle", "next"} => s.todo # <<>>
  /\ ~At("idle") /\ ~s.ordinary => s.todo # <<>>

\* What the pair of an ordinary command asks for is there, or is still to be done.
Due(ph, slot) == \E i \in 1..Len(s.todo) : s.todo[i] = <<ph, slot>>
Serves(p)     == tls.ca = "ready" /\ TlsReady(p)
Scheduled(p) ==
  /\ \A r \in Required(p) : r \in host.keys \/ Due("credentials", r)
  /\ (host.active /\ Serves(p)) \/ Due("activate", "primary")
  /\ p \in Gateway => host.ingress \/ Due("ingress", "primary")
  /\ \A r \in ToSet(RunnersOf(p)) : Enabled(r) \/ Due("runner-enable", r)

\* What a phase has found or made when it reached a step.
Done ==
  /\ s.at \in {"begin", "effect", "clear", "readback"} /\ Phase = "activate" => Serves(s.pair)
  /\ s.at \in {"clear", "readback"} /\ Phase = "activate" => host.active
  /\ s.at \in {"clear", "readback"} /\ Phase = "runner-enable" /\ Slot \in Runners => Enabled(Slot)
  /\ At("readback") /\ Phase = "credentials" => Slot \in host.keys
  /\ At("readback") /\ Phase = "ingress" => host.ingress
  /\ At("start") => Phase \in {"bootstrap", "apply"}
  /\ At("resume") => Phase = "apply"
  /\ At("tls") => Phase \in TlsPhases
  /\ At("register") => Phase = "runner-register"
  /\ s.at \in {"begin", "effect", "clear"} => Phase \in {"bootstrap", "apply", "activate", "runner-enable"}

CommandInv == /\ CommandShape
              /\ ~At("idle") => Done
              /\ ~At("idle") /\ s.ordinary => Scheduled(s.pair)
ReadyInv   == HasSource /\ HostShape /\ HostKnown /\ CommandInv /\ ReadyIsWhole

\* A pair, once there, stays; so does the group of the bundle.
LEMMA TlsStepStays ==
  ASSUME TlsInv, HasSource, TlsStep
  PROVE  /\ HasSource' /\ (Paired => Paired') /\ (tls.ca = "ready" => tls'.ca = "ready")
<1> USE DEF TlsInv, TlsShape, WorkShape, PairInv, HasSource, Paired, Working, Move, Files, NoFile
<1>1. CASE Invalidate \/ PrepareCa \/ OwnCa \/ Reuse \/ Republish
  BY <1>1 DEF Invalidate, PrepareCa, OwnCa, Reuse, Republish
<1>2. CASE OpenChallenge \/ Look \/ Order \/ Moved \/ Close \/ Mark
  BY <1>2 DEF OpenChallenge, Look, Order, Moved, LookFails, Close, Mark
<1>3. CASE Copy
  BY <1>3 DEF Copy
<1>4. CASE PublishKey
  BY <1>4 DEF PublishKey
<1>5. CASE PublishCert
  <2>1. work.at = "cert" /\ work.gen # 0 /\ tls.key = work.gen
    BY <1>5 DEF PublishCert
  <2>2. QED BY <1>5, <2>1 DEF PublishCert
<1>6. CASE Refuse
  BY <1>6 DEF Refuse
<1>7. QED BY <1>1, <1>2, <1>3, <1>4, <1>5, <1>6 DEF TlsStep

\* So does a registration that was proved.
LEMMA RowStays ==
  ASSUME RegistrationInv, NEW row, Set(row), NEW r \in Runners, Enabled(r),
         H \in Runners /\ Registered(H) => row.pending = FALSE /\ row.local = "full" /\ row.enabled = runner[H].enabled
  PROVE  Enabled(r)'
<1>1. H \in Runners => runner'[H] = row
  BY DEF Set, RegistrationInv
<1>2. \A q \in Runners : q # H => runner'[q] = runner[q]
  BY DEF Set, RegistrationInv
<1>3. QED BY <1>1, <1>2 DEF Enabled, Registered

LEMMA RunnerStepStays ==
  ASSUME RegistrationInv, RunnerStep, NEW r \in Runners, Enabled(r)
  PROVE  Enabled(r)'
<1>0. H \in Runners => Row \in Rows /\ Row = runner[H]
  BY DEF RegistrationInv, Row
<1>1. CASE Reconcile \/ Inspect \/ Decline
  BY <1>1 DEF Reconcile, Inspect, Decline, Enabled, Registered
<1>2. CASE Reserve
  <2>1. H \in Runners => runner[H].local = "none"
    BY <1>2 DEF Reserve, Helping, RegistrationInv, Claimed, Fresh
  <2>2. QED BY <1>2, <2>1, RowStays DEF Reserve, Registered
<1>3. CASE Configure
  <2>1. H \in Runners => runner[H].local = "none"
    BY <1>3 DEF Configure, Helping, RegistrationInv, Claimed, Fresh
  <2>2. QED BY <1>3, <2>1, RowStays DEF Configure, Registered
<1>4. CASE ClearPending
  <2> DEFINE row == [Row EXCEPT !.pending = FALSE]
  <2>1. H \in Runners => row.pending = FALSE /\ row.local = Row.local /\ row.enabled = Row.enabled
    BY <1>0 DEF Rows
  <2>2. QED BY <1>0, <1>4, <2>1, RowStays DEF ClearPending, Registered
<1>5. CASE ClearReject
  <2>1. H \in Runners => runner[H].local = "none"
    BY <1>5 DEF ClearReject, Helping, RegistrationInv, Claimed, Fresh
  <2>2. QED BY <1>5, <2>1, RowStays DEF ClearReject, Registered
<1>6. QED BY <1>1, <1>2, <1>3, <1>4, <1>5 DEF RunnerStep

LEMMA UnknownStays ==
  ASSUME RegistrationInv, Helping("configure"), Unknown(TRUE), NEW r \in Runners, Enabled(r)
  PROVE  Enabled(r)'
<1>1. H \in Runners => runner[H].local = "none"
  BY DEF Helping, RegistrationInv, Claimed, Fresh
<1>2. PICK row : Set(row)
  BY DEF Unknown
<1>3. QED BY <1>1, <1>2, RowStays DEF Registered

\* What the next step may not lose, whoever takes it.
Stays ==
  /\ Paired => Paired'
  /\ tls.ca = "ready" => tls'.ca = "ready"
  /\ sources \subseteq sources' /\ host.keys \subseteq host'.keys
  /\ host.active => host'.active
  /\ host.ingress => host'.ingress
  /\ \A r \in Runners : Enabled(r) => Enabled(r)'

LEMMA FilesStay ==
  ASSUME RegistrationInv, TlsInv, HasSource, HostShape, [Next]_vars
  PROVE  HasSource' /\ (Paired => Paired') /\ (tls.ca = "ready" => tls'.ca = "ready")
<1> USE DEF HasSource, Paired, Working
<1>1. CASE Owner
  <2>1. CASE CleanTls
    BY <2>1 DEF CleanTls, TlsRunning, Orphaned, Files, TlsInv, TlsShape
  <2>2. CASE UNCHANGED bootstrap
    BY <2>2 DEF bootstrap
  <2>3. Repair => CleanTls \/ UNCHANGED bootstrap
    BY DEF Repair, Clean, Unregister, OpenGate, Dispose
  <2>4. Owner => Repair \/ UNCHANGED bootstrap
    BY DEF Owner, Install, ExpertTls, ExpertRegister, ExpertRecorded, Expert, Command, Others, Provide
  <2>5. QED BY <1>1, <2>1, <2>2, <2>3, <2>4
<1>2. CASE PhaseStep
  <2>1. CASE Publish
    BY <2>1 DEF Publish, TlsInv, TlsShape
  <2>2. CASE RunTls
    <3>1. work'.at \in {"ca", "invalidate"} /\ tls' = tls
      BY <2>2 DEF RunTls, StartTls, NoWork, NoFile
    <3>2. QED BY <3>1
  <2>3. CASE TlsPassed
    BY <2>3 DEF TlsPassed, NoWork
  <2>4. CASE UNCHANGED bootstrap
    BY <2>4 DEF bootstrap
  <2>5. QED
    BY <1>2, <2>1, <2>2, <2>3, <2>4 DEF PhaseStep, Joint, Activate, EnableProduction, EnableGeneral, Enable,
       RunRegister, Registers
<1>3. CASE ToolStep
  BY <1>3, TlsStepStays DEF ToolStep, bootstrap
<1>4. CASE Stops \/ Dies
  BY <1>4 DEF Stops, Dies, Ends, NoWork
<1>5. CASE DiesUnknown \/ UNCHANGED vars
  BY <1>5 DEF DiesUnknown, bootstrap, vars
<1>6. CASE Fails
  <2>1. CASE LookFails \/ OrderFails \/ Drift \/ Renew
    BY <2>1 DEF LookFails, OrderFails, Drift, Renew, Move, Files, TlsInv, TlsShape, WorkShape
  <2>2. QED BY <1>6, <2>1 DEF Fails, bootstrap
<1>7. QED BY <1>1, <1>2, <1>3, <1>4, <1>5, <1>6 DEF Next

LEMMA RunnersStay ==
  ASSUME RegistrationInv, [Next]_vars, NEW r \in Runners, Enabled(r)
  PROVE  Enabled(r)'
<1>0. CASE UNCHANGED runner
  BY <1>0 DEF Enabled, Registered
<1>1. CASE Owner
  <2>1. CASE Unregister
    BY <2>1 DEF Unregister, Diagnose, Ambiguous, Enabled, Registered, RegistrationInv
  <2>2. Repair => Unregister \/ UNCHANGED runner
    BY DEF Repair, Clean, OpenGate, Dispose, registration
  <2>3. Owner => Repair \/ UNCHANGED runner
    BY DEF Owner, Install, ExpertTls, ExpertRegister, ExpertRecorded, Expert, Command, Others, Provide,
       registration
  <2>4. QED BY <1>0, <1>1, <2>1, <2>2, <2>3
<1>2. CASE PhaseStep
  <2>1. ASSUME NEW q, Enable(q) PROVE Enabled(r)'
    BY <2>1 DEF Enable, Enableable, Enabled, Registered, RegistrationInv, Rows
  <2>2. QED
    BY <1>0, <1>2, <2>1 DEF PhaseStep, Joint, Publish, Activate, EnableProduction, EnableGeneral, RunTls,
       TlsPassed,
       RunRegister, StartHelper, Registers, registration
<1>3. CASE ToolStep
  BY <1>0, <1>3, RunnerStepStays DEF ToolStep, registration
<1>4. CASE Stops \/ Dies \/ UNCHANGED vars
  BY <1>0, <1>4 DEF Stops, Dies, Ends, vars, registration
<1>5. CASE DiesUnknown
  BY <1>5, UnknownStays DEF DiesUnknown
<1>6. CASE Fails
  BY <1>0, <1>6, UnknownStays DEF Fails, Fail, Reject, registration
<1>7. QED BY <1>1, <1>2, <1>3, <1>4, <1>5, <1>6 DEF Next

LEMMA HostStays ==
  ASSUME HostShape, [Next]_vars
  PROVE  /\ HostShape' /\ host.keys \subseteq host'.keys
         /\ host.active => host'.active
         /\ host.ingress => host'.ingress
         /\ host'.manifest = host.manifest \/ host'.manifest.stage # "ready" \/ Complete
<1> DEFINE Kept == /\ HostShape' /\ host.keys \subseteq host'.keys
                   /\ host.active => host'.active
                   /\ host.ingress => host'.ingress
                   /\ host'.manifest = host.manifest \/ host'.manifest.stage # "ready" \/ Complete
<1>0. CASE UNCHANGED host
  BY <1>0 DEF HostShape
<1>1. ASSUME NEW r, host' = [host EXCEPT !.record = r] PROVE Kept
  BY <1>1 DEF HostShape
<1>2. ASSUME NEW g, host' = [host EXCEPT !.gate = g] PROVE Kept
  BY <1>2 DEF HostShape
<1>3. CASE Owner
  <2>1. Owner => Repair \/ UNCHANGED host
    BY DEF Owner, Install, ExpertTls, ExpertRegister, ExpertRecorded, Expert, Command, Others, Provide
  <2>2. Repair => UNCHANGED host \/ OpenGate \/ Dispose
    BY DEF Repair, Clean, Unregister
  <2>3. QED BY <1>0, <1>1, <1>2, <1>3, <2>1, <2>2 DEF OpenGate, Dispose, Host
<1>4. CASE PhaseStep
  <2>1. CASE Quiesce \/ Direct \/ Begin \/ Clear \/ Resume
    BY <1>0, <1>1, <1>2, <2>1 DEF Quiesce, Direct, Begin, Clear, Resume, Host
  <2>2. CASE Start
    BY <2>2 DEF Start, Host, HostShape
  <2>3. CASE StageKey \/ StageToken
    BY <2>3 DEF StageKey, StageToken, Staged, Host, HostShape
  <2>4. CASE Serve
    BY <2>4 DEF Serve, Host, HostShape
  <2>5. CASE Check \/ ReadBack \/ Return \/ EnableProduction \/ EnableGeneral \/ RunTls \/ TlsPassed \/ RunRegister \/ Registers
    BY <1>0, <2>5 DEF Check, ReadBack, Return, EnableProduction, EnableGeneral, RunTls, TlsPassed,
       RunRegister, Registers
  <2>6. CASE Complete
    BY <2>6 DEF Complete, Host, HostShape
  <2>7. CASE Publish
    <3> DEFINE gate == IF host.gate = "none" THEN "open" ELSE host.gate
               stage == IF s.ordinary THEN "fresh-incomplete" ELSE "unmarked"
    <3>1. host' = [host EXCEPT !.gate = gate, !.manifest = [pair |-> s.pair, stage |-> stage]]
      BY <2>7 DEF Publish, Host
    <3>2. stage # "ready"
      OBVIOUS
    <3> HIDE DEF gate, stage
    <3>3. QED BY <3>1, <3>2 DEF HostShape
  <2>8. CASE Activate
    BY <2>8 DEF Activate, Host, HostShape
  <2>9. QED BY <1>4, <2>1, <2>2, <2>3, <2>4, <2>5, <2>6, <2>7, <2>8 DEF PhaseStep, Alone, Joint
<1>5. CASE ToolStep \/ Stops \/ Dies \/ DiesUnknown \/ Fails \/ UNCHANGED vars
  BY <1>0, <1>5 DEF ToolStep, Stops, Dies, Ends, DiesUnknown, Fails, vars
<1>6. QED BY <1>3, <1>4, <1>5 DEF Next

LEMMA SourcesStay == ASSUME [Next]_vars PROVE sources \subseteq sources'
BY DEF Next, Owner, Install, ExpertTls, ExpertRegister, ExpertRecorded, Expert, Command, Others, Provide,
   Repair,
   PhaseStep, ToolStep, Stops, Dies, Ends, DiesUnknown, Fails, vars

LEMMA NextStays ==
  ASSUME RegistrationInv, TlsInv, HasSource, HostShape, [Next]_vars
  PROVE  Stays
BY FilesStay, RunnersStay, HostStays, SourcesStay DEF Stays

\* What is whole stays whole.
LEMMA RunnersOfPair == \A p : ToSet(RunnersOf(p)) \subseteq Runners
BY PairsAssumption DEF RunnersOf, ToSet

LEMMA ServesStays == ASSUME Stays, NEW p, Serves(p) PROVE Serves(p)'
BY DEF Stays, Serves, TlsReady, Paired

LEMMA WholeStays == ASSUME Stays, NEW p, Whole(p) PROVE Whole(p)'
<1>1. \A r \in ToSet(RunnersOf(p)) : Enabled(r)'
  BY RunnersOfPair DEF Stays, Whole, Enabled
<1>2. Serves(p)'
  BY ServesStays DEF Whole, Serves
<1>3. Required(p) \subseteq host'.keys
  BY DEF Whole, Stays
<1>4. QED BY <1>1, <1>2, <1>3 DEF Whole, Stays, Serves, Enabled, Required, RunnersOf, ToSet

LEMMA ScheduledStays ==
  ASSUME Stays, NEW p, Scheduled(p),
         \A r \in Required(p) : Due("credentials", r) => Due("credentials", r)' \/ r \in host.keys,
         Due("activate", "primary") => Due("activate", "primary")' \/ (host.active /\ Serves(p)),
         Due("ingress", "primary") => Due("ingress", "primary")' \/ host.ingress,
         \A r \in Runners : Due("runner-enable", r) => Due("runner-enable", r)' \/ Enabled(r)
  PROVE  Scheduled(p)'
<1>1. \A r \in Required(p) : r \in host'.keys \/ Due("credentials", r)'
  BY DEF Scheduled, Stays
<1>2. (host'.active /\ Serves(p)') \/ Due("activate", "primary")'
  BY ServesStays DEF Scheduled, Stays
<1>3. p \in Gateway => host'.ingress \/ Due("ingress", "primary")'
  BY DEF Scheduled, Stays
<1>4. \A r \in ToSet(RunnersOf(p)) : Enabled(r)' \/ Due("runner-enable", r)'
  BY RunnersOfPair DEF Scheduled, Stays
<1>5. QED BY <1>1, <1>2, <1>3, <1>4 DEF Scheduled, Required, RunnersOf, ToSet

\* A command at its place, or at the end.
LEMMA SameCommand == ASSUME Stays, CommandInv, UNCHANGED s PROVE CommandInv'
<1>1. CommandShape'
  BY DEF CommandInv, CommandShape, At
<1>2. Phase' = Phase /\ Slot' = Slot
  BY DEF Phase, Slot
<1>3. ~At("idle")' => Done'
  BY <1>2, ServesStays DEF CommandInv, Done, Stays, At
<1>4. ~At("idle")' /\ s'.ordinary => Scheduled(s.pair)'
  BY ScheduledStays DEF CommandInv, At, Due
<1>5. QED BY <1>1, <1>3, <1>4 DEF CommandInv

LEMMA EndedCommand == ASSUME s' = Idle PROVE CommandInv'
BY DEF Idle, CommandInv, CommandShape, At

\* A command that moves to another step of the same phase.
LEMMA NextStep ==
  ASSUME Stays, CommandInv, ~At("idle"), NEW at, at # "idle", Goto(at), s.todo # <<>>,
         at \in {"begin", "effect", "clear", "readback"} /\ Phase = "activate" => Serves(s.pair)',
         at \in {"clear", "readback"} /\ Phase = "activate" => host'.active,
         at \in {"clear", "readback"} /\ Phase = "runner-enable" /\ Slot \in Runners => Enabled(Slot)',
         at = "readback" /\ Phase = "credentials" => Slot \in host'.keys,
         at = "readback" /\ Phase = "ingress" => host'.ingress,
         at = "start" => Phase \in {"bootstrap", "apply"},
         at = "resume" => Phase = "apply",
         at = "tls" => Phase \in TlsPhases,
         at = "register" => Phase = "runner-register",
         at \in {"begin", "effect", "clear"} => Phase \in {"bootstrap", "apply", "activate", "runner-enable"}
  PROVE  CommandInv'
<1>1. /\ s' = [at |-> at, todo |-> s.todo, pair |-> s.pair, token |-> s.token, ordinary |-> s.ordinary]
      /\ s'.at = at /\ s'.todo = s.todo /\ s'.pair = s.pair /\ s'.ordinary = s.ordinary
  BY DEF Goto, CommandInv, CommandShape
<1>2. CommandShape'
  BY <1>1 DEF CommandInv, CommandShape, At
<1>3. Phase' = Phase /\ Slot' = Slot
  BY <1>1 DEF Phase, Slot
<1>4. Done'
  BY <1>1, <1>3 DEF Done, At
<1>5. s'.ordinary => Scheduled(s.pair)'
  BY <1>1, ScheduledStays DEF CommandInv, Due
<1>6. QED BY <1>1, <1>2, <1>4, <1>5 DEF CommandInv

LEMMA HeadOfTodo ==
  ASSUME CommandShape, s.todo # <<>>
  PROVE  /\ Phase \in PhaseNames /\ Slot \in Slots /\ Head(s.todo) = <<Phase, Slot>> /\ s.todo[1] = <<Phase, Slot>>
         /\ Len(s.todo) \in Nat /\ Len(s.todo) >= 1
         /\ Tail(s.todo) \in Seq(PhaseNames \X Slots) /\ Len(Tail(s.todo)) = Len(s.todo) - 1
         /\ \A i \in 1..Len(Tail(s.todo)) : Tail(s.todo)[i] = s.todo[i + 1]
<1>1. s.todo \in Seq(PhaseNames \X Slots)
  BY DEF CommandShape
<1>2. Head(s.todo) \in PhaseNames \X Slots /\ Head(s.todo) = s.todo[1]
  BY <1>1
<1>3. Phase \in PhaseNames /\ Slot \in Slots /\ Head(s.todo) = <<Phase, Slot>>
  BY <1>2 DEF Phase, Slot
<1>4. Len(s.todo) \in Nat /\ Len(s.todo) >= 1
  BY <1>1
<1>5. /\ Tail(s.todo) \in Seq(PhaseNames \X Slots) /\ Len(Tail(s.todo)) = Len(s.todo) - 1
      /\ \A i \in 1..Len(Tail(s.todo)) : Tail(s.todo)[i] = s.todo[i + 1]
  BY <1>1
<1>6. QED BY <1>2, <1>3, <1>4, <1>5

LEMMA AloneKeeps ==
  ASSUME Stays, CommandInv, HostShape, PhaseStep, Alone, ~ReadBack
  PROVE  CommandInv'
<1> USE DEF At
<1>0. ~At("idle") => Done /\ (s.at # "next" => s.todo # <<>>)
  BY DEF CommandInv, CommandShape
<1>1. CASE Quiesce
  <2>1. Phase = "apply" /\ s.todo # <<>> /\ Goto("begin") /\ ~At("idle")
    BY <1>1 DEF Quiesce, Begins, Doing
  <2>2. QED BY <2>1, NextStep
<1>2. CASE Direct
  <2>1. /\ Phase \in {"bootstrap", "apply", "activate", "runner-enable"} /\ s.todo # <<>> /\ Goto("begin") /\ ~At("idle")
        /\ Phase = "activate" => Serves(s.pair)
    BY <1>2 DEF Direct, Begins, Doing, Serveable, Serves
  <2>2. s'.pair = s.pair
    BY <2>1 DEF Goto, CommandInv, CommandShape
  <2>3. Phase = "activate" => Serves(s.pair)'
    BY <2>1, <2>2, ServesStays
  <2>4. QED BY <2>1, <2>3, NextStep
<1>3. CASE Begin
  <2> DEFINE to == IF Phase \in {"bootstrap", "apply"} THEN "start" ELSE "effect"
  <2>1. Goto(to) /\ ~At("idle") /\ s.at = "begin"
    BY <1>3 DEF Begin
  <2>2. s'.pair = s.pair
    BY <2>1 DEF Goto, CommandInv, CommandShape
  <2>3. Phase = "activate" => Serves(s.pair)'
    BY <1>0, <2>1, <2>2, ServesStays DEF Done
  <2>4. Phase \in {"bootstrap", "apply", "activate", "runner-enable"} /\ s.todo # <<>>
    BY <1>0, <2>1 DEF Done
  <2>5. CASE to = "start"
    BY <2>1, <2>4, <2>5, NextStep
  <2>6. CASE to = "effect"
    <3>1. Goto("effect")
      BY <2>1, <2>6
    <3>2. QED BY <2>1, <2>3, <2>4, <3>1, NextStep
  <2>7. QED BY <2>5, <2>6
<1>4. CASE Start
  <2>1. Goto("effect") /\ ~At("idle") /\ s.todo # <<>> /\ Phase \in {"bootstrap", "apply"}
    BY <1>0, <1>4 DEF Start, Done
  <2>2. QED BY <2>1, NextStep
<1>5. CASE Clear
  <2> DEFINE to == IF Phase = "apply" THEN "resume" ELSE "readback"
  <2>1. Goto(to) /\ ~At("idle") /\ s.at = "clear"
    BY <1>5 DEF Clear
  <2>2. s'.pair = s.pair /\ s'.todo = s.todo
    BY <2>1 DEF Goto, CommandInv, CommandShape
  <2>3. Phase = "activate" => Serves(s.pair)' /\ host'.active
    BY <1>0, <2>1, <2>2, ServesStays DEF Done, Stays
  <2>4. Phase = "runner-enable" /\ Slot \in Runners => Enabled(Slot)'
    <3>1. Slot' = Slot
      BY <2>2 DEF Slot
    <3>2. QED BY <1>0, <2>1, <3>1 DEF Done, Stays
  <2>5. Phase \in {"bootstrap", "apply", "activate", "runner-enable"} /\ s.todo # <<>>
    BY <1>0, <2>1 DEF Done
  <2>6. CASE Phase = "apply"
    BY <2>1, <2>5, <2>6, NextStep
  <2>7. CASE Phase # "apply"
    <3>1. Goto("readback")
      BY <2>1, <2>7
    <3>2. QED BY <2>1, <2>3, <2>4, <2>5, <3>1, NextStep
  <2>8. QED BY <2>6, <2>7
<1>6. CASE Resume
  <2>1. Goto("readback") /\ ~At("idle") /\ s.todo # <<>> /\ Phase = "apply"
    BY <1>0, <1>6 DEF Resume, Done
  <2>2. QED BY <2>1, NextStep
<1>7. CASE StageKey \/ StageToken
  <2>1. /\ Goto("readback") /\ ~At("idle") /\ s.todo # <<>> /\ Phase = "credentials"
        /\ host' = [host EXCEPT !.keys = host.keys \cup {Slot}]
    BY <1>7 DEF StageKey, StageToken, Staged, Doing, Host
  <2>2. Slot \in host'.keys
    BY <2>1 DEF HostShape
  <2>3. QED BY <2>1, <2>2, NextStep
<1>8. CASE Serve
  <2>1. /\ Goto("readback") /\ ~At("idle") /\ s.todo # <<>> /\ Phase = "ingress"
        /\ host' = [host EXCEPT !.ingress = TRUE]
    BY <1>8 DEF Serve, Doing, Host
  <2>2. host'.ingress
    BY <2>1 DEF HostShape
  <2>3. QED BY <2>1, <2>2, NextStep
<1>9. CASE Check
  <2>1. Goto("readback") /\ ~At("idle") /\ s.todo # <<>> /\ Phase \in {"tls-check", "post-check"}
    BY <1>9 DEF Check, Doing
  <2>2. QED BY <2>1, NextStep
<1>10. CASE Return \/ Complete
  BY <1>10, EndedCommand DEF Return, Complete
<1>11. QED BY <1>1, <1>2, <1>3, <1>4, <1>5, <1>6, <1>7, <1>8, <1>9, <1>10 DEF Alone

LEMMA JointKeeps ==
  ASSUME Stays, RegistrationInv, CommandInv, HostShape, PhaseStep, Joint
  PROVE  CommandInv'
<1> USE DEF At
<1>0. ~At("idle") => Done /\ (s.at # "next" => s.todo # <<>>)
  BY DEF CommandInv, CommandShape
<1>1. CASE Publish
  <2>1. Goto("clear") /\ ~At("idle") /\ s.todo # <<>> /\ Phase \in {"bootstrap", "apply"}
    BY <1>0, <1>1 DEF Publish
  <2>2. QED BY <2>1, NextStep
<1>2. CASE Activate
  <2>1. /\ Goto("clear") /\ ~At("idle") /\ s.todo # <<>> /\ Phase = "activate" /\ s.at = "effect"
        /\ host' = [host EXCEPT !.active = TRUE]
    BY <1>0, <1>2 DEF Activate, Host
  <2>2. s'.pair = s.pair
    BY <2>1 DEF Goto, CommandInv, CommandShape
  <2>3. Serves(s.pair)' /\ host'.active
    BY <1>0, <2>1, <2>2, ServesStays DEF Done, HostShape
  <2>4. QED BY <2>1, <2>3, NextStep
<1>3. CASE EnableProduction \/ EnableGeneral
  <2> DEFINE to == IF At("effect") THEN "clear" ELSE "readback"
  <2>1. /\ Goto(to) /\ ~At("idle") /\ s.todo # <<>> /\ Phase = "runner-enable" /\ Enable(Slot)
    BY <1>0, <1>3 DEF EnableProduction, EnableGeneral, Doing
  <2>2. s'.todo = s.todo
    BY <2>1 DEF Goto, CommandInv, CommandShape
  <2>3. Slot' = Slot
    BY <2>2 DEF Slot
  <2>4. Slot \in Runners => Enabled(Slot)'
    <3>1. ASSUME NEW r \in Runners, Enable(r) PROVE Enabled(r)'
      BY <3>1 DEF Enable, Enableable, Enabled, Registered, RegistrationInv, Rows
    <3>2. QED BY <2>1, <2>3, <3>1
  <2>5. to # "idle" /\ to \in {"clear", "readback"}
    OBVIOUS
  <2> HIDE DEF to
  <2>6. QED BY <2>1, <2>4, <2>5, NextStep
<1>4. CASE RunTls
  <2>1. Goto("tls") /\ ~At("idle") /\ s.todo # <<>> /\ Phase \in TlsPhases
    BY <1>4 DEF RunTls, Doing
  <2>2. QED BY <2>1, NextStep
<1>5. CASE TlsPassed
  <2>1. Goto("readback") /\ ~At("idle") /\ s.todo # <<>> /\ Phase \in TlsPhases
    BY <1>0, <1>5 DEF TlsPassed, Done
  <2>2. QED BY <2>1, NextStep DEF TlsPhases
<1>6. CASE RunRegister
  <2>1. Goto("register") /\ ~At("idle") /\ s.todo # <<>> /\ Phase = "runner-register"
    BY <1>6 DEF RunRegister, Doing
  <2>2. QED BY <2>1, NextStep
<1>7. CASE Registers
  <2>1. Goto("readback") /\ ~At("idle") /\ s.todo # <<>> /\ Phase = "runner-register"
    BY <1>0, <1>7 DEF Registers, Done
  <2>2. QED BY <2>1, NextStep
<1>8. QED BY <1>1, <1>2, <1>3, <1>4, <1>5, <1>6, <1>7 DEF Joint

\* The next phase of the schedule: the one that leaves it has done its part.
LEMMA ReadBackKeeps ==
  ASSUME Stays, CommandInv, HostShape, ReadBack
  PROVE  CommandInv'
<1>1. /\ s.at = "readback" /\ s.ordinary /\ s.todo # <<>> /\ Done /\ CommandShape /\ Scheduled(s.pair) /\ s.pair \in Pairs
      /\ UNCHANGED host
  BY DEF ReadBack, At, CommandInv, CommandShape
<1>2. s' = [at |-> "next", todo |-> Tail(s.todo), pair |-> s.pair, token |-> s.token, ordinary |-> s.ordinary]
  BY <1>1 DEF ReadBack, CommandShape
<1>3. s'.at = "next" /\ s'.todo = Tail(s.todo) /\ s'.pair = s.pair /\ s'.ordinary
  BY <1>1, <1>2
<1>4. CommandShape' /\ Done'
  BY <1>1, <1>2, <1>3, HeadOfTodo DEF CommandShape, At, Done
<1>5. ASSUME NEW ph, NEW slot, Due(ph, slot), ~Due(ph, slot)'
      PROVE  ph = Phase /\ slot = Slot
  <2>1. PICK i \in 1..Len(s.todo) : s.todo[i] = <<ph, slot>>
    BY <1>5 DEF Due
  <2>2. i = 1
    <3>1. SUFFICES ASSUME i # 1 PROVE FALSE
      OBVIOUS
    <3>2. i - 1 \in 1..Len(Tail(s.todo)) /\ Tail(s.todo)[i - 1] = s.todo[i]
      BY <1>1, <3>1, HeadOfTodo
    <3>3. QED BY <1>3, <1>5, <2>1, <3>2 DEF Due
  <2>3. QED BY <1>1, <2>1, <2>2, HeadOfTodo
<1>6. /\ Phase = "activate" => host.active /\ Serves(s.pair)
      /\ Phase = "runner-enable" /\ Slot \in Runners => Enabled(Slot)
      /\ Phase = "credentials" => Slot \in host.keys
      /\ Phase = "ingress" => host.ingress
  BY <1>1 DEF Done, At
<1>7. ASSUME NEW p, p = s.pair PROVE Scheduled(p)'
  <2>1. Scheduled(p)
    BY <1>1, <1>7
  <2>2. \A r \in Required(p) : Due("credentials", r) => Due("credentials", r)' \/ r \in host.keys
    BY <1>5, <1>6
  <2>3. Due("activate", "primary") => Due("activate", "primary")' \/ (host.active /\ Serves(p))
    BY <1>5, <1>6, <1>7
  <2>4. Due("ingress", "primary") => Due("ingress", "primary")' \/ host.ingress
    BY <1>5, <1>6
  <2>5. \A r \in Runners : Due("runner-enable", r) => Due("runner-enable", r)' \/ Enabled(r)
    BY <1>5, <1>6
  <2>6. QED BY <2>1, <2>2, <2>3, <2>4, <2>5, ScheduledStays
<1>8. Scheduled(s.pair)'
  BY <1>3, <1>7
<1>9. QED BY <1>3, <1>4, <1>8 DEF CommandInv, At

-----------------------------------------------------------------------------
(* The commands as they begin                                              *)

Steps          == PhaseNames \X Slots
Holds(seq, st) == \E i \in 1..Len(seq) : seq[i] = st

LEMMA JoinHolds ==
  ASSUME NEW a \in Seq(Steps), NEW b \in Seq(Steps)
  PROVE  /\ a \o b \in Seq(Steps)
         /\ \A st : Holds(a, st) \/ Holds(b, st) => Holds(a \o b, st)
<1>1. a \o b \in Seq(Steps) /\ Len(a \o b) = Len(a) + Len(b) /\ Len(a) \in Nat /\ Len(b) \in Nat
  OBVIOUS
<1>2. ASSUME NEW i \in 1..Len(a) PROVE i \in 1..Len(a \o b) /\ (a \o b)[i] = a[i]
  BY <1>1
<1>3. ASSUME NEW i \in 1..Len(b) PROVE Len(a) + i \in 1..Len(a \o b) /\ (a \o b)[Len(a) + i] = b[i]
  BY <1>1
<1>4. QED BY <1>1, <1>2, <1>3 DEF Holds

\* A sequence of one or two phases of the primary slot, or none.
LEMMA PrimaryHolds ==
  ASSUME NEW ph \in PhaseNames, NEW c \in BOOLEAN
  PROVE  /\ Primary(<<ph>>) \in Seq(Steps) /\ Holds(Primary(<<ph>>), <<ph, "primary">>)
         /\ If(c, <<ph>>) \in Seq(Steps) /\ (c => Holds(If(c, <<ph>>), <<ph, "primary">>))
<1>1. Primary(<<ph>>) = <<<<ph, "primary">>>>
  BY DEF Primary
<1>2. <<ph, "primary">> \in Steps
  BY DEF Steps, Slots
<1>3. QED BY <1>1, <1>2 DEF If, Holds

LEMMA CredentialHolds ==
  ASSUME NEW p, NEW r \in Roles
  PROVE  /\ Credential(p, r) \in Seq(Steps)
         /\ r \in Required(p) \ host.keys => Holds(Credential(p, r), <<"credentials", r>>)
<1>1. <<"credentials", r>> \in Steps
  BY DEF Steps, Slots, PhaseNames
<1>2. QED BY <1>1 DEF Credential, Holds

LEMMA RunnerPhasesHold ==
  ASSUME NEW p
  PROVE  /\ RunnerPhases(p) \in Seq(Steps)
         /\ \A r \in ToSet(RunnersOf(p)) : Holds(RunnerPhases(p), <<"runner-enable", r>>)
<1> DEFINE q == RunnersOf(p)
           n == 2 * Len(q)
           F(i) == <<IF i % 2 = 1 THEN "runner-register" ELSE "runner-enable", q[(i + 1) \div 2]>>
<1>1. q \in Seq(Runners) /\ Len(q) \in Nat /\ n \in Nat
  BY PairsAssumption DEF RunnersOf
<1>2. RunnerPhases(p) = [i \in 1..n |-> F(i)]
  BY DEF RunnerPhases
<1>3. ASSUME NEW i \in 1..n PROVE F(i) \in Steps
  <2>1. (i + 1) \div 2 \in 1..Len(q)
    BY <1>1, <1>3
  <2>2. q[(i + 1) \div 2] \in Runners
    BY <1>1, <2>1
  <2>3. QED BY <2>2 DEF Steps, Slots, PhaseNames
<1>4. ASSUME NEW k \in 1..Len(q) PROVE 2 * k \in 1..n /\ F(2 * k) = <<"runner-enable", q[k]>>
  <2>1. 2 * k \in 1..n /\ (2 * k) % 2 = 0 /\ (2 * k + 1) \div 2 = k
    BY <1>1, <1>4
  <2>2. QED BY <2>1
<1> HIDE DEF F, n
<1>5. RunnerPhases(p) \in Seq(Steps) /\ Len(RunnerPhases(p)) = n /\ \A i \in 1..n : RunnerPhases(p)[i] = F(i)
  BY <1>1, <1>2, <1>3
<1>6. ASSUME NEW r \in ToSet(RunnersOf(p)) PROVE Holds(RunnerPhases(p), <<"runner-enable", r>>)
  <2>1. PICK k \in 1..Len(q) : q[k] = r
    BY <1>1, <1>6 DEF ToSet
  <2>2. QED BY <1>4, <1>5, <2>1 DEF Holds
<1>7. QED BY <1>5, <1>6

LEMMA CompletionHolds ==
  ASSUME NEW p
  PROVE  /\ Completion(p) \in Seq(Steps)
         /\ Holds(Completion(p), <<"activate", "primary">>)
         /\ p \in Gateway => Holds(Completion(p), <<"ingress", "primary">>)
         /\ \A r \in ToSet(RunnersOf(p)) : Holds(Completion(p), <<"runner-enable", r>>)
<1> DEFINE a == If(tls.ca = "none", <<"tls-prepare">>)
           b == If(~TlsReady(p), <<"tls-dry-run", "tls-issue">>)
           c == Primary(<<"tls-check">>)
           d == If(p \in Gateway, <<"ingress">>)
           e == Primary(<<"activate">>)
           f == RunnerPhases(p)
<1>1. a \in Seq(Steps) /\ c \in Seq(Steps) /\ d \in Seq(Steps) /\ e \in Seq(Steps) /\ f \in Seq(Steps)
  <2>1. /\ "tls-prepare" \in PhaseNames /\ "tls-check" \in PhaseNames /\ "ingress" \in PhaseNames
        /\ "activate" \in PhaseNames
    BY DEF PhaseNames
  <2>2. a \in Seq(Steps)
    <3>1. (tls.ca = "none") \in BOOLEAN
      OBVIOUS
    <3>2. QED BY <2>1, <3>1, PrimaryHolds
  <2>3. d \in Seq(Steps)
    <3>1. (p \in Gateway) \in BOOLEAN
      OBVIOUS
    <3>2. QED BY <2>1, <3>1, PrimaryHolds
  <2>4. c \in Seq(Steps) /\ e \in Seq(Steps)
    BY <2>1, PrimaryHolds
  <2>5. QED BY <2>2, <2>3, <2>4, RunnerPhasesHold
<1>2. b \in Seq(Steps)
  <2>1. Primary(<<"tls-dry-run", "tls-issue">>) = <<<<"tls-dry-run", "primary">>, <<"tls-issue", "primary">>>>
    BY DEF Primary
  <2>2. <<"tls-dry-run", "primary">> \in Steps /\ <<"tls-issue", "primary">> \in Steps
    BY DEF Steps, Slots, PhaseNames
  <2>3. Primary(<<"tls-dry-run", "tls-issue">>) \in Seq(Steps) /\ <<>> \in Seq(Steps)
    <3>1. \A x, y \in Steps : <<x, y>> \in Seq(Steps)
      OBVIOUS
    <3>2. <<>> \in Seq(Steps)
      OBVIOUS
    <3>3. QED BY <2>1, <2>2, <3>1, <3>2
  <2>4. CASE TlsReady(p)
    BY <2>3, <2>4 DEF If
  <2>5. CASE ~TlsReady(p)
    BY <2>3, <2>5 DEF If
  <2>6. QED BY <2>4, <2>5
<1>3. Holds(e, <<"activate", "primary">>) /\ (p \in Gateway => Holds(d, <<"ingress", "primary">>))
  BY PrimaryHolds DEF PhaseNames
<1>4. \A r \in ToSet(RunnersOf(p)) : Holds(f, <<"runner-enable", r>>)
  BY RunnerPhasesHold
<1>5. Completion(p) = a \o b \o c \o d \o e \o f
  BY DEF Completion
<1> HIDE DEF a, b, c, d, e, f
<1>6. a \o b \in Seq(Steps)
  BY <1>1, <1>2, JoinHolds
<1>7. a \o b \o c \in Seq(Steps)
  BY <1>1, <1>6, JoinHolds
<1>8. a \o b \o c \o d \in Seq(Steps) /\ (p \in Gateway => Holds(a \o b \o c \o d, <<"ingress", "primary">>))
  BY <1>1, <1>3, <1>7, JoinHolds
<1>9. /\ a \o b \o c \o d \o e \in Seq(Steps)
      /\ p \in Gateway => Holds(a \o b \o c \o d \o e, <<"ingress", "primary">>)
      /\ Holds(a \o b \o c \o d \o e, <<"activate", "primary">>)
  BY <1>1, <1>3, <1>8, JoinHolds
<1> DEFINE z == a \o b \o c \o d \o e
<1>10. z \o f \in Seq(Steps) /\ \A st : Holds(z, st) \/ Holds(f, st) => Holds(z \o f, st)
  BY <1>1, <1>9, JoinHolds
<1>11. Completion(p) = z \o f
  BY <1>5
<1>12. Holds(z, <<"activate", "primary">>) /\ (p \in Gateway => Holds(z, <<"ingress", "primary">>))
  BY <1>9
<1> HIDE DEF z
<1>13. QED BY <1>4, <1>10, <1>11, <1>12

LEMMA ScheduleHolds ==
  ASSUME NEW p
  PROVE  /\ Schedule(p) \in Seq(Steps)
         /\ Holds(Schedule(p), <<"activate", "primary">>)
         /\ p \in Gateway => Holds(Schedule(p), <<"ingress", "primary">>)
         /\ \A r \in ToSet(RunnersOf(p)) : Holds(Schedule(p), <<"runner-enable", r>>)
         /\ \A r \in Required(p) \ host.keys : Holds(Schedule(p), <<"credentials", r>>)
<1> DEFINE a == If(~Present, <<"bootstrap">>)
           b == Credential(p, "reviewer")
           c == Credential(p, "writer")
           d == Credential(p, "codex")
           e == Primary(<<"apply">>)
           f == Completion(p)
           g == Primary(<<"post-check">>)
<1>1. a \in Seq(Steps) /\ e \in Seq(Steps) /\ g \in Seq(Steps)
  BY PrimaryHolds DEF PhaseNames, Present
<1>2. b \in Seq(Steps) /\ c \in Seq(Steps) /\ d \in Seq(Steps)
  BY CredentialHolds DEF Roles
<1>3. /\ "reviewer" \in Required(p) \ host.keys => Holds(b, <<"credentials", "reviewer">>)
      /\ "writer" \in Required(p) \ host.keys => Holds(c, <<"credentials", "writer">>)
      /\ "codex" \in Required(p) \ host.keys => Holds(d, <<"credentials", "codex">>)
  BY CredentialHolds DEF Roles
<1>4. Schedule(p) = a \o b \o c \o d \o e \o f \o g
  BY DEF Schedule
<1>5. f \in Seq(Steps)
  BY CompletionHolds
<1>6. /\ Holds(f, <<"activate", "primary">>)
      /\ p \in Gateway => Holds(f, <<"ingress", "primary">>)
      /\ \A r \in ToSet(RunnersOf(p)) : Holds(f, <<"runner-enable", r>>)
  BY CompletionHolds
<1> HIDE DEF a, b, c, d, e, f, g
<1>7. a \o b \in Seq(Steps) /\ \A st : Holds(b, st) => Holds(a \o b, st)
  BY <1>1, <1>2, JoinHolds
<1>8. a \o b \o c \in Seq(Steps) /\ \A st : Holds(b, st) \/ Holds(c, st) => Holds(a \o b \o c, st)
  BY <1>2, <1>7, JoinHolds
<1>9. /\ a \o b \o c \o d \in Seq(Steps)
      /\ \A st : Holds(b, st) \/ Holds(c, st) \/ Holds(d, st) => Holds(a \o b \o c \o d, st)
  BY <1>2, <1>8, JoinHolds
<1>10. /\ a \o b \o c \o d \o e \in Seq(Steps)
       /\ \A st : Holds(b, st) \/ Holds(c, st) \/ Holds(d, st) => Holds(a \o b \o c \o d \o e, st)
  BY <1>1, <1>9, JoinHolds
<1>11. /\ a \o b \o c \o d \o e \o f \in Seq(Steps)
       /\ \A st : Holds(b, st) \/ Holds(c, st) \/ Holds(d, st) \/ Holds(f, st) => Holds(a \o b \o c \o d \o e \o f, st)
  BY <1>5, <1>10, JoinHolds
<1>12. /\ a \o b \o c \o d \o e \o f \o g \in Seq(Steps)
       /\ \A st : Holds(b, st) \/ Holds(c, st) \/ Holds(d, st) \/ Holds(f, st)
                  => Holds(a \o b \o c \o d \o e \o f \o g, st)
  BY <1>1, <1>11, JoinHolds
<1>13. Required(p) \subseteq {"reviewer", "writer", "codex"}
  BY DEF Required
<1>14. \A r \in Required(p) \ host.keys : Holds(Schedule(p), <<"credentials", r>>)
  BY <1>3, <1>4, <1>12, <1>13
<1>15. QED BY <1>4, <1>6, <1>12, <1>14

LEMMA BeginsCommand ==
  ASSUME NEW todo \in Seq(Steps), NEW p \in Pairs, NEW token, NEW ordinary \in BOOLEAN, Stays,
         Command(todo, p, token, ordinary), ~ordinary => todo # <<>>, ordinary => todo = Schedule(p)
  PROVE  CommandInv'
<1>1. s' = [at |-> "next", todo |-> todo, pair |-> p, token |-> token, ordinary |-> ordinary] /\ UNCHANGED host
  BY DEF Command
<1>2. CommandShape' /\ Done' /\ s'.pair = p /\ s'.todo = todo /\ s'.ordinary = ordinary
  BY <1>1 DEF CommandShape, Done, At, Steps
<1>3. ASSUME ordinary PROVE Scheduled(p)'
  <2>1. \A ph, slot : Holds(todo, <<ph, slot>>) => Due(ph, slot)'
    BY <1>2 DEF Holds, Due
  <2>2. \A r \in Required(p) : r \in host'.keys \/ Due("credentials", r)'
    BY <1>1, <1>3, <2>1, ScheduleHolds
  <2>3. Due("activate", "primary")' /\ (p \in Gateway => Due("ingress", "primary")')
        /\ \A r \in ToSet(RunnersOf(p)) : Due("runner-enable", r)'
    BY <1>3, <2>1, ScheduleHolds
  <2>4. QED BY <2>2, <2>3 DEF Scheduled, Required, RunnersOf, ToSet
<1>4. QED BY <1>2, <1>3 DEF CommandInv

LEMMA ExpertBegins ==
  ASSUME NEW ph \in PhaseNames, NEW slot \in Slots, NEW p \in Pairs, NEW token, Stays,
         Expert(<<ph, slot>>, p, token)
  PROVE  CommandInv'
<1>1. <<<<ph, slot>>>> \in Seq(Steps) /\ <<<<ph, slot>>>> # <<>>
  BY DEF Steps
<1>2. QED BY <1>1, BeginsCommand DEF Expert

LEMMA OwnerKeeps ==
  ASSUME Stays, HostKnown, CommandInv, Owner
  PROVE  CommandInv'
<1>1. ASSUME NEW p \in Pairs, NEW token \in BOOLEAN, Install(p, token) PROVE CommandInv'
  <2>1. Command(Schedule(p), p, token, TRUE)
    BY <1>1 DEF Install
  <2>2. Schedule(p) \in Seq(Steps)
    BY ScheduleHolds
  <2>3. QED BY <2>1, <2>2, BeginsCommand
<1>2. ASSUME NEW ph \in TlsPhases, ExpertTls(ph) PROVE CommandInv'
  BY <1>2, ExpertBegins DEF ExpertTls, HostKnown, TlsPhases, PhaseNames, Slots
<1>3. ASSUME NEW r \in Runners, ExpertRegister(r) PROVE CommandInv'
  BY <1>3, ExpertBegins DEF ExpertRegister, HostKnown, PhaseNames, Slots
<1>4. CASE ExpertRecorded
  <2>1. PICK p \in Pairs :
          /\ host.record # None
          /\ IF host.record = "bootstrap" THEN Expert(<<"apply", "primary">>, p, FALSE)
             ELSE Expert(<<host.record, IF host.record = "runner-enable" THEN Head(RunnerOrder) ELSE "primary">>,
                         p, FALSE)
    BY <1>4 DEF ExpertRecorded
  <2>2. "apply" \in PhaseNames /\ "primary" \in Slots /\ Head(RunnerOrder) \in Slots /\ host.record \in PhaseNames
    BY <2>1 DEF HostKnown, Recorded, PhaseNames, Slots
  <2>3. QED BY <2>1, <2>2, ExpertBegins
<1>5. CASE Repair \/ \E p \in Pairs : Provide(p)
  BY <1>5, SameCommand DEF Repair, Provide
<1>6. QED BY <1>1, <1>2, <1>3, <1>4, <1>5 DEF Owner

-----------------------------------------------------------------------------
(* Every step                                                              *)

LEMMA HostKnownKept ==
  ASSUME HostShape, HostKnown, CommandInv, [Next]_vars
  PROVE  HostKnown'
<1> USE DEF HostKnown, Present
<1>0. CASE UNCHANGED host
  BY <1>0
<1>1. ASSUME NEW r \in Recorded \cup {None}, host' = [host EXCEPT !.record = r] PROVE HostKnown'
  BY <1>1 DEF HostShape
<1>2. ASSUME NEW g, host' = [host EXCEPT !.gate = g] PROVE HostKnown'
  BY <1>2 DEF HostShape
<1>3. CASE Owner
  <2>1. Owner => Repair \/ UNCHANGED host
    BY DEF Owner, Install, ExpertTls, ExpertRegister, ExpertRecorded, Expert, Command, Others, Provide
  <2>2. Repair => UNCHANGED host \/ OpenGate \/ Dispose
    BY DEF Repair, Clean, Unregister
  <2>3. QED BY <1>0, <1>1, <1>2, <1>3, <2>1, <2>2 DEF OpenGate, Dispose, Host
<1>4. CASE PhaseStep
  <2>1. CASE Quiesce \/ Direct \/ Clear \/ Resume
    BY <1>0, <1>1, <1>2, <2>1 DEF Quiesce, Direct, Clear, Resume, Host
  <2>2. CASE Begin
    <3>1. Phase \in Recorded /\ host' = [host EXCEPT !.record = Phase]
      BY <2>2 DEF Begin, At, CommandInv, Done, Host, Recorded
    <3>2. QED BY <1>1, <3>1
  <2>3. CASE Start \/ Serve \/ StageKey \/ StageToken \/ Activate
    BY <2>3 DEF Start, Serve, StageKey, StageToken, Staged, Activate, Host, HostShape
  <2>4. CASE Complete
    <3>1. Present /\ host' = [host EXCEPT !.manifest.stage = "ready"]
      BY <2>4, NoneAssumption DEF Complete, Incomplete, Host, Stages
    <3>2. host'.record = host.record /\ host'.manifest.pair = host.manifest.pair
      BY <3>1 DEF HostShape
    <3>3. QED BY <3>1, <3>2
  <2>5. CASE Check \/ ReadBack \/ Return \/ EnableProduction \/ EnableGeneral \/ RunTls \/ TlsPassed \/ RunRegister \/ Registers
    BY <1>0, <2>5 DEF Check, ReadBack, Return, EnableProduction, EnableGeneral, RunTls, TlsPassed,
       RunRegister, Registers
  <2>6. CASE Publish
    <3> DEFINE gate == IF host.gate = "none" THEN "open" ELSE host.gate
               stage == IF s.ordinary THEN "fresh-incomplete" ELSE "unmarked"
    <3>1. host' = [host EXCEPT !.gate = gate, !.manifest = [pair |-> s.pair, stage |-> stage]]
      BY <2>6 DEF Publish, Host
    <3>2. s.pair \in Pairs
      BY <2>6 DEF Publish, At, CommandInv, CommandShape
    <3> HIDE DEF gate, stage
    <3>3. QED BY <3>1, <3>2 DEF HostShape
  <2>7. QED BY <1>4, <2>1, <2>2, <2>3, <2>4, <2>5, <2>6 DEF PhaseStep, Alone, Joint
<1>5. CASE ToolStep \/ Stops \/ Dies \/ DiesUnknown \/ Fails \/ UNCHANGED vars
  BY <1>0, <1>5 DEF ToolStep, Stops, Dies, Ends, DiesUnknown, Fails, vars
<1>6. QED BY <1>3, <1>4, <1>5 DEF Next

LEMMA CommandKept ==
  ASSUME RegistrationInv, TlsInv, HasSource, HostShape, HostKnown, CommandInv, [Next]_vars
  PROVE  CommandInv'
<1>1. Stays
  BY NextStays
<1>2. CASE Owner
  BY <1>1, <1>2, OwnerKeeps
<1>3. CASE PhaseStep
  <2>1. Alone \/ Joint
    BY <1>3 DEF PhaseStep
  <2>2. QED BY <1>1, <1>3, <2>1, AloneKeeps, JointKeeps, ReadBackKeeps
<1>4. CASE ToolStep \/ Fails \/ UNCHANGED vars
  BY <1>1, <1>4, SameCommand DEF ToolStep, Fails, vars
<1>5. CASE Stops \/ Dies \/ DiesUnknown
  BY <1>5, EndedCommand DEF Stops, Dies, Ends, DiesUnknown
<1>6. QED BY <1>2, <1>3, <1>4, <1>5 DEF Next

\* The last phase has been left: nothing of what the pair asks for is still to be done.
LEMMA ReadyKept ==
  ASSUME RegistrationInv, TlsInv, ReadyInv, [Next]_vars
  PROVE  ReadyIsWhole'
<1>1. Stays
  BY NextStays DEF ReadyInv
<1>2. CASE host'.manifest = host.manifest
  <2>1. ASSUME NEW p, p = host.manifest.pair, host.manifest.stage = "ready" PROVE Whole(p)'
    <3>1. Whole(p)
      BY <2>1 DEF ReadyInv, ReadyIsWhole
    <3>2. QED BY <1>1, <3>1, WholeStays
  <2>2. QED BY <1>2, <2>1 DEF ReadyIsWhole
<1>3. CASE host'.manifest.stage # "ready"
  BY <1>3 DEF ReadyIsWhole
<1>4. CASE Complete
  <2>1. /\ s.at = "next" /\ s.todo = <<>> /\ host.manifest.pair = s.pair
        /\ host' = [host EXCEPT !.manifest.stage = "ready"]
    BY <1>4 DEF Complete, At, Host
  <2>2. s.ordinary /\ Scheduled(s.pair)
    BY <2>1 DEF ReadyInv, CommandInv, CommandShape, At
  <2>3. \A ph, slot : ~Due(ph, slot)
    BY <2>1 DEF Due
  <2>4. ASSUME NEW p, p = s.pair PROVE Whole(p)'
    <3>1. Scheduled(p)
      BY <2>2, <2>4
    <3>2. Whole(p)
      BY <2>3, <3>1 DEF Scheduled, Whole, Serves, Enabled
    <3>3. QED BY <1>1, <3>2, WholeStays
  <2>5. host'.manifest.pair = s.pair
    BY <2>1 DEF ReadyInv, HostShape
  <2>6. QED BY <2>4, <2>5 DEF ReadyIsWhole
<1>5. QED BY <1>2, <1>3, <1>4, HostStays DEF ReadyInv

LEMMA ReadyInitially == Init => ReadyInv
<1> SUFFICES ASSUME Init PROVE ReadyInv OBVIOUS
<1>1. HasSource
  BY DEF Init, TlsInit, HasSource, Working, NoWork
<1>2. HostShape /\ HostKnown /\ ReadyIsWhole
  BY NoneAssumption DEF Init, HostShape, HostKnown, ReadyIsWhole, NoManifest, Present, Stages
<1>3. CommandInv
  BY DEF Init, Idle, CommandInv, CommandShape, At
<1>4. QED BY <1>1, <1>2, <1>3 DEF ReadyInv

LEMMA ReadyInvariance == Spec => []ReadyInv
<1>1. RegistrationInv /\ TlsInv /\ ReadyInv /\ [Next]_vars => ReadyInv'
  BY CommandKept, HostKnownKept, HostStays, FilesStay, ReadyKept DEF ReadyInv
<1>2. QED BY <1>1, ReadyInitially, RegistrationInvariance, TlsInvariance, PTL DEF Spec

\* An installation is called ready only when nothing of what its pair asks for is missing, however
\* many commands and expert phases took part in it, in whichever order they died
\* (fresh_completion and finalize_fresh_manifest of intent_install.py).
THEOREM ReadyWhole == Spec => []ReadyIsWhole
<1>1. ReadyInv => ReadyIsWhole
  BY DEF ReadyInv
<1>2. QED BY <1>1, ReadyInvariance, PTL
=============================================================================
