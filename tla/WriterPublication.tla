------------------------- MODULE WriterPublication -------------------------
(***************************************************************************)
(* What the Writer does on GitHub for one automatic attempt, request by    *)
(* request: it consumes the ready command, pushes the candidate, opens the *)
(* pull request, posts the Outcome and marks the pull request Draft or     *)
(* Ready.  GitHub has no transactions, so each of these effects is first   *)
(* reserved in the attempt's record, then requested, then observed, then   *)
(* receipted.  AdmissionGate sees a call as one step; here a call can stop *)
(* at any request, and a request can act without an answer, not act, or    *)
(* act after everybody has stopped waiting for it.                         *)
(***************************************************************************)
EXTENDS Naturals, Sequences, FiniteSets

CONSTANTS
  Origins,      \* what an attempt may have been admitted on
  None,         \* no reservation, no Outcome
  MaxFaults,    \* bound: failures of requests, reads, helpers and controllers
  MaxMoves,     \* bound: what the owner and strangers do on GitHub
  MaxGrants     \* bound: owner authorisations of a publication recovery

ASSUME OriginsAssumption == Origins \subseteq {"issue", "pull_request"}
ASSUME NoneAssumption == None \notin [place : Nat, status : {"BLOCKED", "IMPLEMENTED"}]
                               \cup [draft : BOOLEAN, head : STRING]
ASSUME BoundsAssumption == MaxFaults \in Nat /\ MaxMoves \in Nat /\ MaxGrants \in Nat

VARIABLES
  origin,   \* envelope.target: an Issue with no branch yet, or a pull request under remediation
  hub,      \* GitHub: the branch, its pull requests, the Outcome comments and the ready label
  late,     \* requests GitHub has accepted and nobody waits for any more
  rec,      \* the Writer's record of the attempt
  jrn,      \* the runner's journal of the attempt
  call,     \* the Writer call that holds the publication lock
  client,   \* the process that holds the attempt lock
  sent,     \* history: how often an effect was requested
  faults, moves

vars == <<origin, hub, late, rec, jrn, call, client, sent, faults, moves>>

Statuses == {"BLOCKED", "IMPLEMENTED"}
Idle == [op |-> "none", at |-> "start", grant |-> 0, resumed |-> FALSE, orphan |-> FALSE]
Off == [at |-> "off", grant |-> 0]

NewPull(mine, draft) == [mine |-> mine, open |-> TRUE, draft |-> draft, by |-> "owner"]

Init ==
  /\ origin \in Origins
  /\ hub = [ref |-> "previous",
            prs |-> IF origin = "issue" THEN << >> ELSE <<NewPull(FALSE, FALSE)>>,
            notes |-> << >>, label |-> 1, commands |-> 1, removals |-> 0, erased |-> {}]
  /\ late = {}
  /\ rec = [ready |-> "none", publicationIntent |-> FALSE, publishedHead |-> FALSE,
            prIntent |-> FALSE, prNumber |-> 0, lifecycleIntent |-> None, commentIntent |-> None,
            commentBodies |-> None, successOutcomeIntent |-> FALSE, outcome |-> None,
            handoffComplete |-> FALSE, recoveries |-> << >>]
  /\ jrn = [exists |-> FALSE, exec |-> "none", diagnostic |-> FALSE, outcome |-> "none"]
  /\ call = Idle /\ client = Off
  /\ sent = [e \in {"push", "pull", "note", "unlabel"} |-> 0]
  /\ faults = 0 /\ moves = 0

(***************************************************************************)
(* GitHub.                                                                 *)
(***************************************************************************)
Open(h) == {n \in DOMAIN h.prs : h.prs[n].open}
NotesAt(place) == {i \in DOMAIN hub.notes : hub.notes[i].place = place}

(* What a request does when GitHub executes it.  A push is never forced; a *)
(* second pull request for the same branch is refused; a transition needs  *)
(* an open pull request.                                                   *)
Effective(h, e) ==
  \/ e.do = "push" /\ h.ref = "previous"
  \/ e.do = "pull" /\ Open(h) = {}
  \/ e.do \in {"note", "patch"}
  \/ e.do = "draft" /\ h.prs[e.pr].open
  \/ e.do = "unlabel" /\ h.label # 0

Apply(h, e) ==
  IF ~Effective(h, e) THEN h ELSE
  CASE e.do = "push"  -> [h EXCEPT !.ref = "candidate"]
    [] e.do = "pull"  -> [h EXCEPT !.prs = Append(@, NewPull(TRUE, TRUE))]
    [] e.do = "note"  -> [h EXCEPT !.notes = Append(@, [place |-> e.place, status |-> e.status])]
    [] e.do = "patch" -> [h EXCEPT !.notes[e.id].status = "IMPLEMENTED"]
    [] e.do = "draft" -> [h EXCEPT !.prs[e.pr].draft = e.draft, !.prs[e.pr].by = "writer"]
    [] OTHER          -> [h EXCEPT !.label = 0, !.removals = @ + 1, !.erased = @ \cup {h.label}]

Fault == faults < MaxFaults /\ faults' = faults + 1

(* One request of the running call: it acts and is answered, or it fails - *)
(* having acted, not having acted, or acting later.                        *)
Request(e, answered, failed) ==
  /\ sent' = [d \in DOMAIN sent |-> IF d = e.do THEN sent[d] + 1 ELSE sent[d]]
  /\ \/ /\ hub' = Apply(hub, e)
        /\ IF Effective(hub, e) THEN answered ELSE failed
        /\ UNCHANGED <<late, faults>>
     \/ /\ Fault /\ failed
        /\ \/ hub' = Apply(hub, e) /\ UNCHANGED late
           \/ UNCHANGED <<hub, late>>
           \/ late' = late \cup {e} /\ UNCHANGED hub
  /\ UNCHANGED <<origin, jrn, client, moves>>

(***************************************************************************)
(* Calls of the Writer.  They hold one kernel lock each, so there is one.  *)
(***************************************************************************)
Running == call.op # "none" /\ call.at \notin {"done", "failed"}
At(ops, place) == call.op \in ops /\ call.at = place

Goto(place) == call' = [call EXCEPT !.at = place]
Done == Goto("done")
Fail == Goto("failed")
Put(r) == rec' = r

(* A step that reads GitHub, decides and writes the record.                *)
Local == UNCHANGED <<origin, hub, late, jrn, client, sent, faults, moves>>

Pr == IF origin = "pull_request" THEN 1 ELSE rec.prNumber
Final == rec.outcome # None /\ rec.outcome.status = "IMPLEMENTED"
Blocked == rec.outcome # None /\ rec.outcome.status = "BLOCKED"
Ended == IF call.op = "refuse" THEN Fail ELSE Done

(* The ready command: reserved with the attempt, revalidated, deleted once, *)
(* and proved by the events the deletion left behind.                       *)
OwnCommand == hub.label = 1 /\ hub.commands = 1

Reserve ==
  /\ At({"admit"}, "start")
  /\ rec.ready = "none"
  /\ IF OwnCommand THEN Put([rec EXCEPT !.ready = "reserved"]) /\ Goto("consume")
                   ELSE Fail /\ UNCHANGED rec
  /\ Local

(* readyConsumptionFailure: the deletion is never repeated, a BLOCKED       *)
(* Outcome says so, and no envelope is returned.                            *)
Refuse == Put([rec EXCEPT !.ready = "uncertain"]) /\ call' = [call EXCEPT !.op = "refuse", !.at = "start"]

AdmitKnown ==
  /\ At({"admit"}, "start")
  /\ rec.ready # "none"
  /\ CASE rec.ready = "consumed" -> Done /\ UNCHANGED rec
       [] rec.ready = "reserved" -> (IF OwnCommand THEN Goto("consume") ELSE Fail) /\ UNCHANGED rec
       [] OTHER -> Refuse
  /\ Local

ReserveDelete ==
  /\ At({"admit"}, "consume")
  /\ IF OwnCommand THEN Put([rec EXCEPT !.ready = "deleting"]) /\ Goto("unlabel")
                   ELSE Refuse
  /\ Local

DeleteReady ==
  /\ At({"admit"}, "unlabel")
  /\ Request([do |-> "unlabel"], Goto("verify") /\ UNCHANGED rec, Refuse)

(* Mutant: the label being gone is taken for the one deletion this attempt  *)
(* reserved.                                                                *)
VerifyLabelOnly ==
  /\ At({"admit"}, "verify")
  /\ IF hub.label = 0 THEN Put([rec EXCEPT !.ready = "consumed"]) /\ Done ELSE Refuse
  /\ Local

VerifyDelete ==
  /\ At({"admit"}, "verify")
  /\ IF hub.commands = 1 /\ hub.removals = 1 /\ hub.label = 0
     THEN Put([rec EXCEPT !.ready = "consumed"]) /\ Done
     ELSE Refuse
  /\ Local

(* preflight: a finished attempt is restored, a pull request under          *)
(* remediation is at its expected head and Draft before the worker starts.  *)
Preflight ==
  /\ At({"preflight"}, "start")
  /\ IF Final \/ origin = "issue" THEN Done
     ELSE IF hub.ref # (IF rec.publishedHead THEN "candidate" ELSE "previous") \/ ~hub.prs[1].open
     THEN Fail
     ELSE IF hub.prs[1].draft THEN Done ELSE Goto("transition")
  /\ UNCHANGED rec
  /\ Local

(* publish-progress: a remote that is already the candidate is adopted only *)
(* under an intent of this attempt; otherwise one push is reserved.         *)
PublishStart ==
  /\ At({"publish"}, "start")
  /\ IF ~Final /\ hub.ref = "candidate" /\ (rec.publicationIntent \/ rec.publishedHead)
     THEN Put([rec EXCEPT !.publishedHead = TRUE, !.publicationIntent = FALSE]) /\ Goto("pull")
     ELSE IF ~Final /\ hub.ref = "previous" /\ ~rec.publicationIntent /\ ~rec.publishedHead
     THEN Put([rec EXCEPT !.publicationIntent = TRUE]) /\ Goto("push")
     ELSE Fail /\ UNCHANGED rec
  /\ Local

(* recover-publication: a consumed authorisation is only replayed; a new    *)
(* one is consumed by its reservation, before the push.                     *)
Replayed(g) == IF rec.recoveries[g] = "PUBLISHED" THEN Done ELSE Fail

(* Mutant: an authorisation whose push was not proven may push again.       *)
RecoverAgain ==
  /\ At({"recover"}, "start")
  /\ IF call.grant <= Len(rec.recoveries) /\ rec.recoveries[call.grant] = "PUBLISHED"
     THEN Done /\ UNCHANGED rec
     ELSE IF rec.publicationIntent /\ ~Final /\ ~rec.publishedHead /\ hub.ref = "previous"
     THEN /\ Put(IF call.grant <= Len(rec.recoveries) THEN rec
                 ELSE [rec EXCEPT !.recoveries = Append(@, "reserved")])
          /\ Goto("push")
     ELSE Fail /\ UNCHANGED rec
  /\ Local

(* Mutant: a reservation without a receipt blocks every later authorisation. *)
RecoverBlocked ==
  /\ At({"recover"}, "start")
  /\ IF call.grant <= Len(rec.recoveries) THEN Replayed(call.grant) /\ UNCHANGED rec
     ELSE IF /\ rec.publicationIntent /\ ~Final /\ ~rec.publishedHead
             /\ hub.ref = "previous"
             /\ \A g \in DOMAIN rec.recoveries : rec.recoveries[g] # "reserved"
     THEN Put([rec EXCEPT !.recoveries = Append(@, "reserved")]) /\ Goto("push")
     ELSE Fail /\ UNCHANGED rec
  /\ Local

RecoverStart ==
  /\ At({"recover"}, "start")
  /\ IF call.grant <= Len(rec.recoveries) THEN Replayed(call.grant) /\ UNCHANGED rec
     ELSE IF /\ rec.publicationIntent /\ ~Final /\ ~rec.publishedHead
             /\ hub.ref = "previous"
             /\ Cardinality(Open(hub)) <= 1 /\ (Pr # 0 => Pr \in Open(hub))
     THEN Put([rec EXCEPT !.recoveries = Append(@, "reserved")]) /\ Goto("push")
     ELSE Fail /\ UNCHANGED rec
  /\ Local

Push ==
  /\ At({"publish", "recover"}, "push")
  /\ Request([do |-> "push"], Goto("observe"), Goto("observe"))
  /\ UNCHANGED rec

(* Mutant: a branch that has left the previous head counts as published.    *)
ObserveMoved ==
  /\ At({"publish"}, "observe")
  /\ IF hub.ref # "previous"
     THEN Put([rec EXCEPT !.publishedHead = TRUE, !.publicationIntent = FALSE]) /\ Goto("pull")
     ELSE Fail /\ UNCHANGED rec
  /\ Local

(* Whatever the push answered, the observed branch decides.                 *)
Observe ==
  /\ At({"publish"}, "observe")
  /\ IF hub.ref = "candidate"
     THEN Put([rec EXCEPT !.publishedHead = TRUE, !.publicationIntent = FALSE]) /\ Goto("pull")
     ELSE Fail /\ UNCHANGED rec
  /\ Local

RecoverObserve ==
  /\ At({"recover"}, "observe")
  /\ IF hub.ref = "candidate"
     THEN /\ Put([rec EXCEPT !.publishedHead = TRUE, !.publicationIntent = FALSE,
                             !.recoveries[call.grant] = "PUBLISHED"])
          /\ Done
     ELSE Put([rec EXCEPT !.recoveries[call.grant] = "UNCERTAIN"]) /\ Fail
  /\ Local

(* An effect whose observation fails is receipted as uncertain.             *)
Unobserved ==
  /\ Fault
  /\ \/ /\ At({"recover"}, "observe")
        /\ Put([rec EXCEPT !.recoveries[call.grant] = "UNCERTAIN"]) /\ Fail
     \/ At({"admit"}, "verify") /\ Refuse
  /\ UNCHANGED <<origin, hub, late, jrn, client, sent, moves>>

(* finish and terminal-outcome: which Outcome may still be published.       *)
RecoveredHere == call.grant # 0 /\ rec.recoveries[call.grant] = "PUBLISHED" /\ ~rec.publicationIntent

FinishStart ==
  /\ At({"finish"}, "start")
  /\ IF Final THEN Done
     ELSE IF ~rec.publishedHead \/ (Blocked /\ ~RecoveredHere) THEN Fail
     ELSE Goto("pull")
  /\ UNCHANGED rec
  /\ Local

TerminalStart ==
  /\ At({"terminal", "refuse"}, "start")
  /\ IF rec.outcome # None THEN Ended
     ELSE IF rec.successOutcomeIntent THEN Fail
     ELSE Goto("pull")
  /\ UNCHANGED rec
  /\ Local

AfterPull == CASE call.op = "publish" -> "done" [] OTHER -> "transition"

(* existingPullRequest and pullRequest: the attempt's target is remembered  *)
(* before it is touched; an unanswered POST is resolved only by a pull      *)
(* request that carries this attempt's marker, and never repeated.          *)
FindPull ==
  /\ At({"publish", "finish", "terminal", "refuse"}, "pull")
  /\ LET open == Open(hub)
         creates == call.op \in {"publish", "finish"}
     IN \/ /\ origin = "pull_request"
           /\ IF 1 \in open THEN Goto(AfterPull) ELSE Fail
           /\ UNCHANGED rec
        \/ /\ origin = "issue" /\ open = {}
           /\ IF rec.prNumber # 0 \/ rec.prIntent THEN Fail /\ UNCHANGED rec
              ELSE IF creates THEN Put([rec EXCEPT !.prIntent = TRUE]) /\ Goto("create")
              ELSE Goto("note") /\ UNCHANGED rec
        \/ /\ origin = "issue" /\ open # {}
           /\ LET n == CHOOSE k \in open : TRUE IN
              IF \/ Cardinality(open) > 1
                 \/ rec.prNumber \notin {0, n}
                 \/ rec.prIntent /\ rec.prNumber = 0 /\ ~hub.prs[n].mine
              THEN Fail /\ UNCHANGED rec
              ELSE Put([rec EXCEPT !.prNumber = n]) /\ Goto(AfterPull)
  /\ Local

CreatePull ==
  /\ At({"publish", "finish"}, "create")
  /\ Request([do |-> "pull"],
             Put([rec EXCEPT !.prNumber = Len(hub.prs) + 1]) /\ Goto(AfterPull),
             Fail /\ UNCHANGED rec)

(***************************************************************************)
(* transitionPr: reserve, read again, mutate, read back.  Only the head    *)
(* for which the transition was reserved may be made Ready or Draft.       *)
(***************************************************************************)
Transitions == {"preflight", "finish", "terminal", "refuse", "handoff"}
WantsDraft == call.op # "handoff"

AfterTransition ==
  CASE call.op = "preflight" -> "done"
    [] call.op = "finish"    -> "intent"
    [] call.op = "handoff"   -> "save"
    [] OTHER                 -> "note"

SameTarget == hub.prs[Pr].open /\ hub.ref = rec.lifecycleIntent.head
Transitioned == Put([rec EXCEPT !.lifecycleIntent = None]) /\ Goto(AfterTransition)

ReserveTransition ==
  /\ At(Transitions, "transition")
  /\ LET intent == [draft |-> WantsDraft, head |-> hub.ref] IN
     IF \/ ~hub.prs[Pr].open
        \/ rec.lifecycleIntent \notin {None, intent}
        \/ call.op \in {"finish", "handoff"} /\ hub.ref # "candidate"
     THEN Fail /\ UNCHANGED rec
     ELSE Put([rec EXCEPT !.lifecycleIntent = intent]) /\ Goto("mutate")
  /\ Local

TransitionAlready ==
  /\ At(Transitions, "mutate")
  /\ SameTarget => hub.prs[Pr].draft = WantsDraft
  /\ IF SameTarget THEN Transitioned ELSE Fail /\ UNCHANGED rec
  /\ Local

Transition ==
  /\ At(Transitions, "mutate")
  /\ SameTarget /\ hub.prs[Pr].draft # WantsDraft
  /\ Request([do |-> "draft", pr |-> Pr, draft |-> WantsDraft], Goto("readback"), Goto("readback"))
  /\ UNCHANGED rec

ReadBack ==
  /\ At(Transitions, "readback")
  /\ IF SameTarget /\ hub.prs[Pr].draft = WantsDraft
     THEN Transitioned
     ELSE Fail /\ UNCHANGED rec
  /\ Local

(***************************************************************************)
(* commentOnce with the key "outcome", and the PATCH of a BLOCKED Outcome  *)
(* by the finish of a recovered attempt.                                   *)
(***************************************************************************)
Outcome == [place |-> Pr, status |-> IF call.op = "finish" THEN "IMPLEMENTED" ELSE "BLOCKED"]
IntentHere == rec.commentIntent # None /\ rec.commentIntent.place = Pr

(* The body a comment found under the attempt's marker is compared with.    *)
Expected ==
  IF rec.commentBodies # None THEN rec.commentBodies
  ELSE IF IntentHere THEN rec.commentIntent ELSE Outcome

FinishIntent ==
  /\ At({"finish"}, "intent")
  /\ Put([rec EXCEPT !.successOutcomeIntent = TRUE])
  /\ Goto(IF Blocked THEN "patch" ELSE "note")
  /\ Local

AdoptNote ==
  /\ At({"finish", "terminal", "refuse"}, "note")
  /\ NotesAt(Pr) # {}
  /\ IF \E i \in NotesAt(Pr) : NotesAt(Pr) = {i} /\ hub.notes[i] = Expected
     THEN /\ Put([rec EXCEPT !.commentIntent = IF IntentHere THEN None ELSE @])
          /\ Goto("save")
     ELSE Fail /\ UNCHANGED rec
  /\ Local

ReserveNote ==
  /\ At({"finish", "terminal", "refuse"}, "note")
  /\ NotesAt(Pr) = {}
  /\ IF rec.commentIntent # None THEN Fail /\ UNCHANGED rec
     ELSE Put([rec EXCEPT !.commentIntent = Outcome]) /\ Goto("post")
  /\ Local

PostNote ==
  /\ At({"finish", "terminal", "refuse"}, "post")
  /\ Request([do |-> "note", place |-> Pr, status |-> Outcome.status],
             Put([rec EXCEPT !.commentBodies = Outcome, !.commentIntent = None]) /\ Goto("save"),
             Fail /\ UNCHANGED rec)

PatchNote ==
  /\ At({"finish"}, "patch")
  /\ \E i \in NotesAt(rec.outcome.place) :
       \/ hub.notes[i].status = "IMPLEMENTED" /\ Goto("save") /\ Local
       \/ /\ hub.notes[i].status = "BLOCKED"
          /\ Request([do |-> "patch", id |-> i], Goto("save"), Fail)
  /\ UNCHANGED rec

Save ==
  /\ At({"finish", "terminal", "refuse", "handoff"}, "save")
  /\ IF call.op = "handoff" THEN Put([rec EXCEPT !.handoffComplete = TRUE])
     ELSE IF call.op = "finish"
     THEN Put([rec EXCEPT !.successOutcomeIntent = FALSE, !.handoffComplete = FALSE,
                          !.outcome = [Outcome EXCEPT !.place = IF Blocked THEN rec.outcome.place ELSE Pr]])
     ELSE Put([rec EXCEPT !.outcome = Outcome])
  /\ Ended
  /\ Local

(* complete-handoff: the protected journal and the public Outcome prove the *)
(* execution before the pull request is made Ready.                         *)
HandoffProven ==
  /\ jrn.outcome = "IMPLEMENTED" /\ jrn.exec = "success" /\ ~jrn.diagnostic
  /\ Final /\ ~rec.publicationIntent /\ rec.commentIntent = None
  /\ \E i \in NotesAt(rec.outcome.place) : hub.notes[i].status = "IMPLEMENTED"

HandoffStart ==
  /\ At({"handoff"}, "start")
  /\ IF rec.handoffComplete THEN Done ELSE IF HandoffProven THEN Goto("transition") ELSE Fail
  /\ UNCHANGED rec
  /\ Local

(* A read that fails, or the death of the helper, between any two steps.    *)
CallStops ==
  /\ Running /\ Fault /\ Fail
  /\ UNCHANGED <<origin, hub, late, rec, jrn, client, sent, moves>>

CallStep ==
  \/ Reserve \/ AdmitKnown \/ ReserveDelete \/ DeleteReady \/ VerifyDelete
  \/ Preflight
  \/ PublishStart \/ RecoverStart \/ Push \/ Observe \/ RecoverObserve
  \/ FinishStart \/ TerminalStart \/ FindPull \/ CreatePull
  \/ ReserveTransition \/ TransitionAlready \/ Transition \/ ReadBack
  \/ FinishIntent \/ AdoptNote \/ ReserveNote \/ PostNote \/ PatchNote
  \/ HandoffStart \/ Save

(***************************************************************************)
(* The process that holds the attempt lock: a controller (a first run or a *)
(* re-run) or the owner's publication recovery.  It makes one call at a    *)
(* time; when it dies its helper goes on.                                  *)
(***************************************************************************)
Controller == client.at # "off" /\ client.grant = 0
Recovery == client.at # "off" /\ client.grant # 0

Client(at) == client' = IF at = "off" THEN Off ELSE [client EXCEPT !.at = at]
Journal(j) == jrn' = j
FromClient == UNCHANGED <<origin, hub, late, rec, sent, moves>>

ControllerStarts ==
  /\ client = Off
  /\ client' = [at |-> "admit", grant |-> 0]
  /\ UNCHANGED <<jrn, call, faults>> /\ FromClient

(* The owner's recovery needs a returned, contained execution.  With an     *)
(* authorisation the Writer has not consumed it also needs a publication    *)
(* intent; it asks for it inside the block whose failure marks the journal. *)
OwnerRecovers ==
  /\ client = Off
  /\ jrn.exec # "none"
  /\ \E g \in 1 .. MaxGrants :
       /\ g <= Len(rec.recoveries) + 1
       /\ IF g > Len(rec.recoveries) /\ ~rec.publicationIntent
          THEN Journal([jrn EXCEPT !.diagnostic = TRUE]) /\ UNCHANGED client
          ELSE client' = [at |-> "recover", grant |-> g] /\ UNCHANGED jrn
  /\ UNCHANGED <<call, faults>> /\ FromClient

Invoke ==
  /\ client.at # "off" /\ call = Idle
  /\ call' = [Idle EXCEPT !.op = client.at, !.grant = client.grant, !.resumed = (rec.ready # "none")]
  /\ UNCHANGED <<client, jrn, faults>> /\ FromClient

(* The answer of the running call reaches the process that made it.         *)
Answered(result, places) ==
  /\ call.at = result /\ ~call.orphan /\ client.at \in places
  /\ call' = Idle
  /\ UNCHANGED faults /\ FromClient

AdmissionAnswered ==
  /\ Answered("done", {"admit"})
  /\ IF ~jrn.exists
     THEN IF call.resumed THEN Client("off") /\ UNCHANGED jrn
          ELSE Client("preflight") /\ Journal([jrn EXCEPT !.exists = TRUE])
     ELSE /\ Client(IF jrn.outcome = "none" THEN "preflight"
                    ELSE IF jrn.outcome = "IMPLEMENTED" /\ ~jrn.diagnostic THEN "handoff" ELSE "off")
          /\ UNCHANGED jrn

(* The worker runs here if it has not; AdmissionGate has its failures.      *)
Collectable == ~jrn.diagnostic /\ rec.outcome = None

PreflightAnswered ==
  /\ Answered("done", {"preflight"})
  /\ IF Final
     THEN Client("handoff") /\ Journal([jrn EXCEPT !.outcome = "IMPLEMENTED", !.diagnostic = FALSE])
     ELSE \E result \in IF jrn.exec = "none" THEN {"success", "blocked"} ELSE {jrn.exec} :
            IF Collectable
            THEN Client("publish") /\ Journal([jrn EXCEPT !.exec = result])
            ELSE Client("terminal") /\ Journal([jrn EXCEPT !.exec = result, !.diagnostic = TRUE])

PublishAnswered ==
  /\ Answered("done", {"publish"})
  /\ IF jrn.exec = "success" THEN Client("finish") /\ UNCHANGED jrn
     ELSE Client("terminal") /\ Journal([jrn EXCEPT !.diagnostic = TRUE])

(* The catch path: the diagnostic first, then the BLOCKED Outcome.          *)
ControllerCatches ==
  /\ Controller
  /\ Answered("failed", {"preflight", "publish", "finish"})
  /\ Client("terminal") /\ Journal([jrn EXCEPT !.diagnostic = TRUE])

TerminalAnswered ==
  /\ Answered("done", {"terminal"})
  /\ Client("off") /\ Journal([jrn EXCEPT !.outcome = rec.outcome.status])

RecoverAnswered ==
  /\ Answered("done", {"recover"})
  /\ IF jrn.outcome = "IMPLEMENTED" THEN Client("handoff") /\ UNCHANGED jrn
     ELSE IF jrn.exec = "success" THEN Client("finish") /\ UNCHANGED jrn
     ELSE Client("off") /\ Journal([jrn EXCEPT !.diagnostic = TRUE])

RecoveryCatches ==
  /\ Recovery
  /\ Answered("failed", {"recover", "finish"})
  /\ Client("off") /\ Journal([jrn EXCEPT !.diagnostic = TRUE])

FinishAnswered ==
  /\ Answered("done", {"finish"})
  /\ Client("handoff") /\ Journal([jrn EXCEPT !.outcome = rec.outcome.status, !.diagnostic = FALSE])

Leaves ==
  /\ \/ Answered("done", {"handoff"})
     \/ Answered("failed", {"admit", "terminal", "handoff"})
  /\ Client("off") /\ UNCHANGED jrn

ClientDies ==
  /\ client.at # "off" /\ Fault
  /\ client' = Off
  /\ call' = IF call = Idle THEN Idle ELSE [call EXCEPT !.orphan = TRUE]
  /\ UNCHANGED jrn /\ FromClient

OrphanEnds ==
  /\ call.orphan /\ call.at \in {"done", "failed"}
  /\ call' = Idle
  /\ UNCHANGED <<client, jrn, faults>> /\ FromClient

ClientStep ==
  \/ Invoke \/ AdmissionAnswered \/ PreflightAnswered \/ PublishAnswered \/ FinishAnswered
  \/ ControllerCatches \/ TerminalAnswered \/ RecoverAnswered \/ RecoveryCatches
  \/ Leaves \/ OrphanEnds

(***************************************************************************)
(* The owner, strangers and GitHub itself.                                 *)
(***************************************************************************)
Move == moves < MaxMoves /\ moves' = moves + 1
Elsewhere == UNCHANGED <<origin, rec, jrn, call, client, sent, faults>>

(* A later command: the label is taken off, if present, and applied again.  *)
OwnerCommands ==
  /\ Move
  /\ hub' = [hub EXCEPT !.commands = @ + 1, !.label = hub.commands + 1]
  /\ UNCHANGED late /\ Elsewhere

StrangerPushes ==
  /\ Move
  /\ hub.ref \in {"previous", "candidate"}
  /\ hub' = [hub EXCEPT !.ref = IF @ = "previous" THEN "foreign" ELSE "beyond"]
  /\ UNCHANGED late /\ Elsewhere

OwnerChangesPull ==
  /\ Move
  /\ \/ \E n \in Open(hub) : hub' = [hub EXCEPT !.prs[n].draft = ~@, !.prs[n].by = "owner"]
     \/ \E n \in Open(hub) : hub' = [hub EXCEPT !.prs[n].open = FALSE]
     \/ /\ Open(hub) = {} /\ (origin = "issue" => hub.ref # "previous")
        /\ hub' = [hub EXCEPT !.prs = Append(@, NewPull(FALSE, FALSE))]
  /\ UNCHANGED late /\ Elsewhere

LateArrival ==
  /\ \E e \in late : hub' = Apply(hub, e) /\ late' = late \ {e}
  /\ UNCHANGED moves /\ Elsewhere

Environment == OwnerCommands \/ StrangerPushes \/ OwnerChangesPull \/ LateArrival

Next ==
  \/ CallStep \/ CallStops \/ Unobserved
  \/ ClientStep \/ ControllerStarts \/ OwnerRecovers \/ ClientDies
  \/ Environment

Spec == Init /\ [][Next]_vars

(* Helpers and processes that live go on, and an owner with an unresolved   *)
(* push keeps posting authorisations and starting the recovery with them.   *)
NewGrant == OwnerRecovers /\ client'.grant = Len(rec.recoveries) + 1
FairSpec == Spec /\ WF_vars(CallStep) /\ WF_vars(ClientStep) /\ SF_vars(NewGrant)

(***************************************************************************)
(* Properties.                                                             *)
(***************************************************************************)
TypeOK ==
  /\ origin \in Origins
  /\ rec.ready \in {"none", "reserved", "deleting", "uncertain", "consumed"}
  /\ rec.prNumber \in 0 .. Len(hub.prs)
  /\ rec.commentIntent \in {None} \cup [place : Nat, status : Statuses]
  /\ rec.outcome \in {None} \cup [place : Nat, status : Statuses]
  /\ jrn.exec \in {"none", "success", "blocked"} /\ jrn.outcome \in {"none"} \cup Statuses
  /\ client.grant \in 0 .. MaxGrants /\ call.grant \in 0 .. MaxGrants
  /\ Len(rec.recoveries) <= MaxGrants

(* However calls stop, controllers are re-run and recoveries repeated: the  *)
(* ready label is deleted at most once, a pull request is asked for at most *)
(* once, each push has an authorisation of its own beside the first, and no *)
(* place carries two Outcomes (publication-broker.mjs 109-148, 197-235,     *)
(* 704-757, publication-recovery.mjs 102-158).                              *)
PublishedOnce ==
  /\ sent["unlabel"] <= 1 /\ sent["pull"] <= 1
  /\ sent["push"] <= 1 + Len(rec.recoveries)
  /\ \A place \in {0} \cup DOMAIN hub.prs : Cardinality(NotesAt(place)) <= 1

(* What the record claims can be read on GitHub: the published head is on   *)
(* the branch, a recorded Outcome is a comment, and neither a pull request  *)
(* the Writer made Ready nor a completed handoff is without the candidate   *)
(* and a public IMPLEMENTED Outcome (publication-broker.mjs 616-651).       *)
ClaimsArePublic ==
  /\ rec.publishedHead => hub.ref \in {"candidate", "beyond"}
  /\ rec.outcome # None => NotesAt(rec.outcome.place) # {}
  /\ \/ rec.handoffComplete
     \/ \E n \in DOMAIN hub.prs : ~hub.prs[n].draft /\ hub.prs[n].by = "writer"
     => rec.publishedHead /\ \E i \in DOMAIN hub.notes : hub.notes[i].status = "IMPLEMENTED"

(* An attempt goes on to its worker only under the command it was admitted  *)
(* for: if the deletion of the label may have erased a newer command of the *)
(* owner, nothing starts (publication-broker.mjs 109-148).                  *)
CommandIsItsOwn ==
  rec.ready = "consumed" \/ jrn.exists => hub.erased = {1} /\ hub.removals = 1

(* A reserved push that never reached the branch is not a dead end: an      *)
(* owner who goes on authorising gets it published, or the branch moves     *)
(* (publication-recovery.mjs 102-158).                                      *)
Recoverable ==
  /\ rec.publicationIntent /\ ~rec.publishedHead /\ hub.ref = "previous"
  /\ Pr # 0 => Pr \in Open(hub)
RecoverySettles == []<>~Recoverable
=============================================================================
