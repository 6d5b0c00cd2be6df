------------------------ MODULE WriterPublicationProofs ------------------------
(***************************************************************************)
(* Theorems about WriterPublication, for any number of failures, of moves  *)
(* on GitHub and of owner authorisations.                                  *)
(*                                                                         *)
(* A request that nobody waits for may act at any later time, so each part *)
(* of the invariant counts it as if it had acted already: the one deletion *)
(* of the label (Command), the pull request and the pushes (Asked), the    *)
(* comment of each place (Noted), and what a transition to Ready relies on *)
(* (Claimed).                                                              *)
(***************************************************************************)
EXTENDS WriterPublication, FiniteSetTheorems, SequenceTheorems, TLAPS

-----------------------------------------------------------------------------
(* The parts of the invariant                                              *)

Refs    == {"previous", "candidate", "foreign", "beyond"}
Landed  == {"candidate", "beyond"}
Pulls   == [mine : BOOLEAN, open : BOOLEAN, draft : BOOLEAN, by : {"owner", "writer"}]
Notes   == [place : Nat, status : Statuses]
Effects == {"push", "pull", "note", "patch", "draft", "unlabel"}
Asks    == {"push", "pull", "note", "unlabel"}
Working == {"transition", "mutate", "readback", "intent", "note", "post", "patch", "save"}

HubShape ==
  /\ hub = [ref |-> hub.ref, prs |-> hub.prs, notes |-> hub.notes, label |-> hub.label,
            commands |-> hub.commands, removals |-> hub.removals, erased |-> hub.erased]
  /\ hub.ref \in Refs /\ hub.prs \in Seq(Pulls) /\ hub.notes \in Seq(Notes)
  /\ hub.commands \in Nat /\ hub.label \in 0 .. hub.commands /\ hub.removals \in Nat
RecShape ==
  /\ rec = [ready |-> rec.ready, publicationIntent |-> rec.publicationIntent,
            publishedHead |-> rec.publishedHead, prIntent |-> rec.prIntent, prNumber |-> rec.prNumber,
            lifecycleIntent |-> rec.lifecycleIntent, commentIntent |-> rec.commentIntent,
            commentBodies |-> rec.commentBodies, successOutcomeIntent |-> rec.successOutcomeIntent,
            outcome |-> rec.outcome, handoffComplete |-> rec.handoffComplete,
            recoveries |-> rec.recoveries]
  /\ rec.publicationIntent \in BOOLEAN /\ rec.publishedHead \in BOOLEAN /\ rec.prIntent \in BOOLEAN
  /\ rec.commentIntent \in Notes \cup {None} /\ rec.outcome \in Notes \cup {None}
  /\ rec.recoveries \in Seq({"reserved", "PUBLISHED", "UNCERTAIN"})
CallShape ==
  /\ call = [op |-> call.op, at |-> call.at, grant |-> call.grant, resumed |-> call.resumed,
             orphan |-> call.orphan]
  /\ call.orphan \in BOOLEAN
ClientShape == client = [at |-> client.at, grant |-> client.grant]
               /\ jrn = [exists |-> jrn.exists, exec |-> jrn.exec, diagnostic |-> jrn.diagnostic,
                         outcome |-> jrn.outcome]
SentShape == sent = [a \in Asks |-> sent[a]] /\ \A a \in Asks : sent[a] \in Nat
Known(e) ==
  /\ e.do \in Effects
  /\ e.do = "note" => e.place \in Nat /\ e.status \in Statuses
  /\ e.do = "patch" => e.id \in DOMAIN hub.notes
  /\ e.do = "draft" => e.pr \in DOMAIN hub.prs /\ e.draft \in BOOLEAN
  /\ e.do = "unlabel" => e = [do |-> "unlabel"]
LateShape == \A e \in late : Known(e)

\* The label is deleted once, and only the command of this attempt goes on.
Late(do) == \E e \in late : e.do = do
Command ==
  /\ hub.removals = 0 <=> hub.erased = {}
  /\ hub.erased \subseteq 1 .. hub.commands
  /\ hub.removals <= 1 /\ sent["unlabel"] <= 1
  /\ sent["unlabel"] = 0 => hub.removals = 0
  /\ Late("unlabel") => sent["unlabel"] = 1 /\ hub.removals = 0
  /\ rec.ready \in {"none", "reserved"} => sent["unlabel"] = 0
  /\ call.at = "consume" => rec.ready = "reserved"
  /\ call.at = "unlabel" => rec.ready = "deleting" /\ sent["unlabel"] = 0
  /\ call.at = "verify" => rec.ready = "deleting"
  /\ rec.ready = "consumed" => hub.erased = {1} /\ hub.removals = 1
Admitted ==
  /\ call.op = "admit" /\ call.at = "done" => rec.ready = "consumed"
  /\ call.op = "refuse" => call.at # "done"
  /\ call.op # "off" /\ (call.op = "none" => call.at = "start")
  /\ call.at \in {"consume", "unlabel", "verify"} => call.op = "admit"
  /\ jrn.exists => rec.ready = "consumed"
  /\ call.op = "none" \/ call.orphan \/ client.at = call.op \/ (client.at = "admit" /\ call.op = "refuse")

\* One pull request, and a push for each authorisation beside the first.
Asked ==
  /\ sent["pull"] <= 1 /\ (sent["pull"] # 0 => rec.prIntent)
  /\ call.at = "create" => rec.prIntent /\ sent["pull"] = 0
  /\ sent["push"] <= 1 + Len(rec.recoveries)
  /\ sent["push"] # 0 => rec.publicationIntent \/ rec.publishedHead
  /\ call.at = "push" => rec.publicationIntent /\ sent["push"] <= Len(rec.recoveries)

\* One comment in each place, counting one that may still arrive.
Noted ==
  /\ \A i, j \in DOMAIN hub.notes : hub.notes[i].place = hub.notes[j].place => i = j
  /\ \A e \in late : e.do = "note" =>
       rec.commentIntent # None /\ rec.commentIntent.place = e.place /\ NotesAt(e.place) = {}
  /\ \A e, f \in late : e.do = "note" /\ f.do = "note" => e = f
  /\ call.at = "post" => /\ rec.commentIntent # None /\ rec.commentIntent.place = Pr
                         /\ NotesAt(Pr) = {} /\ ~Late("note")

\* Where there is a pull request to work on.
Placed ==
  /\ origin \in {"issue", "pull_request"} /\ (origin = "pull_request" => Len(hub.prs) # 0)
  /\ Pr \in 0 .. Len(hub.prs)
  /\ call.at \in {"transition", "mutate", "readback"} => Pr # 0
  /\ call.op = "finish" /\ call.at \in Working => Pr # 0
  /\ Final => Pr # 0

\* What the record claims is public, and a Ready pull request has all of it.
Shown == rec.publishedHead /\ \E i \in DOMAIN hub.notes : hub.notes[i].status = "IMPLEMENTED"
Claimed ==
  /\ rec.publishedHead => hub.ref \in Landed
  /\ rec.outcome # None => NotesAt(rec.outcome.place) # {}
  /\ Final => rec.publishedHead
  /\ call.op = "finish" /\ call.at \in Working \cup {"pull", "create"} => rec.publishedHead
  /\ call.at = "patch" => Blocked
  /\ call.at = "save" /\ call.op # "handoff" => NotesAt(Pr) # {} \/ (call.op = "finish" /\ Blocked)
Ready ==
  /\ rec.handoffComplete \/ (call.op = "handoff" /\ call.at \in Working) => Shown
  /\ \A e \in late : e.do = "draft" /\ ~e.draft => Shown
  /\ \A n \in DOMAIN hub.prs : ~hub.prs[n].draft /\ hub.prs[n].by = "writer" => Shown

Shape == HubShape /\ RecShape /\ CallShape /\ ClientShape /\ SentShape /\ LateShape
Inv   == Shape /\ Command /\ Admitted /\ Asked /\ Noted /\ Placed /\ Claimed /\ Ready

-----------------------------------------------------------------------------
(* The steps of a call that read GitHub and write the record               *)

LEMMA LocalCommand ==
  ASSUME Inv, Local, UNCHANGED <<rec.ready, call.op, call.orphan>>, call.op \notin {"none", "admit"},
         call'.at \notin {"consume", "unlabel", "verify"}, call.op = "refuse" => call'.at # "done"
  PROVE  Command' /\ Admitted'
BY DEF Inv, Local, Command, Admitted, Late

LEMMA LocalNoted ==
  ASSUME Inv, Local, UNCHANGED <<rec.commentIntent, rec.prNumber>>, call'.at # "post"
  PROVE  Noted'
BY DEF Inv, Local, Noted, NotesAt, Late, Pr

LEMMA ClaimedKept ==
  ASSUME Claimed, UNCHANGED <<hub, origin, rec.outcome, rec.publishedHead, rec.prNumber>>,
         call'.at \notin Working \cup {"pull", "create"}
  PROVE  Claimed'
BY DEF Claimed, Working, Pr, NotesAt, Final, Blocked

\* A head that was seen on the branch may be claimed.
LEMMA ClaimedFound ==
  ASSUME Claimed, Local, UNCHANGED <<rec.outcome, rec.prNumber>>,
         rec'.publishedHead => rec.publishedHead \/ hub.ref = "candidate",
         rec.publishedHead => rec'.publishedHead,
         call'.at \in {"pull", "push", "done", "failed"}, call'.op # "finish"
  PROVE  Claimed'
BY DEF Claimed, Local, Landed, Working, Pr, NotesAt, Final, Blocked

LEMMA ReserveKeeps == Inv /\ Reserve => Inv'
<1> SUFFICES ASSUME Inv, Reserve PROVE Inv' OBVIOUS
<1>1. RecShape' /\ CallShape'
  BY DEF Inv, Shape, Reserve, Local, At, Put, Goto, Fail, RecShape, CallShape
<1>2. Command' /\ Admitted'
  BY DEF Inv, Shape, Reserve, Local, At, Put, Goto, Fail, Command, Admitted, Late, RecShape,
     CallShape, HubShape, SentShape
<1>3. Asked'
  BY DEF Inv, Shape, Reserve, Local, At, Put, Goto, Fail, Asked, RecShape, CallShape, SentShape
<1>4. Noted'
  BY DEF Inv, Shape, Reserve, Local, At, Put, Goto, Fail, Noted, NotesAt, Late, Pr, RecShape,
     CallShape
<1>5. Placed'
  BY DEF Inv, Shape, Reserve, Local, At, Put, Goto, Fail, Placed, Pr, Final, Working, RecShape,
     CallShape, HubShape
<1>6. Claimed'
  BY DEF Inv, Shape, Reserve, Local, At, Put, Goto, Fail, Claimed, Landed, Pr, NotesAt, Final,
     Blocked, Working, RecShape, CallShape
<1>7. Ready'
  BY DEF Inv, Shape, Reserve, Local, At, Put, Goto, Fail, Ready, Working, Shown, RecShape, CallShape
<1>8. QED BY <1>1, <1>2, <1>3, <1>4, <1>5, <1>6, <1>7 DEF Inv, Shape, Reserve, Local, HubShape,
             ClientShape, SentShape, LateShape, Known

LEMMA AdmitKnownKeeps == Inv /\ AdmitKnown => Inv'
<1> SUFFICES ASSUME Inv, AdmitKnown PROVE Inv' OBVIOUS
<1>1. RecShape' /\ CallShape'
  BY DEF Inv, Shape, AdmitKnown, Local, At, Put, Goto, Fail, Done, Refuse, RecShape, CallShape
<1>2. Command' /\ Admitted'
  <2>1. /\ call.op = "admit" /\ call'.orphan = call.orphan
        /\ \/ rec.ready = "consumed" /\ UNCHANGED rec /\ call'.op = "admit" /\ call'.at = "done"
           \/ rec.ready = "reserved" /\ UNCHANGED rec /\ call'.op = "admit" /\ call'.at \in {"consume", "failed"}
           \/ /\ rec.ready \notin {"none", "reserved", "consumed"} /\ rec'.ready = "uncertain"
              /\ call'.op = "refuse" /\ call'.at = "start"
    BY DEF Inv, Shape, AdmitKnown, At, Put, Goto, Fail, Done, Refuse, RecShape, CallShape
  <2>2. QED BY <2>1 DEF Inv, AdmitKnown, Local, Command, Admitted, Late
<1>3. Asked'
  BY DEF Inv, Shape, AdmitKnown, Local, At, Put, Goto, Fail, Done, Refuse, Asked, RecShape,
     CallShape, SentShape
<1>4. Noted'
  <2>1. UNCHANGED <<rec.commentIntent, rec.prNumber>> /\ call'.at # "post"
    BY DEF Inv, Shape, AdmitKnown, At, Put, Goto, Fail, Done, Refuse, RecShape, CallShape
  <2>2. QED BY <2>1, LocalNoted DEF AdmitKnown
<1>5. Placed'
  BY DEF Inv, Shape, AdmitKnown, Local, At, Put, Goto, Fail, Done, Refuse, Placed, Pr, Final,
     Working, RecShape, CallShape, HubShape
<1>6. Claimed'
  <2>1. UNCHANGED <<rec.outcome, rec.publishedHead, rec.prNumber>>
    BY DEF Inv, Shape, AdmitKnown, Local, At, Put, Goto, Fail, Done, Refuse, RecShape, CallShape
  <2>2. call'.at \notin Working \cup {"pull", "create"}
    BY DEF Inv, Shape, AdmitKnown, Local, At, Put, Goto, Fail, Done, Refuse, Working, RecShape, CallShape
  <2>3. QED BY <2>1, <2>2, ClaimedKept DEF Inv, AdmitKnown, Local
<1>7. Ready'
  BY DEF Inv, Shape, AdmitKnown, Local, At, Put, Goto, Fail, Done, Refuse, Ready, Working, Shown,
     RecShape, CallShape
<1>8. QED BY <1>1, <1>2, <1>3, <1>4, <1>5, <1>6, <1>7 DEF Inv, Shape, AdmitKnown, Local, HubShape,
             ClientShape, SentShape, LateShape, Known

LEMMA ReserveDeleteKeeps == Inv /\ ReserveDelete => Inv'
<1> SUFFICES ASSUME Inv, ReserveDelete PROVE Inv' OBVIOUS
<1>1. RecShape' /\ CallShape'
  BY DEF Inv, Shape, ReserveDelete, Local, At, Put, Goto, Fail, Refuse, RecShape, CallShape
<1>2. Command' /\ Admitted'
  BY DEF Inv, Shape, ReserveDelete, Local, At, Put, Goto, Fail, Refuse, Command, Admitted, Late,
     RecShape, CallShape, HubShape, SentShape
<1>3. Asked'
  BY DEF Inv, Shape, ReserveDelete, Local, At, Put, Goto, Fail, Refuse, Asked, RecShape, CallShape,
     SentShape
<1>4. Noted'
  <2>1. UNCHANGED <<rec.commentIntent, rec.prNumber>> /\ call'.at # "post"
    BY DEF Inv, Shape, ReserveDelete, At, Put, Goto, Fail, Refuse, RecShape, CallShape
  <2>2. QED BY <2>1, LocalNoted DEF ReserveDelete
<1>5. Placed'
  BY DEF Inv, Shape, ReserveDelete, Local, At, Put, Goto, Fail, Refuse, Placed, Pr, Final, Working,
     RecShape, CallShape, HubShape
<1>6. Claimed'
  <2>1. UNCHANGED <<rec.outcome, rec.publishedHead, rec.prNumber>>
    BY DEF Inv, Shape, ReserveDelete, Local, At, Put, Goto, Fail, Done, Refuse, RecShape, CallShape
  <2>2. call'.at \notin Working \cup {"pull", "create"}
    BY DEF Inv, Shape, ReserveDelete, Local, At, Put, Goto, Fail, Done, Refuse, Working, RecShape, CallShape
  <2>3. QED BY <2>1, <2>2, ClaimedKept DEF Inv, ReserveDelete, Local
<1>7. Ready'
  BY DEF Inv, Shape, ReserveDelete, Local, At, Put, Goto, Fail, Refuse, Ready, Working, Shown,
     RecShape, CallShape
<1>8. QED BY <1>1, <1>2, <1>3, <1>4, <1>5, <1>6, <1>7 DEF Inv, Shape, ReserveDelete, Local, HubShape,
             ClientShape, SentShape, LateShape, Known

LEMMA VerifyDeleteKeeps == Inv /\ VerifyDelete => Inv'
<1> SUFFICES ASSUME Inv, VerifyDelete PROVE Inv' OBVIOUS
<1>1. RecShape' /\ CallShape'
  BY DEF Inv, Shape, VerifyDelete, Local, At, Put, Goto, Fail, Done, Refuse, RecShape, CallShape
<1>2. Command' /\ Admitted'
  <2>1. hub.removals = 1 /\ hub.commands = 1 => hub.erased = {1}
    BY DEF Inv, Shape, Command, HubShape
  <2>2. QED BY <2>1 DEF Inv, Shape, VerifyDelete, Local, At, Put, Goto, Fail, Done, Refuse, Command,
               Admitted, Late, RecShape, CallShape
<1>3. Asked'
  BY DEF Inv, Shape, VerifyDelete, Local, At, Put, Goto, Fail, Done, Refuse, Asked, RecShape,
     CallShape, SentShape
<1>4. Noted'
  <2>1. UNCHANGED <<rec.commentIntent, rec.prNumber>> /\ call'.at # "post"
    BY DEF Inv, Shape, VerifyDelete, At, Put, Goto, Fail, Done, Refuse, RecShape, CallShape
  <2>2. QED BY <2>1, LocalNoted DEF VerifyDelete
<1>5. Placed'
  BY DEF Inv, Shape, VerifyDelete, Local, At, Put, Goto, Fail, Done, Refuse, Placed, Pr, Final,
     Working, RecShape, CallShape, HubShape
<1>6. Claimed'
  <2>1. UNCHANGED <<rec.outcome, rec.publishedHead, rec.prNumber>>
    BY DEF Inv, Shape, VerifyDelete, Local, At, Put, Goto, Fail, Done, Refuse, RecShape, CallShape
  <2>2. call'.at \notin Working \cup {"pull", "create"}
    BY DEF Inv, Shape, VerifyDelete, Local, At, Put, Goto, Fail, Done, Refuse, Working, RecShape, CallShape
  <2>3. QED BY <2>1, <2>2, ClaimedKept DEF Inv, VerifyDelete, Local
<1>7. Ready'
  BY DEF Inv, Shape, VerifyDelete, Local, At, Put, Goto, Fail, Done, Refuse, Ready, Working, Shown,
     RecShape, CallShape
<1>8. QED BY <1>1, <1>2, <1>3, <1>4, <1>5, <1>6, <1>7 DEF Inv, Shape, VerifyDelete, Local, HubShape,
             ClientShape, SentShape, LateShape, Known

LEMMA PreflightKeeps == Inv /\ Preflight => Inv'
<1> SUFFICES ASSUME Inv, Preflight PROVE Inv' OBVIOUS
<1>1. RecShape' /\ CallShape'
  BY DEF Inv, Shape, Preflight, Local, At, Goto, Fail, Done, RecShape, CallShape
<1>2. Command' /\ Admitted'
  BY DEF Inv, Shape, Preflight, Local, At, Goto, Fail, Done, Command, Admitted, Late, RecShape,
     CallShape, HubShape, SentShape
<1>3. Asked'
  BY DEF Inv, Shape, Preflight, Local, At, Goto, Fail, Done, Asked, RecShape, CallShape, SentShape
<1>4. Noted'
  BY DEF Inv, Shape, Preflight, Local, At, Goto, Fail, Done, Noted, NotesAt, Late, Pr, RecShape,
     CallShape
<1>5. Placed'
  BY DEF Inv, Shape, Preflight, Local, At, Goto, Fail, Done, Placed, Pr, Final, Working, RecShape,
     CallShape, HubShape
<1>6. Claimed'
  BY DEF Inv, Shape, Preflight, Local, At, Goto, Fail, Done, Claimed, Landed, Pr, NotesAt, Final,
     Blocked, Working, RecShape, CallShape
<1>7. Ready'
  BY DEF Inv, Shape, Preflight, Local, At, Goto, Fail, Done, Ready, Working, Shown, RecShape,
     CallShape
<1>8. QED BY <1>1, <1>2, <1>3, <1>4, <1>5, <1>6, <1>7 DEF Inv, Shape, Preflight, Local, HubShape,
             ClientShape, SentShape, LateShape, Known

LEMMA PublishStartKeeps == Inv /\ PublishStart => Inv'
<1> SUFFICES ASSUME Inv, PublishStart PROVE Inv' OBVIOUS
<1>1. RecShape' /\ CallShape'
  <2>1. CallShape'
    BY DEF Inv, Shape, PublishStart, At, Goto, Fail, CallShape
  <2>2. \/ UNCHANGED rec
        \/ rec' = [rec EXCEPT !.publishedHead = TRUE, !.publicationIntent = FALSE]
        \/ rec' = [rec EXCEPT !.publicationIntent = TRUE]
    BY DEF PublishStart, Put
  <2>3. QED BY <2>1, <2>2 DEF Inv, Shape, RecShape
<1>2. Command' /\ Admitted'
  <2>1. /\ UNCHANGED <<rec.ready, call.op, call.orphan>> /\ call.op \notin {"none", "admit"}
        /\ call'.at \notin {"consume", "unlabel", "verify"} /\ (call.op = "refuse" => call'.at # "done")
    BY DEF Inv, Shape, PublishStart, At, Put, Goto, Fail, RecShape, CallShape
  <2>2. QED BY <2>1, LocalCommand DEF PublishStart
<1>3. Asked'
  <2>1. /\ UNCHANGED <<rec.recoveries, rec.prIntent>> /\ call'.at \in {"pull", "push", "failed"}
        /\ rec.publicationIntent \/ rec.publishedHead => rec'.publicationIntent \/ rec'.publishedHead
        /\ call'.at = "push" => rec'.publicationIntent /\ ~rec.publicationIntent /\ ~rec.publishedHead
    BY DEF Inv, Shape, PublishStart, Local, At, Put, Goto, Fail, RecShape, CallShape
  <2>2. Len(rec.recoveries) \in Nat /\ sent["push"] \in Nat /\ UNCHANGED sent
    BY DEF Inv, Shape, RecShape, SentShape, Asks, PublishStart, Local
  <2>3. QED BY <2>1, <2>2 DEF Inv, Asked
<1>4. Noted'
  <2>1. UNCHANGED <<rec.commentIntent, rec.prNumber>> /\ call'.at # "post"
    BY DEF Inv, Shape, PublishStart, At, Put, Goto, Fail, RecShape, CallShape
  <2>2. QED BY <2>1, LocalNoted DEF PublishStart
<1>5. Placed'
  BY DEF Inv, Shape, PublishStart, Local, At, Put, Goto, Fail, Placed, Pr, Final, Working, RecShape,
     CallShape, HubShape
<1>6. Claimed'
  <2>1. /\ UNCHANGED <<rec.outcome, rec.prNumber>> /\ call'.at \in {"pull", "push", "failed"} /\ call'.op = "publish"
        /\ rec'.publishedHead => rec.publishedHead \/ hub.ref = "candidate"
        /\ rec.publishedHead => rec'.publishedHead
    BY DEF Inv, Shape, PublishStart, At, Put, Goto, Fail, RecShape, CallShape
  <2>2. QED BY <2>1, ClaimedFound DEF Inv, PublishStart
<1>7. Ready'
  BY DEF Inv, Shape, PublishStart, Local, At, Put, Goto, Fail, Ready, Working, Shown, RecShape,
     CallShape
<1>8. QED BY <1>1, <1>2, <1>3, <1>4, <1>5, <1>6, <1>7 DEF Inv, Shape, PublishStart, Local, HubShape,
             ClientShape, SentShape, LateShape, Known

LEMMA RecoverStartKeeps == Inv /\ RecoverStart => Inv'
<1> SUFFICES ASSUME Inv, RecoverStart PROVE Inv' OBVIOUS
<1>1. RecShape' /\ CallShape'
  BY DEF Inv, Shape, RecoverStart, Local, At, Put, Goto, Fail, Done, Replayed, RecShape, CallShape
<1>2. Command' /\ Admitted'
  <2>1. /\ UNCHANGED <<rec.ready, call.op, call.orphan>> /\ call.op \notin {"none", "admit"}
        /\ call'.at \notin {"consume", "unlabel", "verify"} /\ (call.op = "refuse" => call'.at # "done")
    BY DEF Inv, Shape, RecoverStart, At, Put, Goto, Fail, Done, Replayed, RecShape, CallShape
  <2>2. QED BY <2>1, LocalCommand DEF RecoverStart
<1>3. Asked'
  <2>1. Append(rec.recoveries, "reserved") \in Seq({"reserved", "PUBLISHED", "UNCERTAIN"})
        /\ Len(Append(rec.recoveries, "reserved")) = Len(rec.recoveries) + 1
    BY DEF Inv, Shape, RecShape
  <2>2. /\ UNCHANGED <<rec.publicationIntent, rec.publishedHead, rec.prIntent>>
        /\ call'.at \in {"push", "done", "failed"}
        /\ Len(rec'.recoveries) = IF call'.at = "push" THEN Len(rec.recoveries) + 1 ELSE Len(rec.recoveries)
        /\ call'.at = "push" => rec.publicationIntent
    BY <2>1 DEF Inv, Shape, RecoverStart, Local, At, Put, Goto, Fail, Done, Replayed, RecShape, CallShape
  <2>3. Len(rec.recoveries) \in Nat /\ sent["push"] \in Nat /\ UNCHANGED sent
    BY DEF Inv, Shape, RecShape, SentShape, Asks, RecoverStart, Local
  <2>4. QED BY <2>2, <2>3 DEF Inv, Asked
<1>4. Noted'
  <2>1. UNCHANGED <<rec.commentIntent, rec.prNumber>> /\ call'.at # "post"
    BY DEF Inv, Shape, RecoverStart, At, Put, Goto, Fail, Done, Replayed, RecShape, CallShape
  <2>2. QED BY <2>1, LocalNoted DEF RecoverStart
<1>5. Placed'
  BY DEF Inv, Shape, RecoverStart, Local, At, Put, Goto, Fail, Done, Replayed, Placed, Pr, Final,
     Working, RecShape, CallShape, HubShape
<1>6. Claimed'
  <2>1. UNCHANGED <<rec.outcome, rec.publishedHead, rec.prNumber>>
    BY DEF Inv, Shape, RecoverStart, Local, At, Put, Goto, Fail, Done, Replayed, RecShape, CallShape
  <2>2. call'.at \notin Working \cup {"pull", "create"}
    BY DEF Inv, Shape, RecoverStart, Local, At, Put, Goto, Fail, Done, Replayed, Working, RecShape,
       CallShape
  <2>3. QED BY <2>1, <2>2, ClaimedKept DEF Inv, RecoverStart, Local
<1>7. Ready'
  BY DEF Inv, Shape, RecoverStart, Local, At, Put, Goto, Fail, Done, Replayed, Ready, Working,
     Shown, RecShape, CallShape
<1>8. QED BY <1>1, <1>2, <1>3, <1>4, <1>5, <1>6, <1>7 DEF Inv, Shape, RecoverStart, Local, HubShape,
             ClientShape, SentShape, LateShape, Known

LEMMA ObserveKeeps == Inv /\ Observe => Inv'
<1> SUFFICES ASSUME Inv, Observe PROVE Inv' OBVIOUS
<1>1. RecShape' /\ CallShape'
  BY DEF Inv, Shape, Observe, Local, At, Put, Goto, Fail, RecShape, CallShape
<1>2. Command' /\ Admitted'
  <2>1. /\ UNCHANGED <<rec.ready, call.op, call.orphan>> /\ call.op \notin {"none", "admit"}
        /\ call'.at \notin {"consume", "unlabel", "verify"} /\ (call.op = "refuse" => call'.at # "done")
    BY DEF Inv, Shape, Observe, At, Put, Goto, Fail, RecShape, CallShape
  <2>2. QED BY <2>1, LocalCommand DEF Observe
<1>3. Asked'
  BY DEF Inv, Shape, Observe, Local, At, Put, Goto, Fail, Asked, RecShape, CallShape, SentShape
<1>4. Noted'
  <2>1. UNCHANGED <<rec.commentIntent, rec.prNumber>> /\ call'.at # "post"
    BY DEF Inv, Shape, Observe, At, Put, Goto, Fail, RecShape, CallShape
  <2>2. QED BY <2>1, LocalNoted DEF Observe
<1>5. Placed'
  BY DEF Inv, Shape, Observe, Local, At, Put, Goto, Fail, Placed, Pr, Final, Working, RecShape,
     CallShape, HubShape
<1>6. Claimed'
  <2>1. /\ UNCHANGED <<rec.outcome, rec.prNumber>> /\ call'.at \in {"pull", "failed"} /\ call'.op = "publish"
        /\ rec'.publishedHead => rec.publishedHead \/ hub.ref = "candidate"
        /\ rec.publishedHead => rec'.publishedHead
    BY DEF Inv, Shape, Observe, At, Put, Goto, Fail, RecShape, CallShape
  <2>2. QED BY <2>1, ClaimedFound DEF Inv, Observe
<1>7. Ready'
  BY DEF Inv, Shape, Observe, Local, At, Put, Goto, Fail, Ready, Working, Shown, RecShape, CallShape
<1>8. QED BY <1>1, <1>2, <1>3, <1>4, <1>5, <1>6, <1>7 DEF Inv, Shape, Observe, Local, HubShape,
             ClientShape, SentShape, LateShape, Known

LEMMA ReceiptKeeps ==
  ASSUME NEW S, NEW s \in Seq(S), NEW g, NEW r \in S
  PROVE  [s EXCEPT ![g] = r] \in Seq(S) /\ Len([s EXCEPT ![g] = r]) = Len(s)
<1>1. CASE g \in 1 .. Len(s)
  BY <1>1, ExceptSeq
<1>2. CASE g \notin 1 .. Len(s)
  <2>1. s = [i \in 1 .. Len(s) |-> s[i]]
    OBVIOUS
  <2>2. [s EXCEPT ![g] = r] = s
    BY <1>2, <2>1
  <2>3. QED BY <2>2
<1>3. QED BY <1>1, <1>2

LEMMA RecoverObserveKeeps == Inv /\ RecoverObserve => Inv'
<1> SUFFICES ASSUME Inv, RecoverObserve PROVE Inv' OBVIOUS
<1>1. RecShape' /\ CallShape'
  <2>1. \A r \in {"PUBLISHED", "UNCERTAIN"} :
          LET s == [rec.recoveries EXCEPT ![call.grant] = r]
          IN  s \in Seq({"reserved", "PUBLISHED", "UNCERTAIN"}) /\ Len(s) = Len(rec.recoveries)
    BY ReceiptKeeps DEF Inv, Shape, RecShape
  <2>2. QED BY <2>1 DEF Inv, Shape, RecoverObserve, Local, At, Put, Goto, Fail, Done, RecShape, CallShape
<1>2. Command' /\ Admitted'
  <2>1. /\ UNCHANGED <<rec.ready, call.op, call.orphan>> /\ call.op \notin {"none", "admit"}
        /\ call'.at \notin {"consume", "unlabel", "verify"} /\ (call.op = "refuse" => call'.at # "done")
    BY DEF Inv, Shape, RecoverObserve, At, Put, Goto, Fail, Done, RecShape, CallShape
  <2>2. QED BY <2>1, LocalCommand DEF RecoverObserve
<1>3. Asked'
  <2>1. \A r \in {"PUBLISHED", "UNCERTAIN"} :
          LET s == [rec.recoveries EXCEPT ![call.grant] = r]
          IN  s \in Seq({"reserved", "PUBLISHED", "UNCERTAIN"}) /\ Len(s) = Len(rec.recoveries)
    BY ReceiptKeeps DEF Inv, Shape, RecShape
  <2>2. QED BY <2>1 DEF Inv, Shape, RecoverObserve, Local, At, Put, Goto, Fail, Done, RecShape, CallShape,
               Asked, SentShape
<1>4. Noted'
  <2>1. UNCHANGED <<rec.commentIntent, rec.prNumber>> /\ call'.at # "post"
    BY DEF Inv, Shape, RecoverObserve, At, Put, Goto, Fail, Done, RecShape, CallShape
  <2>2. QED BY <2>1, LocalNoted DEF RecoverObserve
<1>5. Placed'
  BY DEF Inv, Shape, RecoverObserve, Local, At, Put, Goto, Fail, Done, Placed, Pr, Final, Working,
     RecShape, CallShape, HubShape
<1>6. Claimed'
  <2>1. /\ UNCHANGED <<rec.outcome, rec.prNumber>> /\ call'.at \in {"done", "failed"} /\ call'.op = "recover"
        /\ rec'.publishedHead => rec.publishedHead \/ hub.ref = "candidate"
        /\ rec.publishedHead => rec'.publishedHead
    BY DEF Inv, Shape, RecoverObserve, At, Put, Goto, Fail, Done, RecShape, CallShape
  <2>2. QED BY <2>1, ClaimedFound DEF Inv, RecoverObserve
<1>7. Ready'
  BY DEF Inv, Shape, RecoverObserve, Local, At, Put, Goto, Fail, Done, Ready, Working, Shown,
     RecShape, CallShape
<1>8. QED BY <1>1, <1>2, <1>3, <1>4, <1>5, <1>6, <1>7 DEF Inv, Shape, RecoverObserve, Local, HubShape,
             ClientShape, SentShape, LateShape, Known

LEMMA FinishStartKeeps == Inv /\ FinishStart => Inv'
<1> SUFFICES ASSUME Inv, FinishStart PROVE Inv' OBVIOUS
<1>1. RecShape' /\ CallShape'
  BY DEF Inv, Shape, FinishStart, Local, At, Goto, Fail, Done, RecShape, CallShape
<1>2. Command' /\ Admitted'
  BY DEF Inv, Shape, FinishStart, Local, At, Goto, Fail, Done, Command, Admitted, Late, RecShape,
     CallShape, HubShape, SentShape
<1>3. Asked'
  BY DEF Inv, Shape, FinishStart, Local, At, Goto, Fail, Done, Asked, RecShape, CallShape, SentShape
<1>4. Noted'
  BY DEF Inv, Shape, FinishStart, Local, At, Goto, Fail, Done, Noted, NotesAt, Late, Pr, RecShape,
     CallShape
<1>5. Placed'
  BY DEF Inv, Shape, FinishStart, Local, At, Goto, Fail, Done, Placed, Pr, Final, Working, RecShape,
     CallShape, HubShape
<1>6. Claimed'
  BY DEF Inv, Shape, FinishStart, Local, At, Goto, Fail, Done, Claimed, Landed, Pr, NotesAt, Final,
     Blocked, Working, RecShape, CallShape
<1>7. Ready'
  BY DEF Inv, Shape, FinishStart, Local, At, Goto, Fail, Done, Ready, Working, Shown, RecShape,
     CallShape
<1>8. QED BY <1>1, <1>2, <1>3, <1>4, <1>5, <1>6, <1>7 DEF Inv, Shape, FinishStart, Local, HubShape,
             ClientShape, SentShape, LateShape, Known

LEMMA TerminalStartKeeps == Inv /\ TerminalStart => Inv'
<1> SUFFICES ASSUME Inv, TerminalStart PROVE Inv' OBVIOUS
<1>1. RecShape' /\ CallShape'
  BY DEF Inv, Shape, TerminalStart, Local, At, Goto, Fail, Done, Ended, RecShape, CallShape
<1>2. Command' /\ Admitted'
  BY DEF Inv, Shape, TerminalStart, Local, At, Goto, Fail, Done, Ended, Command, Admitted, Late,
     RecShape, CallShape, HubShape, SentShape
<1>3. Asked'
  BY DEF Inv, Shape, TerminalStart, Local, At, Goto, Fail, Done, Ended, Asked, RecShape, CallShape,
     SentShape
<1>4. Noted'
  BY DEF Inv, Shape, TerminalStart, Local, At, Goto, Fail, Done, Ended, Noted, NotesAt, Late, Pr,
     RecShape, CallShape
<1>5. Placed'
  BY DEF Inv, Shape, TerminalStart, Local, At, Goto, Fail, Done, Ended, Placed, Pr, Final, Working,
     RecShape, CallShape, HubShape
<1>6. Claimed'
  BY DEF Inv, Shape, TerminalStart, Local, At, Goto, Fail, Done, Ended, Claimed, Landed, Pr,
     NotesAt, Final, Blocked, Working, RecShape, CallShape
<1>7. Ready'
  BY DEF Inv, Shape, TerminalStart, Local, At, Goto, Fail, Done, Ended, Ready, Working, Shown,
     RecShape, CallShape
<1>8. QED BY <1>1, <1>2, <1>3, <1>4, <1>5, <1>6, <1>7 DEF Inv, Shape, TerminalStart, Local, HubShape,
             ClientShape, SentShape, LateShape, Known

LEMMA FindPullKeeps == Inv /\ FindPull => Inv'
<1> SUFFICES ASSUME Inv, FindPull PROVE Inv' OBVIOUS
<1>1. RecShape' /\ CallShape'
  BY DEF Inv, Shape, FindPull, Local, At, Put, Goto, Fail, AfterPull, Done, RecShape, CallShape
<1>2. Command' /\ Admitted'
  <2>1. /\ UNCHANGED <<rec.ready, call.op, call.orphan>> /\ call.op \notin {"none", "admit"}
        /\ call'.at \notin {"consume", "unlabel", "verify"} /\ (call.op = "refuse" => call'.at # "done")
    BY DEF Inv, Shape, FindPull, At, Put, Goto, Fail, AfterPull, RecShape, CallShape
  <2>2. QED BY <2>1, LocalCommand DEF FindPull
<1>3. Asked'
  BY DEF Inv, Shape, FindPull, Local, At, Put, Goto, Fail, AfterPull, Done, Asked, RecShape,
     CallShape, SentShape
<1>4. Noted'
  BY DEF Inv, Shape, FindPull, Local, At, Put, Goto, Fail, AfterPull, Done, Noted, NotesAt, Late,
     Pr, RecShape, CallShape
<1>5. Placed'
  <2>1. /\ rec'.outcome = rec.outcome /\ (origin = "issue" => rec'.prNumber \in 0 .. Len(hub.prs))
        /\ rec.prNumber # 0 => rec'.prNumber # 0
        /\ origin = "issue" /\ call'.at = "transition" => rec'.prNumber # 0
    <3>1. LET n == CHOOSE k \in Open(hub) : TRUE
          IN  Open(hub) # {} => n \in 1 .. Len(hub.prs)
      BY DEF Inv, Shape, HubShape, Open
    <3>2. rec.prNumber \in 0 .. Len(hub.prs) \/ origin = "pull_request"
      BY DEF Inv, Placed, Pr
    <3>3. CASE origin = "pull_request"
      BY <3>3 DEF Inv, Shape, FindPull, Local, At, Goto, Fail, AfterPull, RecShape, CallShape
    <3>4. CASE origin = "issue" /\ Open(hub) = {}
      BY <3>2, <3>4 DEF Inv, Shape, FindPull, Local, At, Put, Goto, Fail, AfterPull, RecShape, CallShape,
         HubShape
    <3>5. CASE origin = "issue" /\ Open(hub) # {}
      <4> DEFINE n == CHOOSE k \in Open(hub) : TRUE
      <4>1. \/ UNCHANGED rec /\ call'.at = "failed"
            \/ rec' = [rec EXCEPT !.prNumber = n]
        BY <3>5 DEF FindPull, Local, Put, Goto, Fail, Inv, Shape, CallShape
      <4>2. rec' = [rec EXCEPT !.prNumber = n] => rec'.prNumber = n /\ rec'.outcome = rec.outcome
        BY DEF Inv, Shape, RecShape
      <4>3. n \in 1 .. Len(hub.prs) /\ Len(hub.prs) \in Nat
        BY <3>1, <3>5 DEF Inv, Shape, HubShape
      <4> HIDE DEF n
      <4>4. QED BY <3>2, <3>5, <4>1, <4>2, <4>3
    <3>6. QED BY <3>3, <3>4, <3>5 DEF FindPull
  <2>2. call'.at \in {"done", "failed", "transition", "note", "create"} /\ call'.op = call.op
    BY DEF Inv, Shape, FindPull, Local, At, Put, Goto, Fail, AfterPull, CallShape
  <2>3. call.op = "finish" => call'.at # "note"
    BY DEF Inv, Shape, FindPull, Local, At, Put, Goto, Fail, AfterPull, CallShape
  <2>4. QED BY <2>1, <2>2, <2>3 DEF Inv, Shape, FindPull, Local, Placed, Pr, Final, Working
<1>6. Claimed'
  BY DEF Inv, Shape, FindPull, Local, At, Put, Goto, Fail, AfterPull, Done, Claimed, Landed, Pr,
     NotesAt, Final, Blocked, Working, RecShape, CallShape
<1>7. Ready'
  BY DEF Inv, Shape, FindPull, Local, At, Put, Goto, Fail, AfterPull, Done, Ready, Working, Shown,
     RecShape, CallShape
<1>8. QED BY <1>1, <1>2, <1>3, <1>4, <1>5, <1>6, <1>7 DEF Inv, Shape, FindPull, Local, HubShape,
             ClientShape, SentShape, LateShape, Known

LEMMA ReserveTransitionKeeps == Inv /\ ReserveTransition => Inv'
<1> SUFFICES ASSUME Inv, ReserveTransition PROVE Inv' OBVIOUS
<1>1. RecShape' /\ CallShape'
  BY DEF Inv, Shape, ReserveTransition, Local, At, Put, Goto, Fail, Transitions, WantsDraft,
     RecShape, CallShape
<1>2. Command' /\ Admitted'
  <2>1. /\ UNCHANGED <<rec.ready, call.op, call.orphan>> /\ call.op \notin {"none", "admit"}
        /\ call'.at \notin {"consume", "unlabel", "verify"} /\ (call.op = "refuse" => call'.at # "done")
    BY DEF Inv, Shape, ReserveTransition, At, Put, Goto, Fail, Transitions, RecShape, CallShape
  <2>2. QED BY <2>1, LocalCommand DEF ReserveTransition
<1>3. Asked'
  BY DEF Inv, Shape, ReserveTransition, Local, At, Put, Goto, Fail, Transitions, WantsDraft, Asked,
     RecShape, CallShape, SentShape
<1>4. Noted'
  <2>1. UNCHANGED <<rec.commentIntent, rec.prNumber>> /\ call'.at # "post"
    BY DEF Inv, Shape, ReserveTransition, At, Put, Goto, Fail, Transitions, RecShape, CallShape
  <2>2. QED BY <2>1, LocalNoted DEF ReserveTransition
<1>5. Placed'
  BY DEF Inv, Shape, ReserveTransition, Local, At, Put, Goto, Fail, Transitions, WantsDraft, Placed,
     Pr, Final, Working, RecShape, CallShape, HubShape
<1>6. Claimed'
  BY DEF Inv, Shape, ReserveTransition, Local, At, Put, Goto, Fail, Transitions, WantsDraft,
     Claimed, Landed, Pr, NotesAt, Final, Blocked, Working, RecShape, CallShape
<1>7. Ready'
  BY DEF Inv, Shape, ReserveTransition, Local, At, Put, Goto, Fail, Transitions, WantsDraft, Ready,
     Working, Shown, RecShape, CallShape
<1>8. QED BY <1>1, <1>2, <1>3, <1>4, <1>5, <1>6, <1>7 DEF Inv, Shape, ReserveTransition, Local, HubShape,
             ClientShape, SentShape, LateShape, Known

LEMMA TransitionAlreadyKeeps == Inv /\ TransitionAlready => Inv'
<1> SUFFICES ASSUME Inv, TransitionAlready PROVE Inv' OBVIOUS
<1>1. RecShape' /\ CallShape'
  BY DEF Inv, Shape, TransitionAlready, Local, At, Put, Goto, Fail, Transitions, Transitioned,
     AfterTransition, RecShape, CallShape
<1>2. Command' /\ Admitted'
  <2>1. /\ UNCHANGED <<rec.ready, call.op, call.orphan>> /\ call.op \notin {"none", "admit"}
        /\ call'.at \notin {"consume", "unlabel", "verify"} /\ (call.op = "refuse" => call'.at # "done")
    BY DEF Inv, Shape, TransitionAlready, At, Put, Goto, Fail, Transitions, Transitioned, AfterTransition,
       RecShape, CallShape
  <2>2. QED BY <2>1, LocalCommand DEF TransitionAlready
<1>3. Asked'
  BY DEF Inv, Shape, TransitionAlready, Local, At, Put, Goto, Fail, Transitions, Transitioned,
     AfterTransition, Asked, RecShape, CallShape, SentShape
<1>4. Noted'
  <2>1. UNCHANGED <<rec.commentIntent, rec.prNumber>> /\ call'.at # "post"
    BY DEF Inv, Shape, TransitionAlready, At, Put, Goto, Fail, Transitions, Transitioned, AfterTransition,
       RecShape, CallShape
  <2>2. QED BY <2>1, LocalNoted DEF TransitionAlready
<1>5. Placed'
  BY DEF Inv, Shape, TransitionAlready, Local, At, Put, Goto, Fail, Transitions, Transitioned,
     AfterTransition, Placed, Pr, Final, Working, RecShape, CallShape, HubShape
<1>6. Claimed'
  BY DEF Inv, Shape, TransitionAlready, Local, At, Put, Goto, Fail, Transitions, Transitioned,
     AfterTransition, Claimed, Landed, Pr, NotesAt, Final, Blocked, Working, RecShape, CallShape
<1>7. Ready'
  BY DEF Inv, Shape, TransitionAlready, Local, At, Put, Goto, Fail, Transitions, Transitioned,
     AfterTransition, Ready, Working, Shown, RecShape, CallShape
<1>8. QED BY <1>1, <1>2, <1>3, <1>4, <1>5, <1>6, <1>7 DEF Inv, Shape, TransitionAlready, Local, HubShape,
             ClientShape, SentShape, LateShape, Known

LEMMA ReadBackKeeps == Inv /\ ReadBack => Inv'
<1> SUFFICES ASSUME Inv, ReadBack PROVE Inv' OBVIOUS
<1>1. RecShape' /\ CallShape'
  BY DEF Inv, Shape, ReadBack, Local, At, Put, Goto, Fail, Transitions, Transitioned,
     AfterTransition, RecShape, CallShape
<1>2. Command' /\ Admitted'
  <2>1. /\ UNCHANGED <<rec.ready, call.op, call.orphan>> /\ call.op \notin {"none", "admit"}
        /\ call'.at \notin {"consume", "unlabel", "verify"} /\ (call.op = "refuse" => call'.at # "done")
    BY DEF Inv, Shape, ReadBack, At, Put, Goto, Fail, Transitions, Transitioned, AfterTransition,
       RecShape, CallShape
  <2>2. QED BY <2>1, LocalCommand DEF ReadBack
<1>3. Asked'
  BY DEF Inv, Shape, ReadBack, Local, At, Put, Goto, Fail, Transitions, Transitioned,
     AfterTransition, Asked, RecShape, CallShape, SentShape
<1>4. Noted'
  <2>1. UNCHANGED <<rec.commentIntent, rec.prNumber>> /\ call'.at # "post"
    BY DEF Inv, Shape, ReadBack, At, Put, Goto, Fail, Transitions, Transitioned, AfterTransition,
       RecShape, CallShape
  <2>2. QED BY <2>1, LocalNoted DEF ReadBack
<1>5. Placed'
  BY DEF Inv, Shape, ReadBack, Local, At, Put, Goto, Fail, Transitions, Transitioned,
     AfterTransition, Placed, Pr, Final, Working, RecShape, CallShape, HubShape
<1>6. Claimed'
  BY DEF Inv, Shape, ReadBack, Local, At, Put, Goto, Fail, Transitions, Transitioned,
     AfterTransition, Claimed, Landed, Pr, NotesAt, Final, Blocked, Working, RecShape, CallShape
<1>7. Ready'
  BY DEF Inv, Shape, ReadBack, Local, At, Put, Goto, Fail, Transitions, Transitioned,
     AfterTransition, Ready, Working, Shown, RecShape, CallShape
<1>8. QED BY <1>1, <1>2, <1>3, <1>4, <1>5, <1>6, <1>7 DEF Inv, Shape, ReadBack, Local, HubShape,
             ClientShape, SentShape, LateShape, Known

LEMMA FinishIntentKeeps == Inv /\ FinishIntent => Inv'
<1> SUFFICES ASSUME Inv, FinishIntent PROVE Inv' OBVIOUS
<1>1. RecShape' /\ CallShape'
  BY DEF Inv, Shape, FinishIntent, Local, At, Put, Goto, Fail, RecShape, CallShape
<1>2. Command' /\ Admitted'
  BY DEF Inv, Shape, FinishIntent, Local, At, Put, Goto, Fail, Command, Admitted, Late, RecShape,
     CallShape, HubShape, SentShape
<1>3. Asked'
  BY DEF Inv, Shape, FinishIntent, Local, At, Put, Goto, Fail, Asked, RecShape, CallShape, SentShape
<1>4. Noted'
  BY DEF Inv, Shape, FinishIntent, Local, At, Put, Goto, Fail, Noted, NotesAt, Late, Pr, RecShape,
     CallShape
<1>5. Placed'
  BY DEF Inv, Shape, FinishIntent, Local, At, Put, Goto, Fail, Placed, Pr, Final, Working, RecShape,
     CallShape, HubShape
<1>6. Claimed'
  BY DEF Inv, Shape, FinishIntent, Local, At, Put, Goto, Fail, Claimed, Landed, Pr, NotesAt, Final,
     Blocked, Working, RecShape, CallShape
<1>7. Ready'
  BY DEF Inv, Shape, FinishIntent, Local, At, Put, Goto, Fail, Ready, Working, Shown, RecShape,
     CallShape
<1>8. QED BY <1>1, <1>2, <1>3, <1>4, <1>5, <1>6, <1>7 DEF Inv, Shape, FinishIntent, Local, HubShape,
             ClientShape, SentShape, LateShape, Known

LEMMA AdoptNoteKeeps == Inv /\ AdoptNote => Inv'
<1> SUFFICES ASSUME Inv, AdoptNote PROVE Inv' OBVIOUS
<1>1. RecShape' /\ CallShape'
  BY DEF Inv, Shape, AdoptNote, Local, At, Put, Goto, Fail, IntentHere, RecShape, CallShape
<1>2. Command' /\ Admitted'
  <2>1. /\ UNCHANGED <<rec.ready, call.op, call.orphan>> /\ call.op \notin {"none", "admit"}
        /\ call'.at \notin {"consume", "unlabel", "verify"} /\ (call.op = "refuse" => call'.at # "done")
    BY DEF Inv, Shape, AdoptNote, At, Put, Goto, Fail, RecShape, CallShape
  <2>2. QED BY <2>1, LocalCommand DEF AdoptNote
<1>3. Asked'
  BY DEF Inv, Shape, AdoptNote, Local, At, Put, Goto, Fail, IntentHere, Asked, RecShape, CallShape,
     SentShape
<1>4. Noted'
  BY DEF Inv, Shape, AdoptNote, Local, At, Put, Goto, Fail, IntentHere, Noted, NotesAt, Late, Pr,
     RecShape, CallShape
<1>5. Placed'
  BY DEF Inv, Shape, AdoptNote, Local, At, Put, Goto, Fail, IntentHere, Placed, Pr, Final, Working,
     RecShape, CallShape, HubShape
<1>6. Claimed'
  BY DEF Inv, Shape, AdoptNote, Local, At, Put, Goto, Fail, IntentHere, Claimed, Landed, Pr,
     NotesAt, Final, Blocked, Working, RecShape, CallShape
<1>7. Ready'
  BY DEF Inv, Shape, AdoptNote, Local, At, Put, Goto, Fail, IntentHere, Ready, Working, Shown,
     RecShape, CallShape
<1>8. QED BY <1>1, <1>2, <1>3, <1>4, <1>5, <1>6, <1>7 DEF Inv, Shape, AdoptNote, Local, HubShape,
             ClientShape, SentShape, LateShape, Known

LEMMA OutcomeIsNote == HubShape /\ Placed => Outcome \in Notes /\ Outcome # None /\ Outcome.place = Pr
<1> SUFFICES ASSUME HubShape, Placed PROVE Outcome \in Notes /\ Outcome # None /\ Outcome.place = Pr OBVIOUS
<1>1. Pr \in Nat
  BY DEF HubShape, Placed
<1>2. QED BY <1>1, NoneAssumption DEF Outcome, Notes, Statuses

LEMMA ReserveNoteKeeps == Inv /\ ReserveNote => Inv'
<1> SUFFICES ASSUME Inv, ReserveNote PROVE Inv' OBVIOUS
<1>1. RecShape' /\ CallShape'
  <2>1. Outcome \in Notes /\ Outcome # None /\ Outcome.place = Pr
    BY OutcomeIsNote DEF Inv, Shape
  <2>2. QED BY <2>1 DEF Inv, Shape, ReserveNote, Local, At, Put, Goto, Fail, RecShape, CallShape
<1>2. Command' /\ Admitted'
  <2>1. /\ UNCHANGED <<rec.ready, call.op, call.orphan>> /\ call.op \notin {"none", "admit"}
        /\ call'.at \notin {"consume", "unlabel", "verify"} /\ (call.op = "refuse" => call'.at # "done")
    BY DEF Inv, Shape, ReserveNote, At, Put, Goto, Fail, RecShape, CallShape
  <2>2. QED BY <2>1, LocalCommand DEF ReserveNote
<1>3. Asked'
  BY DEF Inv, Shape, ReserveNote, Local, At, Put, Goto, Fail, Outcome, Asked, RecShape, CallShape,
     SentShape
<1>4. Noted'
  <2>1. Outcome \in Notes /\ Outcome # None /\ Outcome.place = Pr
    BY OutcomeIsNote DEF Inv, Shape
  <2>2. QED BY <2>1 DEF Inv, Shape, ReserveNote, Local, At, Put, Goto, Fail, RecShape, CallShape, Noted,
               NotesAt, Late, Pr
<1>5. Placed'
  BY DEF Inv, Shape, ReserveNote, Local, At, Put, Goto, Fail, Outcome, Placed, Pr, Final, Working,
     RecShape, CallShape, HubShape
<1>6. Claimed'
  BY DEF Inv, Shape, ReserveNote, Local, At, Put, Goto, Fail, Outcome, Claimed, Landed, Pr, NotesAt,
     Final, Blocked, Working, RecShape, CallShape
<1>7. Ready'
  BY DEF Inv, Shape, ReserveNote, Local, At, Put, Goto, Fail, Outcome, Ready, Working, Shown,
     RecShape, CallShape
<1>8. QED BY <1>1, <1>2, <1>3, <1>4, <1>5, <1>6, <1>7 DEF Inv, Shape, ReserveNote, Local, HubShape,
             ClientShape, SentShape, LateShape, Known

LEMMA SaveKeeps == Inv /\ Save => Inv'
<1> SUFFICES ASSUME Inv, Save PROVE Inv' OBVIOUS
<1>1. RecShape' /\ CallShape'
  <2>1. Outcome \in Notes /\ Outcome # None /\ Outcome.place = Pr /\ (call.op # "finish" => Outcome.status = "BLOCKED")
    BY OutcomeIsNote DEF Inv, Shape, Outcome
  <2>2. Blocked => rec.outcome \in Notes
    BY DEF Inv, Shape, RecShape, Blocked
  <2>3. LET o == [Outcome EXCEPT !.place = IF Blocked THEN rec.outcome.place ELSE Pr]
        IN  o \in Notes /\ o # None /\ o.status = Outcome.status /\ o.place = IF Blocked THEN rec.outcome.place ELSE Pr
    BY <2>1, <2>2, NoneAssumption DEF Notes, Statuses
  <2>4. CallShape'
    BY DEF Inv, Shape, Save, At, Goto, Fail, Done, Ended, CallShape
  <2>5. \/ rec' = [rec EXCEPT !.handoffComplete = TRUE]
        \/ rec' = [rec EXCEPT !.successOutcomeIntent = FALSE, !.handoffComplete = FALSE,
                              !.outcome = [Outcome EXCEPT !.place = IF Blocked THEN rec.outcome.place ELSE Pr]]
        \/ rec' = [rec EXCEPT !.outcome = Outcome]
    BY DEF Save, Put
  <2>6. QED BY <2>1, <2>3, <2>4, <2>5 DEF Inv, Shape, RecShape
<1>2. Command' /\ Admitted'
  <2>1. /\ UNCHANGED <<rec.ready, call.op, call.orphan>> /\ call.op \notin {"none", "admit"}
        /\ call'.at \notin {"consume", "unlabel", "verify"} /\ (call.op = "refuse" => call'.at # "done")
    BY DEF Inv, Shape, Save, At, Put, Goto, Fail, Done, Ended, RecShape, CallShape
  <2>2. QED BY <2>1, LocalCommand DEF Save
<1>3. Asked'
  BY DEF Inv, Shape, Save, Local, At, Put, Goto, Fail, Done, Ended, Outcome, Asked, RecShape,
     CallShape, SentShape
<1>4. Noted'
  <2>1. UNCHANGED <<rec.commentIntent, rec.prNumber>> /\ call'.at # "post"
    BY DEF Inv, Shape, Save, At, Put, Goto, Fail, Done, Ended, RecShape, CallShape
  <2>2. QED BY <2>1, LocalNoted DEF Save
<1>5. Placed'
  <2>1. /\ rec'.prNumber = rec.prNumber /\ call'.at \in {"done", "failed"}
        /\ Final' => Final \/ call.op = "finish"
    <3>1. /\ rec'.prNumber = rec.prNumber /\ call'.at \in {"done", "failed"}
          /\ call.op = "handoff" => rec'.outcome = rec.outcome
          /\ call.op \notin {"finish", "handoff"} => rec'.outcome = Outcome
      BY DEF Inv, Shape, Save, At, Put, Goto, Fail, Done, Ended, RecShape, CallShape
    <3>2. call.op # "finish" => Outcome.status = "BLOCKED"
      BY DEF Outcome
    <3>3. QED BY <3>1, <3>2 DEF Final
  <2>2. call.at = "save" /\ (call.op = "finish" => Pr # 0)
    BY DEF Inv, Placed, Save, At, Working
  <2>3. QED BY <2>1, <2>2 DEF Inv, Placed, Save, Local, Pr, Working
<1>6. Claimed'
  <2>1. Outcome \in Notes /\ Outcome # None /\ Outcome.place = Pr /\ (call.op # "finish" => Outcome.status = "BLOCKED")
    BY OutcomeIsNote DEF Inv, Shape, Outcome
  <2>2. Blocked => rec.outcome \in Notes
    BY DEF Inv, Shape, RecShape, Blocked
  <2>3. LET o == [Outcome EXCEPT !.place = IF Blocked THEN rec.outcome.place ELSE Pr]
        IN  o \in Notes /\ o # None /\ o.status = Outcome.status /\ o.place = IF Blocked THEN rec.outcome.place ELSE Pr
    BY <2>1, <2>2, NoneAssumption DEF Notes, Statuses
  <2>4. /\ UNCHANGED <<rec.publishedHead, rec.prNumber>> /\ call'.at \in {"done", "failed"}
        /\ call.op = "handoff" => rec'.outcome = rec.outcome
        /\ call.op = "finish" =>
             /\ rec'.outcome.place = (IF Blocked THEN rec.outcome.place ELSE Pr)
             /\ rec.publishedHead
        /\ call.op \notin {"finish", "handoff"} => rec'.outcome = Outcome
    <3>1. call.op = "finish" => rec.publishedHead
      BY DEF Inv, Claimed, Save, At, Working
    <3>2. QED BY <2>3, <3>1 DEF Inv, Shape, Save, Local, At, Put, Goto, Fail, Done, Ended, RecShape,
                 CallShape
  <2>5. call.op = "finish" \/ call.op = "handoff" \/ (call.op # "finish" /\ NotesAt(Pr) # {})
    BY DEF Inv, Claimed, Save, At
  <2>6. call.op = "finish" => NotesAt(IF Blocked THEN rec.outcome.place ELSE Pr) # {}
    BY DEF Inv, Claimed, Save, At, Blocked
  <2>7. QED BY <2>1, <2>4, <2>5, <2>6 DEF Inv, Save, At, Local, Claimed, Pr, NotesAt, Final, Blocked,
               Working
<1>7. Ready'
  <2>1. /\ rec'.publishedHead = rec.publishedHead /\ call.at = "save" /\ call'.at \in {"done", "failed"}
        /\ rec'.handoffComplete => rec.handoffComplete \/ call.op = "handoff"
    BY DEF Inv, Shape, Save, At, Put, Goto, Fail, Done, Ended, RecShape, CallShape
  <2>2. QED BY <2>1 DEF Inv, Ready, Save, Local, Shown, Working
<1>8. QED BY <1>1, <1>2, <1>3, <1>4, <1>5, <1>6, <1>7 DEF Inv, Shape, Save, Local, HubShape, ClientShape,
             SentShape, LateShape, Known

LEMMA HandoffStartKeeps == Inv /\ HandoffStart => Inv'
<1> SUFFICES ASSUME Inv, HandoffStart PROVE Inv' OBVIOUS
<1>1. RecShape' /\ CallShape'
  BY DEF Inv, Shape, HandoffStart, Local, At, Goto, Fail, Done, HandoffProven, RecShape, CallShape
<1>2. Command' /\ Admitted'
  BY DEF Inv, Shape, HandoffStart, Local, At, Goto, Fail, Done, HandoffProven, Command, Admitted,
     Late, RecShape, CallShape, HubShape, SentShape
<1>3. Asked'
  BY DEF Inv, Shape, HandoffStart, Local, At, Goto, Fail, Done, HandoffProven, Asked, RecShape,
     CallShape, SentShape
<1>4. Noted'
  BY DEF Inv, Shape, HandoffStart, Local, At, Goto, Fail, Done, HandoffProven, Noted, NotesAt, Late,
     Pr, RecShape, CallShape
<1>5. Placed'
  BY DEF Inv, Shape, HandoffStart, Local, At, Goto, Fail, Done, HandoffProven, Placed, Pr, Final,
     Working, RecShape, CallShape, HubShape
<1>6. Claimed'
  BY DEF Inv, Shape, HandoffStart, Local, At, Goto, Fail, Done, HandoffProven, Claimed, Landed, Pr,
     NotesAt, Final, Blocked, Working, RecShape, CallShape
<1>7. Ready'
  <2>1. HandoffProven => Shown
    BY DEF Inv, HandoffProven, Claimed, Shown, NotesAt
  <2>2. QED BY <2>1 DEF Inv, Shape, HandoffStart, Local, At, Goto, Fail, Done, Ready, Working, Shown,
               RecShape, CallShape
<1>8. QED BY <1>1, <1>2, <1>3, <1>4, <1>5, <1>6, <1>7 DEF Inv, Shape, HandoffStart, Local, HubShape,
             ClientShape, SentShape, LateShape, Known

-----------------------------------------------------------------------------
(* The client and stops                                                    *)

\* What is not the Writer's changes none of its facts, if the call stays, ends or is a new one.
LEMMA BesideTheWriter ==
  ASSUME Inv, UNCHANGED <<origin, hub, late, rec, sent>>, CallShape', ClientShape', Admitted',
         call'.at \in {"start", "failed"} \/ (call'.at = call.at /\ call'.op = call.op)
  PROVE  Inv'
<1>1. Command' /\ Asked' /\ Noted' /\ Placed'
  BY DEF Inv, Command, Asked, Noted, Placed, Late, NotesAt, Pr, Final, Working
<1>2. Claimed' /\ Ready'
  BY DEF Inv, Claimed, Ready, Shown, NotesAt, Pr, Final, Blocked, Working
<1>3. QED BY <1>1, <1>2 DEF Inv, Shape, HubShape, RecShape, SentShape, LateShape, Known

LEMMA CallStopsKeeps == Inv /\ CallStops => Inv'
<1> SUFFICES ASSUME Inv, CallStops PROVE Inv' OBVIOUS
<1>1. call' = [call EXCEPT !.at = "failed"] /\ CallShape
  BY DEF Inv, Shape, CallStops, Fail, Goto
<1>2. CallShape' /\ call'.at = "failed" /\ call'.op = call.op /\ call'.orphan = call.orphan
  BY <1>1 DEF CallShape
<1>3. Admitted' /\ ClientShape'
  BY <1>2 DEF Inv, Shape, Admitted, ClientShape, CallStops, Running
<1>4. QED BY <1>2, <1>3, BesideTheWriter DEF CallStops

LEMMA InvokeKeeps == Inv /\ Invoke => Inv'
<1> SUFFICES ASSUME Inv, Invoke PROVE Inv' OBVIOUS
<1>1. /\ CallShape' /\ call'.at = "start" /\ call'.op = client.at /\ client.at # "off"
      /\ UNCHANGED <<origin, hub, late, rec, sent, client, jrn>>
  BY DEF Invoke, FromClient, Idle, CallShape
<1>2. ClientShape' /\ Admitted'
  BY <1>1 DEF Inv, Shape, ClientShape, Admitted
<1>3. QED BY <1>1, <1>2, BesideTheWriter

LEMMA StartKeeps == Inv /\ (ControllerStarts \/ OwnerRecovers) => Inv'
<1> SUFFICES ASSUME Inv, ControllerStarts \/ OwnerRecovers PROVE Inv' OBVIOUS
<1>1. /\ UNCHANGED <<origin, hub, late, rec, sent, call>> /\ client.at = "off"
      /\ jrn'.exists = jrn.exists /\ ClientShape'
  BY DEF Inv, Shape, ClientShape, ControllerStarts, OwnerRecovers, FromClient, Journal, Off
<1>2. CallShape' /\ Admitted'
  BY <1>1 DEF Inv, Shape, CallShape, Admitted
<1>3. QED BY <1>1, <1>2, BesideTheWriter

\* An answer: the client goes on, or leaves, with or without an entry in its journal.
AnswerStep ==
  \/ AdmissionAnswered \/ PreflightAnswered \/ PublishAnswered \/ FinishAnswered \/ ControllerCatches
  \/ TerminalAnswered \/ RecoverAnswered \/ RecoveryCatches \/ Leaves

LEMMA AnswerKeeps == Inv /\ AnswerStep => Inv'
<1> SUFFICES ASSUME Inv, AnswerStep PROVE Inv' OBVIOUS
<1>1. call' = Idle /\ UNCHANGED <<origin, hub, late, rec, sent>>
  BY DEF AnswerStep, Answered, FromClient, AdmissionAnswered, PreflightAnswered, PublishAnswered,
     FinishAnswered,
         ControllerCatches, TerminalAnswered, RecoverAnswered, RecoveryCatches, Leaves
<1>2. CallShape' /\ call'.at = "start" /\ call'.op = "none"
  BY <1>1 DEF Idle, CallShape
<1>3. ClientShape'
  <2>1. ClientShape
    BY DEF Inv, Shape
  <2>2. CASE AdmissionAnswered
    BY <2>1, <2>2 DEF AdmissionAnswered, ClientShape, Client, Journal, Off
  <2>6. CASE PublishAnswered
    BY <2>1, <2>6 DEF PublishAnswered, ClientShape, Client, Journal
  <2>7. CASE FinishAnswered
    BY <2>1, <2>7 DEF FinishAnswered, ClientShape, Client, Journal
  <2>8. CASE Leaves
    BY <2>1, <2>8 DEF Leaves, ClientShape, Client, Off
  <2>3. CASE PreflightAnswered
    BY <2>1, <2>3 DEF PreflightAnswered, ClientShape, Client, Journal
  <2>4. CASE TerminalAnswered \/ RecoverAnswered \/ RecoveryCatches \/ ControllerCatches
    BY <2>1, <2>4 DEF TerminalAnswered, RecoverAnswered, RecoveryCatches, ControllerCatches, ClientShape,
       Client, Journal, Off
  <2>5. QED BY <2>2, <2>3, <2>4, <2>6, <2>7, <2>8 DEF AnswerStep
<1>4. jrn'.exists => jrn.exists \/ AdmissionAnswered
  BY DEF Inv, Shape, AnswerStep, PreflightAnswered, PublishAnswered, FinishAnswered,
         ControllerCatches, TerminalAnswered, RecoverAnswered, RecoveryCatches, Leaves, ClientShape,
         Client, Journal
<1>5. AdmissionAnswered => rec.ready = "consumed"
  BY DEF Inv, Admitted, AdmissionAnswered, Answered
<1>6. Admitted'
  BY <1>1, <1>2, <1>4, <1>5 DEF Inv, Admitted
<1>7. QED BY <1>1, <1>2, <1>3, <1>6, BesideTheWriter

LEMMA LeaveKeeps == Inv /\ (ClientDies \/ OrphanEnds) => Inv'
<1> SUFFICES ASSUME Inv, ClientDies \/ OrphanEnds PROVE Inv' OBVIOUS
<1>1. UNCHANGED <<origin, hub, late, rec, sent, jrn>> /\ ClientShape'
  BY DEF Inv, Shape, ClientShape, ClientDies, OrphanEnds, FromClient, Off
<1>2. \/ call' = Idle
      \/ call' = [call EXCEPT !.orphan = TRUE]
  BY DEF ClientDies, OrphanEnds
<1>3. \/ CallShape' /\ call'.at = "start" /\ call'.op = "none"
      \/ CallShape' /\ call'.at = call.at /\ call'.op = call.op /\ call'.orphan = TRUE
  <2>1. CASE call' = Idle
    BY <2>1 DEF CallShape, Idle
  <2>2. CASE call' = [call EXCEPT !.orphan = TRUE]
    BY <2>2 DEF Inv, Shape, CallShape
  <2>3. QED BY <1>2, <2>1, <2>2
<1>4. Admitted'
  BY <1>1, <1>3 DEF Inv, Admitted
<1>5. QED BY <1>1, <1>3, <1>4, BesideTheWriter

LEMMA UnobservedKeeps == Inv /\ Unobserved => Inv'
<1> SUFFICES ASSUME Inv, Unobserved PROVE Inv' OBVIOUS
<1>1. UNCHANGED <<origin, hub, late, jrn, client, sent>>
  BY DEF Unobserved
<1>2. CASE At({"recover"}, "observe") /\ Put([rec EXCEPT !.recoveries[call.grant] = "UNCERTAIN"]) /\ Fail
  <2>1. LET s == [rec.recoveries EXCEPT ![call.grant] = "UNCERTAIN"]
        IN  s \in Seq({"reserved", "PUBLISHED", "UNCERTAIN"}) /\ Len(s) = Len(rec.recoveries)
    <3>1. rec.recoveries \in Seq({"reserved", "PUBLISHED", "UNCERTAIN"})
      BY DEF Inv, Shape, RecShape
    <3>2. QED BY <3>1, ReceiptKeeps
  <2>2. RecShape' /\ Len(rec'.recoveries) = Len(rec.recoveries)
        /\ UNCHANGED <<rec.ready, rec.publicationIntent, rec.publishedHead, rec.prIntent, rec.prNumber,
                       rec.commentIntent, rec.outcome, rec.handoffComplete>>
    BY <1>2, <2>1 DEF Inv, Shape, RecShape, Put
  <2>3. CallShape' /\ call'.at = "failed" /\ call'.op = call.op /\ call'.orphan = call.orphan
        /\ call.op = "recover"
    BY <1>2 DEF Inv, Shape, CallShape, Fail, Goto, At
  <2>4. Command' /\ Admitted' /\ Asked' /\ Noted'
    <3>1. Command' /\ Admitted'
      BY <1>1, <2>2, <2>3 DEF Inv, Command, Admitted, Late
    <3>2. Asked' /\ Noted'
      BY <1>1, <2>2, <2>3 DEF Inv, Asked, Noted, Late, NotesAt, Pr
    <3>3. QED BY <3>1, <3>2
  <2>5. Placed' /\ Claimed' /\ Ready'
    BY <1>1, <2>2, <2>3 DEF Inv, Placed, Claimed, Ready, Shown, NotesAt, Pr, Final, Blocked, Working
  <2>6. QED BY <1>1, <2>2, <2>3, <2>4, <2>5 DEF Inv, Shape, HubShape, ClientShape, SentShape, LateShape,
               Known
<1>3. CASE At({"admit"}, "verify") /\ Refuse
  <2>1. /\ RecShape' /\ rec'.ready = "uncertain"
        /\ UNCHANGED <<rec.recoveries, rec.publicationIntent, rec.publishedHead, rec.prIntent, rec.prNumber,
                       rec.commentIntent, rec.outcome, rec.handoffComplete>>
    BY <1>3 DEF Inv, Shape, RecShape, Put, Refuse
  <2>2. CallShape' /\ call'.at = "start" /\ call'.op = "refuse" /\ call'.orphan = call.orphan /\ rec.ready = "deleting"
    BY <1>3 DEF Inv, Shape, CallShape, Refuse, At, Command
  <2>3. call.op = "admit"
    BY <1>3 DEF At
  <2>4. Command' /\ Admitted' /\ Asked' /\ Noted'
    BY <1>1, <2>1, <2>2, <2>3 DEF Inv, Command, Admitted, Asked, Noted, Late, NotesAt, Pr
  <2>5. Placed' /\ Claimed' /\ Ready'
    BY <1>1, <2>1, <2>2 DEF Inv, Placed, Claimed, Ready, Shown, NotesAt, Pr, Final, Blocked, Working
  <2>6. QED BY <1>1, <2>1, <2>2, <2>4, <2>5 DEF Inv, Shape, HubShape, ClientShape, SentShape, LateShape,
               Known
<1>4. QED BY <1>2, <1>3 DEF Unobserved

-----------------------------------------------------------------------------
(* GitHub                                                                  *)

\* What every change of GitHub leaves true.
Grown == /\ HubShape' /\ Len(hub.prs) <= Len(hub'.prs)
         /\ hub.ref \in Landed => hub'.ref \in Landed
         /\ Len(hub.notes) <= Len(hub'.notes)
         /\ \A i \in 1 .. Len(hub.notes) :
              /\ hub'.notes[i].place = hub.notes[i].place
              /\ hub.notes[i].status = "IMPLEMENTED" => hub'.notes[i].status = "IMPLEMENTED"
SameNotes == Len(hub'.notes) = Len(hub.notes)
SameLabel == UNCHANGED <<hub.label, hub.commands, hub.removals, hub.erased>>
NoNewReady == \A n \in DOMAIN hub'.prs : ~hub'.prs[n].draft /\ hub'.prs[n].by = "writer" =>
                n \in DOMAIN hub.prs /\ ~hub.prs[n].draft /\ hub.prs[n].by = "writer"

LEMMA SameHub == HubShape /\ hub' = hub => Grown /\ SameNotes /\ SameLabel /\ NoNewReady
  BY DEF HubShape, Grown, SameNotes, SameLabel, NoNewReady

\* A pull request, changed by somebody.
LEMMA PullEdit ==
  ASSUME HubShape, NEW n \in DOMAIN hub.prs, NEW p \in Pulls,
         hub' = [hub EXCEPT !.prs[n] = p], p.draft \/ p.by = "owner"
  PROVE  Grown /\ SameNotes /\ SameLabel /\ NoNewReady
<1>1. LET s == [hub.prs EXCEPT ![n] = p]
      IN  s \in Seq(Pulls) /\ Len(s) = Len(hub.prs) /\ \A j \in 1 .. Len(hub.prs) : s[j] = IF j = n THEN p ELSE hub.prs[j]
  BY ExceptSeq DEF HubShape
<1>2. /\ hub'.prs = [hub.prs EXCEPT ![n] = p]
      /\ UNCHANGED <<hub.ref, hub.notes, hub.label, hub.commands, hub.removals, hub.erased>>
      /\ hub' = [ref |-> hub'.ref, prs |-> hub'.prs, notes |-> hub'.notes, label |-> hub'.label,
                 commands |-> hub'.commands, removals |-> hub'.removals, erased |-> hub'.erased]
  BY DEF HubShape
<1>3. QED BY <1>1, <1>2 DEF HubShape, Grown, SameNotes, SameLabel, NoNewReady

LEMMA PullAdded ==
  ASSUME HubShape, NEW p \in Pulls, hub' = [hub EXCEPT !.prs = Append(@, p)], p.draft \/ p.by = "owner"
  PROVE  Grown /\ SameNotes /\ SameLabel /\ NoNewReady /\ Len(hub'.prs) = Len(hub.prs) + 1
<1>1. LET s == Append(hub.prs, p)
      IN  s \in Seq(Pulls) /\ Len(s) = Len(hub.prs) + 1 /\ s[Len(hub.prs) + 1] = p
          /\ \A j \in 1 .. Len(hub.prs) : s[j] = hub.prs[j]
  BY DEF HubShape
<1>2. /\ hub'.prs = Append(hub.prs, p)
      /\ UNCHANGED <<hub.ref, hub.notes, hub.label, hub.commands, hub.removals, hub.erased>>
      /\ hub' = [ref |-> hub'.ref, prs |-> hub'.prs, notes |-> hub'.notes, label |-> hub'.label,
                 commands |-> hub'.commands, removals |-> hub'.removals, erased |-> hub'.erased]
  BY DEF HubShape
<1>3. QED BY <1>1, <1>2 DEF HubShape, Grown, SameNotes, SameLabel, NoNewReady

LEMMA RefMoves ==
  ASSUME HubShape, NEW r \in Refs, hub' = [hub EXCEPT !.ref = r], hub.ref \in Landed => r \in Landed
  PROVE  Grown /\ SameNotes /\ SameLabel /\ NoNewReady
<1>1. /\ hub'.ref = r
      /\ UNCHANGED <<hub.prs, hub.notes, hub.label, hub.commands, hub.removals, hub.erased>>
      /\ hub' = [ref |-> hub'.ref, prs |-> hub'.prs, notes |-> hub'.notes, label |-> hub'.label,
                 commands |-> hub'.commands, removals |-> hub'.removals, erased |-> hub'.erased]
  BY DEF HubShape
<1>2. QED BY <1>1 DEF HubShape, Grown, SameNotes, SameLabel, NoNewReady

\* A transition, as one change of the pull request.
Marked(pr, draft) == [pr EXCEPT !.draft = draft, !.by = "writer"]
LEMMA MarkIs ==
  ASSUME NEW n, NEW draft, hub' = [hub EXCEPT !.prs[n].draft = draft, !.prs[n].by = "writer"]
  PROVE  hub' = [hub EXCEPT !.prs = [hub.prs EXCEPT ![n] = Marked(hub.prs[n], draft)]]
BY Zenon DEF Marked

\* What a request does, with what only one kind of request may do.
LEMMA EffectIs ==
  ASSUME HubShape, NEW e, Known(e), hub' = Apply(hub, e)
  PROVE  /\ Grown
         /\ e.do # "note" => SameNotes
         /\ e.do # "unlabel" => SameLabel
         /\ (e.do = "draft" /\ ~e.draft) \/ NoNewReady
         /\ e.do = "note" => /\ Len(hub'.notes) = Len(hub.notes) + 1
                             /\ hub'.notes[Len(hub.notes) + 1].place = e.place
         /\ e.do = "pull" /\ Effective(hub, e) => Len(hub'.prs) = Len(hub.prs) + 1
         /\ e.do = "unlabel" => \/ SameLabel
                                \/ /\ hub.label # 0 /\ hub'.removals = hub.removals + 1
                                   /\ hub'.commands = hub.commands
                                   /\ hub'.erased = hub.erased \cup {hub.label}
<1>1. CASE ~Effective(hub, e)
  <2>1. hub' = hub
    BY <1>1 DEF Apply
  <2>2. e.do # "note"
    BY <1>1 DEF Effective
  <2>3. QED BY <1>1, <2>1, <2>2, SameHub
<1>2. CASE Effective(hub, e) /\ e.do = "push"
  <2>1. hub' = [hub EXCEPT !.ref = "candidate"] /\ hub.ref = "previous"
    BY <1>2 DEF Apply, Effective
  <2>2. QED BY <1>2, <2>1, RefMoves DEF Refs, Landed
<1>3. CASE Effective(hub, e) /\ e.do = "pull"
  <2>1. hub' = [hub EXCEPT !.prs = Append(@, NewPull(TRUE, TRUE))]
    BY <1>3 DEF Apply
  <2>2. NewPull(TRUE, TRUE) \in Pulls /\ NewPull(TRUE, TRUE).draft
    BY DEF NewPull, Pulls
  <2>3. QED BY <1>3, <2>1, <2>2, PullAdded
<1>4. CASE e.do = "note"
  <2> DEFINE c == [place |-> e.place, status |-> e.status]
  <2>1. c \in Notes
    BY <1>4 DEF Known, Notes
  <2>2. hub' = [hub EXCEPT !.notes = Append(@, c)]
    BY <1>4 DEF Apply, Effective
  <2>3. LET s == Append(hub.notes, c)
        IN  s \in Seq(Notes) /\ Len(s) = Len(hub.notes) + 1 /\ s[Len(hub.notes) + 1] = c
            /\ \A j \in 1 .. Len(hub.notes) : s[j] = hub.notes[j]
    BY <2>1 DEF HubShape
  <2>4. /\ hub'.notes = Append(hub.notes, c)
        /\ UNCHANGED <<hub.ref, hub.prs, hub.label, hub.commands, hub.removals, hub.erased>>
        /\ hub' = [ref |-> hub'.ref, prs |-> hub'.prs, notes |-> hub'.notes, label |-> hub'.label,
                   commands |-> hub'.commands, removals |-> hub'.removals, erased |-> hub'.erased]
    BY <2>2 DEF HubShape
  <2>5. c.place = e.place
    OBVIOUS
  <2> HIDE DEF c
  <2>6. QED BY <1>4, <2>3, <2>4, <2>5 DEF HubShape, Grown, SameLabel, NoNewReady
<1>5. CASE e.do = "patch"
  <2> DEFINE c == [hub.notes[e.id] EXCEPT !.status = "IMPLEMENTED"]
  <2>1. e.id \in 1 .. Len(hub.notes) /\ hub.notes[e.id] \in Notes
    BY <1>5 DEF Known, HubShape
  <2>2. c \in Notes /\ c.place = hub.notes[e.id].place /\ c.status = "IMPLEMENTED"
    BY <2>1 DEF Notes, Statuses
  <2>3. LET s == [hub.notes EXCEPT ![e.id] = c]
        IN  s \in Seq(Notes) /\ Len(s) = Len(hub.notes)
            /\ \A j \in 1 .. Len(hub.notes) : s[j] = IF j = e.id THEN c ELSE hub.notes[j]
    <3> HIDE DEF c
    <3>1. QED BY <2>1, <2>2, ExceptSeq DEF HubShape
  <2>4. hub' = [hub EXCEPT !.notes = [hub.notes EXCEPT ![e.id] = c]]
    BY <1>5 DEF Apply, Effective
  <2> HIDE DEF c
  <2>5. /\ hub'.notes = [hub.notes EXCEPT ![e.id] = c]
        /\ UNCHANGED <<hub.ref, hub.prs, hub.label, hub.commands, hub.removals, hub.erased>>
        /\ hub' = [ref |-> hub'.ref, prs |-> hub'.prs, notes |-> hub'.notes, label |-> hub'.label,
                   commands |-> hub'.commands, removals |-> hub'.removals, erased |-> hub'.erased]
    BY <2>4 DEF HubShape
  <2>6. QED BY <1>5, <2>1, <2>2, <2>3, <2>5 DEF HubShape, Grown, SameNotes, SameLabel, NoNewReady
<1>6. CASE Effective(hub, e) /\ e.do = "draft"
  <2> DEFINE p == Marked(hub.prs[e.pr], e.draft)
  <2>1. e.pr \in 1 .. Len(hub.prs) /\ hub.prs[e.pr] \in Pulls /\ e.draft \in BOOLEAN
    BY <1>6 DEF Known, HubShape
  <2>2. p \in Pulls /\ p.draft = e.draft
    BY <2>1 DEF Pulls, Marked
  <2>3. LET s == [hub.prs EXCEPT ![e.pr] = p]
        IN  s \in Seq(Pulls) /\ Len(s) = Len(hub.prs)
            /\ \A j \in 1 .. Len(hub.prs) : s[j] = IF j = e.pr THEN p ELSE hub.prs[j]
    <3> HIDE DEF p
    <3>1. QED BY <2>1, <2>2, ExceptSeq DEF HubShape
  <2>4. hub' = [hub EXCEPT !.prs = [hub.prs EXCEPT ![e.pr] = p]]
    <3>1. hub' = [hub EXCEPT !.prs[e.pr].draft = e.draft, !.prs[e.pr].by = "writer"]
      BY <1>6 DEF Apply
    <3>2. QED BY <3>1, MarkIs
  <2> HIDE DEF p
  <2>5. /\ hub'.prs = [hub.prs EXCEPT ![e.pr] = p]
        /\ UNCHANGED <<hub.ref, hub.notes, hub.label, hub.commands, hub.removals, hub.erased>>
        /\ hub' = [ref |-> hub'.ref, prs |-> hub'.prs, notes |-> hub'.notes, label |-> hub'.label,
                   commands |-> hub'.commands, removals |-> hub'.removals, erased |-> hub'.erased]
    BY <2>4 DEF HubShape
  <2>6. Grown /\ SameNotes /\ SameLabel
    BY <2>3, <2>5 DEF HubShape, Grown, SameNotes, SameLabel
  <2>7. e.draft => NoNewReady
    BY <2>1, <2>2, <2>3, <2>5 DEF HubShape, NoNewReady
  <2>8. QED BY <1>6, <2>1, <2>6, <2>7
<1>7. CASE Effective(hub, e) /\ e.do = "unlabel"
  <2>1. hub' = [hub EXCEPT !.label = 0, !.removals = @ + 1, !.erased = @ \cup {hub.label}] /\ hub.label # 0
    BY <1>7 DEF Apply, Effective
  <2>2. /\ hub'.label = 0 /\ hub'.removals = hub.removals + 1 /\ hub'.erased = hub.erased \cup {hub.label}
        /\ UNCHANGED <<hub.ref, hub.prs, hub.notes, hub.commands>>
        /\ hub' = [ref |-> hub'.ref, prs |-> hub'.prs, notes |-> hub'.notes, label |-> hub'.label,
                   commands |-> hub'.commands, removals |-> hub'.removals, erased |-> hub'.erased]
    BY <2>1 DEF HubShape
  <2>3. QED BY <1>7, <2>1, <2>2 DEF HubShape, Grown, SameNotes, NoNewReady
<1>8. QED BY <1>1, <1>2, <1>3, <1>4, <1>5, <1>6, <1>7 DEF Known, Effects

-----------------------------------------------------------------------------
(* Requests                                                                *)

Sent(e) == \/ hub' = Apply(hub, e) /\ UNCHANGED late
           \/ UNCHANGED <<hub, late>>
           \/ UNCHANGED hub /\ late' = late \cup {e}

LEMMA KnownStays ==
  ASSUME HubShape, Grown, NEW e, Known(e)
  PROVE  Known(e)'
BY DEF HubShape, Grown, Known

LEMMA SentIs ==
  ASSUME HubShape, LateShape, NEW e, Known(e), Sent(e)
  PROVE  /\ Grown /\ LateShape' /\ late' \subseteq late \cup {e}
         /\ e.do # "note" => SameNotes
         /\ e.do # "unlabel" => SameLabel
         /\ (e.do = "draft" /\ ~e.draft) \/ NoNewReady
<1>1. /\ Grown /\ (e.do # "note" => SameNotes) /\ (e.do # "unlabel" => SameLabel)
      /\ (e.do = "draft" /\ ~e.draft) \/ NoNewReady
  BY EffectIs, SameHub DEF Sent
<1>2. late' \subseteq late \cup {e}
  BY DEF Sent
<1>3. LateShape'
  BY <1>1, <1>2, KnownStays DEF LateShape
<1>4. QED BY <1>1, <1>2, <1>3

Counted(do) == \A a \in Asks : sent'[a] = IF a = do THEN sent[a] + 1 ELSE sent[a]
LEMMA CountedIs ==
  ASSUME SentShape, NEW do, sent' = [d \in DOMAIN sent |-> IF d = do THEN sent[d] + 1 ELSE sent[d]]
  PROVE  SentShape' /\ Counted(do)
BY DEF SentShape, Counted

\* What a step keeps of each part.
LEMMA CommandKept ==
  ASSUME Command, SameLabel, UNCHANGED rec.ready, sent'["unlabel"] = sent["unlabel"],
         Late("unlabel")' => Late("unlabel"), call'.at \notin {"consume", "unlabel", "verify"}
  PROVE  Command'
BY DEF Command, SameLabel

LEMMA AskedKept ==
  ASSUME Asked, UNCHANGED <<rec.prIntent, rec.recoveries, rec.publicationIntent, rec.publishedHead>>,
         sent'["pull"] = sent["pull"], sent'["push"] = sent["push"], call'.at \notin {"create", "push"}
  PROVE  Asked'
BY DEF Asked

LEMMA NotedKept ==
  ASSUME HubShape, Noted, Grown, SameNotes, UNCHANGED rec.commentIntent, call'.at # "post",
         \A e \in late' : e.do = "note" => e \in late
  PROVE  Noted'
<1>1. DOMAIN hub.notes = 1 .. Len(hub.notes) /\ DOMAIN hub'.notes = 1 .. Len(hub.notes)
  BY DEF HubShape, Grown, SameNotes
<1>2. QED BY <1>1 DEF Noted, Grown, NotesAt

LEMMA NotesStay ==
  ASSUME HubShape, Grown, NEW p, NotesAt(p) # {}
  PROVE  NotesAt(p)' # {}
<1>1. PICK i \in 1 .. Len(hub.notes) : hub.notes[i].place = p
  BY DEF HubShape, NotesAt
<1>2. i \in DOMAIN hub'.notes /\ hub'.notes[i].place = p
  BY <1>1 DEF HubShape, Grown
<1>3. QED BY <1>2 DEF NotesAt

LEMMA ShownStays ==
  ASSUME HubShape, Grown, Shown, rec'.publishedHead
  PROVE  Shown'
<1>1. PICK i \in 1 .. Len(hub.notes) : hub.notes[i].status = "IMPLEMENTED"
  BY DEF HubShape, Shown
<1>2. i \in DOMAIN hub'.notes /\ hub'.notes[i].status = "IMPLEMENTED"
  BY <1>1 DEF HubShape, Grown
<1>3. QED BY <1>2 DEF Shown

LEMMA ClaimedGrows ==
  ASSUME HubShape, Grown, Claimed, UNCHANGED <<rec.outcome, rec.publishedHead>>,
         call'.at \notin {"patch", "save"},
         call'.op = "finish" /\ call'.at \in Working \cup {"pull", "create"} => rec.publishedHead
  PROVE  Claimed'
<1>1. ASSUME rec.outcome # None PROVE NotesAt(rec.outcome.place)' # {}
  <2> DEFINE p == rec.outcome.place
  <2>1. NotesAt(p) # {} /\ p = rec'.outcome.place
    BY <1>1 DEF Claimed
  <2> HIDE DEF p
  <2>2. \A q : q = p => {i \in DOMAIN hub'.notes : hub'.notes[i].place = q} # {}
    BY <2>1, NotesStay DEF NotesAt
  <2>3. QED BY <2>1, <2>2 DEF NotesAt
<1>2. QED BY <1>1 DEF Claimed, Grown, Final

LEMMA ReadyStays ==
  ASSUME HubShape, Grown, Ready, NoNewReady, UNCHANGED <<rec.publishedHead, rec.handoffComplete>>,
         \A e \in late' : e.do = "draft" /\ ~e.draft => e \in late,
         call'.op = "handoff" /\ call'.at \in Working => call.op = "handoff" /\ call.at \in Working
  PROVE  Ready'
<1>1. Shown => Shown'
  BY ShownStays DEF Shown
<1>2. QED BY <1>1 DEF Ready, NoNewReady

LEMMA PlacedStays ==
  ASSUME HubShape, Grown, Placed, UNCHANGED <<origin, rec.prNumber, rec.outcome>>,
         call'.at \in {"transition", "mutate", "readback"} \/ (call'.op = "finish" /\ call'.at \in Working) => Pr # 0
  PROVE  Placed'
<1>1. Len(hub.prs) \in Nat /\ Len(hub'.prs) \in Nat
  BY DEF HubShape, Grown
<1>2. QED BY <1>1 DEF Grown, Placed, Pr, Final, Working

LEMMA DeleteReadyKeeps == Inv /\ DeleteReady => Inv'
<1> SUFFICES ASSUME Inv, DeleteReady PROVE Inv' OBVIOUS
<1> DEFINE e == [do |-> "unlabel"]
<1>1. HubShape /\ LateShape /\ SentShape /\ RecShape /\ CallShape /\ Known(e)
  BY DEF Inv, Shape, Known, Effects
<1>2. /\ Sent(e) /\ UNCHANGED <<origin, jrn, client>>
      /\ sent' = [d \in DOMAIN sent |-> IF d = "unlabel" THEN sent[d] + 1 ELSE sent[d]]
      /\ (Goto("verify") /\ UNCHANGED rec) \/ Refuse
  BY DEF DeleteReady, Request, Sent
<1>3. /\ rec.ready = "deleting" /\ sent["unlabel"] = 0 /\ hub.removals = 0 /\ hub.erased = {} /\ ~Late("unlabel")
      /\ call.op = "admit" /\ call.at = "unlabel"
  BY DEF Inv, DeleteReady, At, Command
<1>4. SentShape' /\ sent'["unlabel"] = 1 /\ sent'["pull"] = sent["pull"] /\ sent'["push"] = sent["push"]
  <2>1. SentShape' /\ Counted("unlabel")
    BY <1>1, <1>2, CountedIs
  <2>2. QED BY <2>1, <1>3 DEF Counted, Asks
<1>5. /\ RecShape' /\ CallShape' /\ call'.orphan = call.orphan /\ rec'.ready \in {"deleting", "uncertain"}
      /\ \/ call'.op = "admit" /\ call'.at = "verify" /\ rec'.ready = "deleting"
         \/ call'.op = "refuse" /\ call'.at = "start"
      /\ UNCHANGED <<rec.recoveries, rec.publicationIntent, rec.publishedHead, rec.prIntent, rec.prNumber,
                     rec.commentIntent, rec.outcome, rec.handoffComplete>>
  BY <1>1, <1>2, <1>3 DEF RecShape, CallShape, Put, Refuse, Goto
<1>6. Grown /\ LateShape' /\ late' \subseteq late \cup {e} /\ SameNotes /\ NoNewReady
  BY <1>1, <1>2, SentIs
<1>7. Command'
  <2>1. CASE hub' = Apply(hub, e) /\ UNCHANGED late
    <3>1. \/ SameLabel
          \/ /\ hub.label # 0 /\ hub'.removals = hub.removals + 1 /\ hub'.commands = hub.commands
             /\ hub'.erased = hub.erased \cup {hub.label}
      BY <1>1, <2>1, EffectIs
    <3>2. hub.label \in 0 .. hub.commands /\ hub.commands \in Nat
      BY <1>1 DEF HubShape
    <3>3. ~Late("unlabel")'
      BY <1>3, <2>1 DEF Late
    <3>4. QED BY <1>3, <1>4, <1>5, <3>1, <3>2, <3>3 DEF Command, SameLabel
  <2>2. CASE UNCHANGED hub
    BY <1>3, <1>4, <1>5, <2>2 DEF Command
  <2>3. QED BY <1>2, <2>1, <2>2 DEF Sent
<1>8. Asked' /\ Admitted'
  BY <1>2, <1>3, <1>4, <1>5, AskedKept DEF Inv, Admitted
<1>9. Noted' /\ Claimed' /\ Ready'
  BY <1>1, <1>5, <1>6, NotedKept, ClaimedGrows, ReadyStays DEF Inv, Working
<1>10. Placed'
  BY <1>1, <1>2, <1>5, <1>6, PlacedStays DEF Inv, Working
<1>11. QED BY <1>1, <1>2, <1>4, <1>5, <1>6, <1>7, <1>8, <1>9, <1>10 DEF Inv, Shape, Grown, ClientShape

LEMMA PushKeeps == Inv /\ Push => Inv'
<1> SUFFICES ASSUME Inv, Push PROVE Inv' OBVIOUS
<1> DEFINE e == [do |-> "push"]
<1>1. HubShape /\ LateShape /\ SentShape /\ RecShape /\ CallShape /\ Known(e)
  BY DEF Inv, Shape, Known, Effects
<1>2. /\ Sent(e) /\ UNCHANGED <<origin, jrn, client, rec>> /\ Goto("observe") /\ call.at = "push"
      /\ sent' = [d \in DOMAIN sent |-> IF d = "push" THEN sent[d] + 1 ELSE sent[d]]
      /\ call.op \in {"publish", "recover"}
  BY DEF Push, Request, Sent, At
<1>3. SentShape' /\ sent'["push"] = sent["push"] + 1 /\ sent'["pull"] = sent["pull"] /\ sent'["unlabel"] = sent["unlabel"]
  <2>1. SentShape' /\ Counted("push")
    BY <1>1, <1>2, CountedIs
  <2>2. QED BY <2>1 DEF Counted, Asks
<1>4. CallShape' /\ call'.orphan = call.orphan /\ call'.op = call.op /\ call'.at = "observe"
  BY <1>1, <1>2 DEF CallShape, Goto
<1>5. Grown /\ LateShape' /\ late' \subseteq late \cup {e} /\ SameNotes /\ SameLabel /\ NoNewReady
  BY <1>1, <1>2, SentIs
<1>6. Asked'
  <2>1. sent["push"] \in Nat /\ Len(rec.recoveries) \in Nat
    BY <1>1 DEF SentShape, RecShape, Asks
  <2>2. QED BY <1>2, <1>3, <1>4, <2>1 DEF Inv, Asked
<1>7. Late("unlabel")' => Late("unlabel")
  BY <1>5 DEF Late
<1>8. Command' /\ Admitted'
  BY <1>2, <1>3, <1>4, <1>5, <1>7, CommandKept DEF Inv, Admitted
<1>9. Noted' /\ Claimed' /\ Ready'
  BY <1>1, <1>2, <1>4, <1>5, NotedKept, ClaimedGrows, ReadyStays DEF Inv, Working
<1>10. Placed'
  BY <1>1, <1>2, <1>4, <1>5, PlacedStays DEF Inv, Working
<1>11. QED BY <1>1, <1>2, <1>3, <1>4, <1>5, <1>6, <1>8, <1>9, <1>10 DEF Inv, Shape, Grown, ClientShape,
              RecShape

LEMMA CreatePullKeeps == Inv /\ CreatePull => Inv'
<1> SUFFICES ASSUME Inv, CreatePull PROVE Inv' OBVIOUS
<1> DEFINE e == [do |-> "pull"]
<1>1. HubShape /\ LateShape /\ SentShape /\ RecShape /\ CallShape /\ Known(e)
  BY DEF Inv, Shape, Known, Effects
<1>2. /\ Sent(e) /\ UNCHANGED <<origin, jrn, client>>
      /\ call.at = "create" /\ call.op \in {"publish", "finish"}
      /\ sent' = [d \in DOMAIN sent |-> IF d = "pull" THEN sent[d] + 1 ELSE sent[d]]
      /\ \/ /\ hub' = Apply(hub, e) /\ Effective(hub, e)
            /\ Put([rec EXCEPT !.prNumber = Len(hub.prs) + 1]) /\ Goto(AfterPull)
         \/ Fail /\ UNCHANGED rec
  BY DEF CreatePull, Request, Sent, At
<1>3. SentShape' /\ sent'["pull"] = sent["pull"] + 1 /\ sent'["push"] = sent["push"] /\ sent'["unlabel"] = sent["unlabel"]
  <2>1. SentShape' /\ Counted("pull")
    BY <1>1, <1>2, CountedIs
  <2>2. QED BY <2>1 DEF Counted, Asks
<1>4. /\ RecShape' /\ CallShape' /\ call'.orphan = call.orphan /\ call'.op = call.op
      /\ \/ /\ hub' = Apply(hub, e) /\ Effective(hub, e) /\ rec'.prNumber = Len(hub.prs) + 1
            /\ call'.at = "transition" \/ (call.op = "publish" /\ call'.at = "done")
         \/ call'.at = "failed" /\ rec'.prNumber = rec.prNumber
      /\ UNCHANGED <<rec.ready, rec.recoveries, rec.publicationIntent, rec.publishedHead, rec.prIntent,
                     rec.commentIntent, rec.outcome, rec.handoffComplete>>
  BY <1>1, <1>2 DEF RecShape, CallShape, Put, Goto, Fail, AfterPull
<1>5. Grown /\ LateShape' /\ late' \subseteq late \cup {e} /\ SameNotes /\ SameLabel /\ NoNewReady
  BY <1>1, <1>2, SentIs
<1>6. Asked'
  <2>1. sent["pull"] \in Nat
    BY <1>1 DEF SentShape, Asks
  <2>2. QED BY <1>2, <1>3, <1>4, <2>1 DEF Inv, Asked
<1>7. Late("unlabel")' => Late("unlabel")
  BY <1>5 DEF Late
<1>8. Command' /\ Admitted'
  BY <1>2, <1>3, <1>4, <1>5, <1>7, CommandKept DEF Inv, Admitted
<1>9. call.op = "finish" => rec.publishedHead
  BY <1>2 DEF Inv, Claimed
<1>10. Noted' /\ Claimed' /\ Ready'
  BY <1>1, <1>2, <1>4, <1>5, <1>9, NotedKept, ClaimedGrows, ReadyStays DEF Inv, Working
<1>11. Placed'
  <2>1. CASE call'.at = "failed" /\ rec'.prNumber = rec.prNumber
    BY <1>1, <1>2, <1>4, <1>5, <2>1, PlacedStays DEF Inv, Working
  <2>2. CASE hub' = Apply(hub, e) /\ Effective(hub, e) /\ rec'.prNumber = Len(hub.prs) + 1
    <3>1. Len(hub'.prs) = Len(hub.prs) + 1 /\ Len(hub.prs) \in Nat
      BY <1>1, <2>2, EffectIs DEF HubShape
    <3>2. QED BY <1>2, <1>4, <2>2, <3>1 DEF Inv, Placed, Pr, Final, Working
  <2>3. QED BY <1>4, <2>1, <2>2
<1>12. QED BY <1>1, <1>2, <1>3, <1>4, <1>5, <1>6, <1>8, <1>10, <1>11 DEF Inv, Shape, Grown, ClientShape

LEMMA TransitionKeeps == Inv /\ Transition => Inv'
<1> SUFFICES ASSUME Inv, Transition PROVE Inv' OBVIOUS
<1> DEFINE e == [do |-> "draft", pr |-> Pr, draft |-> WantsDraft]
<1>1. HubShape /\ LateShape /\ SentShape /\ RecShape /\ CallShape
  BY DEF Inv, Shape
<1>2. /\ Sent(e) /\ UNCHANGED <<origin, jrn, client, rec>> /\ Goto("readback")
      /\ call.at = "mutate"
      /\ sent' = [d \in DOMAIN sent |-> IF d = "draft" THEN sent[d] + 1 ELSE sent[d]]
  BY DEF Transition, Request, Sent, At
<1>3. Known(e)
  <2>1. Pr \in 1 .. Len(hub.prs) /\ Len(hub.prs) \in Nat
    BY <1>1, <1>2 DEF Inv, Placed, HubShape
  <2>2. QED BY <1>1, <2>1 DEF HubShape, Known, Effects, WantsDraft
<1>4. SentShape' /\ sent'["pull"] = sent["pull"] /\ sent'["push"] = sent["push"] /\ sent'["unlabel"] = sent["unlabel"]
  <2>1. SentShape' /\ Counted("draft")
    BY <1>1, <1>2, CountedIs
  <2>2. QED BY <2>1 DEF Counted, Asks
<1>5. CallShape' /\ call'.orphan = call.orphan /\ call'.op = call.op /\ call'.at = "readback"
  BY <1>1, <1>2 DEF CallShape, Goto
<1>6. /\ Grown /\ LateShape' /\ late' \subseteq late \cup {e} /\ SameNotes /\ SameLabel
      /\ ~e.draft \/ NoNewReady
  BY <1>1, <1>2, <1>3, SentIs
<1>7. ~e.draft => Shown
  BY <1>2 DEF Inv, Ready, WantsDraft, Working
<1>8. Late("unlabel")' => Late("unlabel")
  BY <1>6 DEF Late
<1>9. Command' /\ Admitted' /\ Asked'
  BY <1>2, <1>4, <1>5, <1>6, <1>8, CommandKept, AskedKept DEF Inv, Admitted
<1>10. \A d \in late' : d.do = "note" => d \in late
  BY <1>6
<1>11. call.op = "finish" => rec.publishedHead
  BY <1>2 DEF Inv, Claimed, Working
<1>12. Noted' /\ Claimed'
  BY <1>1, <1>2, <1>5, <1>6, <1>10, <1>11, NotedKept, ClaimedGrows DEF Inv
<1>13. Ready'
  <2>1. Shown => Shown'
    BY <1>1, <1>2, <1>6, ShownStays DEF Shown
  <2>2. CASE Shown
    BY <2>1, <2>2 DEF Ready
  <2>3. CASE ~Shown
    <3>1. e.draft = TRUE /\ NoNewReady
      BY <1>6, <1>7, <2>3 DEF WantsDraft
    <3>2. \A d \in late' : d.do = "draft" /\ ~d.draft => d \in late
      BY <1>6, <3>1
    <3>3. QED BY <1>1, <1>2, <1>5, <1>6, <3>1, <3>2, ReadyStays DEF Inv, Working
  <2>4. QED BY <2>2, <2>3
<1>14. Placed'
  BY <1>1, <1>2, <1>5, <1>6, PlacedStays DEF Inv, Placed
<1>15. QED BY <1>1, <1>2, <1>4, <1>5, <1>6, <1>9, <1>12, <1>13, <1>14 DEF Inv, Shape, Grown, ClientShape,
              RecShape

LEMMA PostNoteKeeps == Inv /\ PostNote => Inv'
<1> SUFFICES ASSUME Inv, PostNote PROVE Inv' OBVIOUS
<1> DEFINE e == [do |-> "note", place |-> Pr, status |-> Outcome.status]
<1>1. HubShape /\ LateShape /\ SentShape /\ RecShape /\ CallShape
  BY DEF Inv, Shape
<1>2. /\ UNCHANGED <<origin, jrn, client>> /\ call.at = "post" /\ call.op \in {"finish", "terminal", "refuse"}
      /\ sent' = [d \in DOMAIN sent |-> IF d = "note" THEN sent[d] + 1 ELSE sent[d]]
      /\ \/ /\ hub' = Apply(hub, e) /\ UNCHANGED late
            /\ Put([rec EXCEPT !.commentBodies = Outcome, !.commentIntent = None]) /\ Goto("save")
         \/ Sent(e) /\ Fail /\ UNCHANGED rec
  BY DEF PostNote, Request, Sent, At
<1>3. Pr \in Nat /\ Known(e)
  <2>1. Pr \in Nat
    BY <1>1 DEF Inv, Placed, HubShape
  <2>2. QED BY <2>1 DEF Known, Effects, Outcome, Statuses
<1>4. SentShape' /\ sent'["pull"] = sent["pull"] /\ sent'["push"] = sent["push"] /\ sent'["unlabel"] = sent["unlabel"]
  <2>1. SentShape' /\ Counted("note")
    BY <1>1, <1>2, CountedIs
  <2>2. QED BY <2>1 DEF Counted, Asks
<1>5. /\ RecShape' /\ CallShape' /\ call'.orphan = call.orphan /\ call'.op = call.op
      /\ \/ hub' = Apply(hub, e) /\ UNCHANGED late /\ rec'.commentIntent = None /\ call'.at = "save"
         \/ Sent(e) /\ call'.at = "failed" /\ rec'.commentIntent = rec.commentIntent
      /\ UNCHANGED <<rec.ready, rec.recoveries, rec.publicationIntent, rec.publishedHead, rec.prIntent, rec.prNumber,
                     rec.outcome, rec.handoffComplete>>
  BY <1>1, <1>2 DEF RecShape, CallShape, Put, Goto, Fail
<1>6. Sent(e)
  BY <1>5 DEF Sent
<1>7. /\ Grown /\ LateShape' /\ late' \subseteq late \cup {e} /\ SameLabel /\ NoNewReady
  BY <1>1, <1>3, <1>6, SentIs
<1>8. Late("unlabel")' => Late("unlabel")
  BY <1>7 DEF Late
<1>9. Command' /\ Admitted' /\ Asked'
  BY <1>2, <1>4, <1>5, <1>7, <1>8, CommandKept, AskedKept DEF Inv, Admitted
<1>10. rec.commentIntent # None /\ rec.commentIntent.place = Pr /\ NotesAt(Pr) = {} /\ ~Late("note")
  BY <1>2 DEF Inv, Noted
<1>11. \/ UNCHANGED hub
       \/ /\ Len(hub'.notes) = Len(hub.notes) + 1 /\ hub'.notes[Len(hub.notes) + 1].place = Pr /\ UNCHANGED late
  BY <1>1, <1>3, <1>6, EffectIs DEF Sent
<1>12. Len(hub.notes) \in Nat /\ DOMAIN hub.notes = 1 .. Len(hub.notes) /\ DOMAIN hub'.notes = 1 .. Len(hub'.notes)
  BY <1>1, <1>7 DEF HubShape, Grown
<1>13. Noted'
  <2>1. \A d \in late' : d.do = "note" => d = e /\ UNCHANGED hub /\ rec'.commentIntent = rec.commentIntent
    BY <1>5, <1>6, <1>10 DEF Sent, Late
  <2>2. UNCHANGED Pr
    BY <1>2, <1>5 DEF Pr
  <2>3. \A i, j \in DOMAIN hub'.notes : hub'.notes[i].place = hub'.notes[j].place => i = j
    <3>1. \A i \in DOMAIN hub.notes : hub.notes[i].place # Pr
      BY <1>10 DEF NotesAt
    <3>2. \A i, j \in DOMAIN hub.notes : hub.notes[i].place = hub.notes[j].place => i = j
      BY DEF Inv, Noted
    <3>3. CASE UNCHANGED hub
      BY <3>2, <3>3
    <3>4. CASE Len(hub'.notes) = Len(hub.notes) + 1 /\ hub'.notes[Len(hub.notes) + 1].place = Pr
      <4>1. \A i \in 1 .. Len(hub.notes) : hub'.notes[i].place = hub.notes[i].place
        BY <1>7 DEF Grown
      <4>2. \A i \in DOMAIN hub'.notes : i \in 1 .. Len(hub.notes) \/ i = Len(hub.notes) + 1
        BY <1>12, <3>4
      <4>3. QED BY <1>12, <3>1, <3>2, <3>4, <4>1, <4>2
    <3>5. QED BY <1>11, <3>3, <3>4
  <2>4. \A d \in late' : d.do = "note" =>
          rec'.commentIntent # None /\ rec'.commentIntent.place = d.place /\ NotesAt(d.place)' = {}
    BY <1>10, <2>1 DEF NotesAt
  <2>5. \A d, f \in late' : d.do = "note" /\ f.do = "note" => d = f
    BY <2>1
  <2>6. QED BY <1>5, <2>3, <2>4, <2>5 DEF Noted
<1>14. call.op = "finish" => rec.publishedHead
  BY <1>2 DEF Inv, Claimed, Working
<1>15. Claimed'
  <2>1. CASE call'.at = "failed"
    BY <1>1, <1>5, <1>7, <2>1, ClaimedGrows DEF Inv, Working
  <2>2. CASE call'.at = "save" /\ hub' = Apply(hub, e)
    <3>1. Len(hub.notes) + 1 \in DOMAIN hub'.notes /\ hub'.notes[Len(hub.notes) + 1].place = Pr /\ UNCHANGED Pr
      BY <1>1, <1>2, <1>3, <1>5, <1>12, <2>2, EffectIs DEF Pr
    <3>2. NotesAt(Pr)' # {}
      BY <3>1 DEF NotesAt
    <3>3. ASSUME rec.outcome # None PROVE NotesAt(rec.outcome.place)' # {}
      <4> DEFINE p == rec.outcome.place
      <4>1. NotesAt(p) # {} /\ p = rec'.outcome.place
        BY <1>5, <3>3 DEF Inv, Claimed
      <4> HIDE DEF p
      <4>2. \A q : q = p => {i \in DOMAIN hub'.notes : hub'.notes[i].place = q} # {}
        BY <1>1, <1>7, <4>1, NotesStay DEF NotesAt
      <4>3. QED BY <4>1, <4>2 DEF NotesAt
    <3>4. QED BY <1>5, <1>7, <1>14, <2>2, <3>2, <3>3 DEF Inv, Claimed, Grown, Final
  <2>3. QED BY <1>5, <2>1, <2>2
<1>16. Ready'
  <2>1. \A d \in late' : d.do = "draft" /\ ~d.draft => d \in late
    BY <1>7
  <2>2. QED BY <1>1, <1>2, <1>5, <1>7, <2>1, ReadyStays DEF Inv
<1>17. Placed'
  BY <1>1, <1>2, <1>5, <1>7, PlacedStays DEF Inv, Placed, Working
<1>18. QED BY <1>1, <1>2, <1>4, <1>5, <1>7, <1>9, <1>13, <1>15, <1>16, <1>17 DEF Inv, Shape, Grown,
              ClientShape

LEMMA PatchNoteKeeps == Inv /\ PatchNote => Inv'
<1> SUFFICES ASSUME Inv, PatchNote PROVE Inv' OBVIOUS
<1>1. HubShape /\ LateShape /\ SentShape /\ RecShape /\ CallShape
  BY DEF Inv, Shape
<1>2. PICK i \in NotesAt(rec.outcome.place) :
        \/ hub.notes[i].status = "IMPLEMENTED" /\ Goto("save") /\ Local
        \/ /\ hub.notes[i].status = "BLOCKED"
           /\ Request([do |-> "patch", id |-> i], Goto("save"), Fail)
  BY DEF PatchNote
<1> DEFINE e == [do |-> "patch", id |-> i]
<1>3. i \in DOMAIN hub.notes /\ Known(e)
  BY DEF NotesAt, Known, Effects
<1>4. /\ UNCHANGED <<origin, jrn, client, rec>> /\ call.at = "patch" /\ call.op = "finish"
      /\ Goto("save") \/ Fail
      /\ Sent(e)
      /\ UNCHANGED sent \/ sent' = [d \in DOMAIN sent |-> IF d = "patch" THEN sent[d] + 1 ELSE sent[d]]
  BY <1>2 DEF PatchNote, Request, Sent, At, Local
<1>5. SentShape' /\ sent'["pull"] = sent["pull"] /\ sent'["push"] = sent["push"] /\ sent'["unlabel"] = sent["unlabel"]
  <2>1. CASE UNCHANGED sent
    BY <1>1, <2>1 DEF SentShape
  <2>2. CASE sent' = [d \in DOMAIN sent |-> IF d = "patch" THEN sent[d] + 1 ELSE sent[d]]
    <3>1. SentShape' /\ Counted("patch")
      BY <1>1, <2>2, CountedIs
    <3>2. QED BY <3>1 DEF Counted, Asks
  <2>3. QED BY <1>4, <2>1, <2>2
<1>6. CallShape' /\ call'.orphan = call.orphan /\ call'.op = call.op /\ call'.at \in {"save", "failed"}
  BY <1>1, <1>4 DEF CallShape, Goto, Fail
<1>7. Grown /\ LateShape' /\ late' \subseteq late \cup {e} /\ SameNotes /\ SameLabel /\ NoNewReady
  BY <1>1, <1>3, <1>4, SentIs
<1>8. Late("unlabel")' => Late("unlabel")
  BY <1>7 DEF Late
<1>9. Command' /\ Admitted' /\ Asked'
  BY <1>4, <1>5, <1>6, <1>7, <1>8, CommandKept, AskedKept DEF Inv, Admitted
<1>10. \A d \in late' : d.do # "patch" => d \in late
  BY <1>7
<1>11. Noted' /\ Ready'
  BY <1>1, <1>4, <1>6, <1>7, <1>10, NotedKept, ReadyStays DEF Inv
<1>12. Blocked /\ rec.publishedHead
  BY <1>4 DEF Inv, Claimed, Working
<1>13. Claimed'
  <2>1. ASSUME rec.outcome # None PROVE NotesAt(rec.outcome.place)' # {}
    <3> DEFINE p == rec.outcome.place
    <3>1. NotesAt(p) # {} /\ p = rec'.outcome.place
      BY <1>4, <2>1 DEF Inv, Claimed
    <3> HIDE DEF p
    <3>2. \A q : q = p => {k \in DOMAIN hub'.notes : hub'.notes[k].place = q} # {}
      BY <1>1, <1>7, <3>1, NotesStay DEF NotesAt
    <3>3. QED BY <3>1, <3>2 DEF NotesAt
  <2>2. Blocked'
    BY <1>4, <1>12 DEF Blocked
  <2>3. QED BY <1>4, <1>6, <1>7, <1>12, <2>1, <2>2 DEF Inv, Claimed, Grown, Final
<1>14. Placed'
  BY <1>1, <1>4, <1>6, <1>7, PlacedStays DEF Inv, Placed, Working
<1>15. QED BY <1>1, <1>4, <1>5, <1>6, <1>7, <1>9, <1>11, <1>13, <1>14 DEF Inv, Shape, Grown, ClientShape,
              RecShape

-----------------------------------------------------------------------------
(* The owner, strangers and late requests                                  *)

\* A change of GitHub that no request of the Writer makes.
LEMMA OthersKeep ==
  ASSUME Inv, Grown, SameNotes, SameLabel, NoNewReady, UNCHANGED <<origin, late, rec, jrn, call, client, sent>>
  PROVE  Inv'
<1>1. HubShape /\ LateShape /\ RecShape /\ CallShape
  BY DEF Inv, Shape
<1>2. LateShape'
  BY <1>1, KnownStays DEF LateShape
<1>3. Command' /\ Admitted' /\ Asked'
  BY DEF Inv, Command, Admitted, Asked, SameLabel, Late
<1>4. DOMAIN hub.notes = 1 .. Len(hub.notes) /\ DOMAIN hub'.notes = 1 .. Len(hub.notes)
  BY <1>1 DEF HubShape, Grown, SameNotes
<1>5. UNCHANGED Pr
  BY DEF Pr
<1>6. \A p : NotesAt(p)' = NotesAt(p)
  BY <1>4 DEF NotesAt, Grown
<1>7. Noted'
  BY <1>4, <1>5, <1>6 DEF Inv, Noted, Grown, Late
<1>8. Claimed'
  BY <1>5, <1>6 DEF Inv, Claimed, Grown, Final, Blocked
<1>9. Ready'
  <2>1. Shown => Shown'
    BY <1>1, ShownStays DEF Shown
  <2>2. QED BY <2>1 DEF Inv, Ready, NoNewReady
<1>10. Placed'
  <2>1. Len(hub.prs) \in Nat /\ Len(hub'.prs) \in Nat
    BY <1>1 DEF HubShape, Grown
  <2>2. QED BY <1>5, <2>1 DEF Inv, Placed, Grown, Final
<1>11. QED BY <1>2, <1>3, <1>7, <1>8, <1>9, <1>10 DEF Inv, Shape, Grown, RecShape, CallShape, ClientShape,
              SentShape

LEMMA OwnerCommandsKeeps == Inv /\ OwnerCommands => Inv'
<1> SUFFICES ASSUME Inv, OwnerCommands PROVE Inv' OBVIOUS
<1>1. HubShape /\ LateShape
  BY DEF Inv, Shape
<1>2. /\ hub'.commands = hub.commands + 1 /\ hub'.label = hub.commands + 1
      /\ UNCHANGED <<hub.ref, hub.prs, hub.notes, hub.removals, hub.erased>>
      /\ hub' = [ref |-> hub'.ref, prs |-> hub'.prs, notes |-> hub'.notes, label |-> hub'.label,
                 commands |-> hub'.commands, removals |-> hub'.removals, erased |-> hub'.erased]
      /\ UNCHANGED <<origin, late, rec, jrn, call, client, sent>>
  BY <1>1 DEF HubShape, OwnerCommands, Elsewhere
<1>3. HubShape' /\ LateShape'
  BY <1>1, <1>2 DEF HubShape, LateShape, Known
<1>4. Command'
  <2>1. 1 .. hub.commands \subseteq 1 .. hub'.commands
    BY <1>1, <1>2 DEF HubShape
  <2>2. QED BY <1>2, <2>1 DEF Inv, Command, Late
<1>5. Admitted' /\ Asked' /\ Noted' /\ Placed'
  BY <1>2 DEF Inv, Admitted, Asked, Noted, Placed, Late, NotesAt, Pr, Final
<1>6. Claimed' /\ Ready'
  BY <1>2 DEF Inv, Claimed, Ready, Shown, NotesAt, Pr, Final, Blocked
<1>7. QED BY <1>2, <1>3, <1>4, <1>5, <1>6 DEF Inv, Shape, RecShape, CallShape, ClientShape, SentShape

LEMMA StrangerPushesKeeps == Inv /\ StrangerPushes => Inv'
<1> SUFFICES ASSUME Inv, StrangerPushes PROVE Inv' OBVIOUS
<1>1. PICK r \in Refs : hub' = [hub EXCEPT !.ref = r] /\ (hub.ref \in Landed => r \in Landed)
  <2>1. hub' = [hub EXCEPT !.ref = IF hub.ref = "previous" THEN "foreign" ELSE "beyond"]
    BY DEF StrangerPushes
  <2>2. QED BY <2>1 DEF Refs, Landed
<1>2. HubShape
  BY DEF Inv, Shape
<1>3. Grown /\ SameNotes /\ SameLabel /\ NoNewReady
  BY <1>1, <1>2, RefMoves
<1>4. QED BY <1>3, OthersKeep DEF StrangerPushes, Elsewhere

LEMMA OwnerChangesPullKeeps == Inv /\ OwnerChangesPull => Inv'
<1> SUFFICES ASSUME Inv, OwnerChangesPull PROVE Inv' OBVIOUS
<1>1. HubShape
  BY DEF Inv, Shape
<1>2. CASE \E n \in Open(hub) : hub' = [hub EXCEPT !.prs[n].draft = ~@, !.prs[n].by = "owner"]
  <2>1. PICK n \in Open(hub) : hub' = [hub EXCEPT !.prs[n].draft = ~@, !.prs[n].by = "owner"]
    BY <1>2
  <2> DEFINE p == [hub.prs[n] EXCEPT !.draft = ~@, !.by = "owner"]
  <2>2. n \in DOMAIN hub.prs /\ hub.prs[n] \in Pulls
    BY <1>1 DEF Open, HubShape
  <2>3. p \in Pulls /\ p.by = "owner"
    BY <2>2 DEF Pulls
  <2>4. hub' = [hub EXCEPT !.prs = [hub.prs EXCEPT ![n] = p]]
    BY <1>1, <2>1, <2>2 DEF HubShape
  <2> HIDE DEF p
  <2>5. hub' = [hub EXCEPT !.prs[n] = p]
    BY <2>4
  <2>6. QED BY <1>1, <2>2, <2>3, <2>5, PullEdit, OthersKeep DEF OwnerChangesPull, Elsewhere
<1>3. CASE \E n \in Open(hub) : hub' = [hub EXCEPT !.prs[n].open = FALSE]
  <2>1. PICK n \in Open(hub) : hub' = [hub EXCEPT !.prs[n].open = FALSE]
    BY <1>3
  <2>2. n \in DOMAIN hub.prs /\ hub.prs[n] \in Pulls
    BY <1>1 DEF Open, HubShape
  <2>3. LET p == [hub.prs[n] EXCEPT !.open = FALSE]
            s == [hub.prs EXCEPT ![n] = p]
        IN  /\ p \in Pulls /\ p.draft = hub.prs[n].draft /\ p.by = hub.prs[n].by
            /\ hub' = [hub EXCEPT !.prs = s]
            /\ s \in Seq(Pulls) /\ Len(s) = Len(hub.prs)
            /\ \A j \in 1 .. Len(hub.prs) : s[j] = IF j = n THEN p ELSE hub.prs[j]
    <3> DEFINE p == [hub.prs[n] EXCEPT !.open = FALSE]
    <3>1. p \in Pulls /\ p.draft = hub.prs[n].draft /\ p.by = hub.prs[n].by
      BY <2>2 DEF Pulls
    <3>2. hub' = [hub EXCEPT !.prs = [hub.prs EXCEPT ![n] = p]]
      BY <2>1
    <3> HIDE DEF p
    <3>3. LET s == [hub.prs EXCEPT ![n] = p]
          IN  s \in Seq(Pulls) /\ Len(s) = Len(hub.prs)
              /\ \A j \in 1 .. Len(hub.prs) : s[j] = IF j = n THEN p ELSE hub.prs[j]
      BY <1>1, <2>2, <3>1, ExceptSeq DEF HubShape
    <3>4. QED BY <3>1, <3>2, <3>3 DEF p
  <2>4. /\ UNCHANGED <<hub.ref, hub.notes, hub.label, hub.commands, hub.removals, hub.erased>>
        /\ hub' = [ref |-> hub'.ref, prs |-> hub'.prs, notes |-> hub'.notes, label |-> hub'.label,
                   commands |-> hub'.commands, removals |-> hub'.removals, erased |-> hub'.erased]
    BY <1>1, <2>1 DEF HubShape
  <2>5. /\ hub'.prs \in Seq(Pulls) /\ Len(hub'.prs) = Len(hub.prs)
        /\ \A j \in 1 .. Len(hub.prs) : hub'.prs[j].draft = hub.prs[j].draft /\ hub'.prs[j].by = hub.prs[j].by
    <3> DEFINE s == [hub.prs EXCEPT ![n] = [hub.prs[n] EXCEPT !.open = FALSE]]
    <3>1. hub' = [hub EXCEPT !.prs = s] => hub'.prs = s
      BY <1>1 DEF HubShape
    <3>2. QED BY <2>3, <3>1
  <2>6. SameNotes /\ SameLabel
    BY <2>4 DEF SameNotes, SameLabel
  <2>8. DOMAIN hub.prs = 1 .. Len(hub.prs) /\ DOMAIN hub'.prs = 1 .. Len(hub.prs) /\ Len(hub.prs) \in Nat
    BY <1>1, <2>5 DEF HubShape
  <2>9. HubShape'
    BY <1>1, <2>4, <2>5 DEF HubShape
  <2>10. NoNewReady
    BY <2>5, <2>8 DEF NoNewReady
  <2>11. Grown
    BY <1>1, <2>4, <2>5, <2>8, <2>9 DEF Grown, HubShape
  <2>7. QED BY <2>6, <2>10, <2>11, OthersKeep DEF OwnerChangesPull, Elsewhere
<1>4. CASE hub' = [hub EXCEPT !.prs = Append(@, NewPull(FALSE, FALSE))]
  <2>1. NewPull(FALSE, FALSE) \in Pulls /\ NewPull(FALSE, FALSE).by = "owner"
    BY DEF NewPull, Pulls
  <2>2. QED BY <1>1, <1>4, <2>1, PullAdded, OthersKeep DEF OwnerChangesPull, Elsewhere
<1>5. QED BY <1>2, <1>3, <1>4 DEF OwnerChangesPull

LEMMA LateArrivalKeeps == Inv /\ LateArrival => Inv'
<1> SUFFICES ASSUME Inv, LateArrival PROVE Inv' OBVIOUS
<1>1. HubShape /\ LateShape
  BY DEF Inv, Shape
<1>2. PICK e \in late : hub' = Apply(hub, e) /\ late' = late \ {e}
  BY DEF LateArrival
<1>3. UNCHANGED <<origin, rec, jrn, call, client, sent>> /\ UNCHANGED Pr
  BY DEF LateArrival, Elsewhere, Pr
<1>4. Known(e)
  BY <1>1 DEF LateShape
<1>5. /\ Grown
      /\ e.do # "note" => SameNotes
      /\ e.do # "unlabel" => SameLabel
      /\ (e.do = "draft" /\ ~e.draft) \/ NoNewReady
      /\ e.do = "note" => /\ Len(hub'.notes) = Len(hub.notes) + 1
                          /\ hub'.notes[Len(hub.notes) + 1].place = e.place
      /\ e.do = "unlabel" => \/ SameLabel
                             \/ /\ hub.label # 0 /\ hub'.removals = hub.removals + 1
                                /\ hub'.commands = hub.commands
                                /\ hub'.erased = hub.erased \cup {hub.label}
  BY <1>1, <1>2, <1>4, EffectIs
<1>6. LateShape'
  BY <1>1, <1>2, <1>5, KnownStays DEF LateShape
<1>7. Command'
  <2>1. CASE SameLabel
    BY <1>2, <1>3, <2>1 DEF Inv, Command, SameLabel, Late
  <2>2. CASE ~SameLabel
    <3>1. e.do = "unlabel" /\ hub.label # 0 /\ hub'.removals = hub.removals + 1 /\ hub'.commands = hub.commands
          /\ hub'.erased = hub.erased \cup {hub.label}
      BY <1>5, <2>2
    <3>2. hub.label \in 1 .. hub.commands /\ hub.commands \in Nat
      BY <1>1, <3>1 DEF HubShape
    <3>3. sent["unlabel"] = 1 /\ hub.removals = 0 /\ hub.erased = {} /\ rec.ready # "consumed"
      BY <3>1 DEF Inv, Command, Late
    <3>4. hub'.erased = {hub.label} /\ hub'.erased \subseteq 1 .. hub'.commands
          /\ hub'.removals = 1 /\ sent'["unlabel"] = 1 /\ rec'.ready = rec.ready
      BY <1>3, <3>1, <3>2, <3>3
    <3>5. ~Late("unlabel")'
      <4>1. \A f \in late : f.do = "unlabel" => f = e
        BY <1>1, <3>1 DEF LateShape, Known
      <4>2. QED BY <1>2, <4>1 DEF Late
    <3>6. rec.ready \notin {"none", "reserved"} /\ call.at # "consume" /\ call.at # "unlabel"
      BY <3>3 DEF Inv, Command
    <3>7. call.at = "verify" => rec.ready = "deleting"
      BY DEF Inv, Command
    <3>8. QED BY <1>3, <3>3, <3>4, <3>5, <3>6, <3>7 DEF Command
  <2>3. QED BY <2>1, <2>2
<1>8. Admitted' /\ Asked'
  BY <1>3 DEF Inv, Admitted, Asked
<1>9. Len(hub.notes) \in Nat /\ DOMAIN hub.notes = 1 .. Len(hub.notes) /\ DOMAIN hub'.notes = 1 .. Len(hub'.notes)
  BY <1>1, <1>5 DEF HubShape, Grown
<1>10. Noted'
  <2>1. CASE e.do # "note"
    <3>1. \A p : NotesAt(p)' = NotesAt(p)
      BY <1>5, <1>9, <2>1 DEF NotesAt, Grown, SameNotes
    <3>2. \A i, j \in DOMAIN hub'.notes : hub'.notes[i].place = hub'.notes[j].place => i = j
      <4>1. /\ \A i \in 1 .. Len(hub.notes) : hub'.notes[i].place = hub.notes[i].place
            /\ DOMAIN hub'.notes = DOMAIN hub.notes
        BY <1>5, <1>9, <2>1 DEF SameNotes, Grown
      <4>2. \A i, j \in DOMAIN hub.notes : hub.notes[i].place = hub.notes[j].place => i = j
        BY DEF Inv, Noted
      <4>3. QED BY <1>9, <4>1, <4>2
    <3>3. \A d \in late' : d \in late
      BY <1>2
    <3>4. \A d \in late' : d.do = "note" => rec.commentIntent # None
                             /\ rec.commentIntent.place = d.place /\ NotesAt(d.place)' = {}
      BY <3>1, <3>3 DEF Inv, Noted
    <3>5. \A d, f \in late' : d.do = "note" /\ f.do = "note" => d = f
      BY <3>3 DEF Inv, Noted
    <3>6. call.at = "post" => /\ rec.commentIntent # None /\ rec.commentIntent.place = Pr
                              /\ NotesAt(Pr)' = {} /\ ~Late("note")'
      <4>1. NotesAt(Pr)' = NotesAt(Pr)
        BY <1>3, <1>5, <1>9, <2>1 DEF NotesAt, Grown, SameNotes
      <4>2. Late("note")' => Late("note")
        BY <3>3 DEF Late
      <4>3. QED BY <4>1, <4>2 DEF Inv, Noted
    <3>7. QED BY <1>3, <3>2, <3>4, <3>5, <3>6, <3>1 DEF Noted
  <2>2. CASE e.do = "note"
    <3>1. ~Late("note")' /\ NotesAt(e.place) = {} /\ call.at # "post"
      BY <1>2, <2>2 DEF Inv, Noted, Late
    <3>2. \A i, j \in DOMAIN hub'.notes : hub'.notes[i].place = hub'.notes[j].place => i = j
      <4>1. \A i \in DOMAIN hub.notes : hub.notes[i].place # e.place
        BY <3>1 DEF NotesAt
      <4>2. \A i, j \in DOMAIN hub.notes : hub.notes[i].place = hub.notes[j].place => i = j
        BY DEF Inv, Noted
      <4>3. \A i \in 1 .. Len(hub.notes) : hub'.notes[i].place = hub.notes[i].place
        BY <1>5 DEF Grown
      <4>4. \A i \in DOMAIN hub'.notes : i \in 1 .. Len(hub.notes) \/ i = Len(hub.notes) + 1
        BY <1>5, <1>9, <2>2
      <4>5. QED BY <1>5, <1>9, <2>2, <4>1, <4>2, <4>3, <4>4
    <3>3. QED BY <1>3, <3>1, <3>2 DEF Noted, Late
  <2>3. QED BY <2>1, <2>2
<1>11. Claimed'
  <2>1. \A p : NotesAt(p) # {} => {k \in DOMAIN hub'.notes : hub'.notes[k].place = p} # {}
    BY <1>1, <1>5, NotesStay DEF NotesAt
  <2>2. /\ rec.outcome # None => NotesAt(rec.outcome.place) # {}
        /\ call.at = "save" /\ call.op # "handoff" => NotesAt(Pr) # {} \/ (call.op = "finish" /\ Blocked)
        /\ rec.publishedHead => hub.ref \in Landed
    BY DEF Inv, Claimed
  <2>3. /\ rec'.outcome # None => NotesAt(rec.outcome.place)' # {}
        /\ call'.at = "save" /\ call'.op # "handoff" => NotesAt(Pr)' # {} \/ (call'.op = "finish" /\ Blocked')
        /\ rec'.publishedHead => hub'.ref \in Landed
    BY <1>3, <1>5, <2>1, <2>2 DEF Grown, NotesAt, Blocked
  <2>4. QED BY <1>3, <2>3 DEF Inv, Claimed, Final, Blocked
<1>12. Ready'
  <2>1. Shown => Shown'
    BY <1>1, <1>3, <1>5, ShownStays DEF Shown
  <2>2. e.do = "draft" /\ ~e.draft => Shown
    BY DEF Inv, Ready
  <2>3. rec.handoffComplete \/ (call.op = "handoff" /\ call.at \in Working) => Shown
    BY DEF Inv, Ready
  <2>4. \A d \in late' : d.do = "draft" /\ ~d.draft => Shown
    BY <1>2 DEF Inv, Ready
  <2>5. \A n \in DOMAIN hub'.prs : ~hub'.prs[n].draft /\ hub'.prs[n].by = "writer" => Shown
    BY <1>5, <2>2 DEF Inv, Ready, NoNewReady
  <2>6. QED BY <1>3, <2>1, <2>3, <2>4, <2>5 DEF Ready
<1>13. Placed'
  <2>1. Len(hub.prs) \in Nat /\ Len(hub'.prs) \in Nat
    BY <1>1, <1>5 DEF HubShape, Grown
  <2>2. QED BY <1>3, <1>5, <2>1 DEF Inv, Placed, Grown, Final
<1>14. QED BY <1>3, <1>5, <1>6, <1>7, <1>8, <1>10, <1>11, <1>12, <1>13
           DEF Inv, Shape, Grown, RecShape, CallShape, ClientShape, SentShape


-----------------------------------------------------------------------------
(* The theorems                                                            *)

LEMMA InitEstablishes == Init => Inv
<1> SUFFICES ASSUME Init PROVE Inv OBVIOUS
<1>1. PICK p \in Pulls : p.by = "owner" /\ hub.prs = IF origin = "issue" THEN << >> ELSE <<p>>
  <2>1. NewPull(FALSE, FALSE) \in Pulls /\ NewPull(FALSE, FALSE).by = "owner"
    BY DEF NewPull, Pulls
  <2>2. QED BY <2>1 DEF Init
<1>2. HubShape
  <2>1. hub.prs \in Seq(Pulls)
    BY <1>1
  <2>2. /\ hub = [ref |-> hub.ref, prs |-> hub.prs, notes |-> hub.notes, label |-> hub.label,
                  commands |-> hub.commands, removals |-> hub.removals, erased |-> hub.erased]
        /\ hub.ref = "previous" /\ hub.notes = << >> /\ hub.label = 1 /\ hub.commands = 1 /\ hub.removals = 0
    BY DEF Init
  <2>3. << >> \in Seq(Notes)
    OBVIOUS
  <2>4. QED BY <2>1, <2>2, <2>3 DEF HubShape, Refs
<1>3. RecShape
  BY DEF Init, RecShape
<1>4. CallShape /\ ClientShape /\ SentShape /\ LateShape
  BY DEF Init, CallShape, ClientShape, SentShape, LateShape, Idle, Off, Asks
<1>5. Command /\ Admitted /\ Asked /\ Noted
  BY DEF Init, Idle, Off, Command, Admitted, Asked, Noted, Late
<1>6. Placed
  <2>1. origin = "pull_request" => Len(hub.prs) = 1
    BY OriginsAssumption DEF Init
  <2>2. Len(hub.prs) \in Nat /\ Pr \in {0, 1} /\ (Pr = 1 => origin = "pull_request") /\ ~Final
    BY <1>1 DEF Init, Pr, Final
  <2>3. QED BY <2>1, <2>2, OriginsAssumption DEF Init, Idle, Placed, Working
<1>7. Claimed
  BY DEF Init, Idle, Claimed, Final, Blocked, Working
<1>8. Ready
  <2>1. \A n \in DOMAIN hub.prs : hub.prs[n].by = "owner"
    BY <1>1
  <2>2. QED BY <2>1 DEF Init, Idle, Ready
<1>9. QED BY <1>2, <1>3, <1>4, <1>5, <1>6, <1>7, <1>8 DEF Inv, Shape

LEMMA StepKeeps == Inv /\ [Next]_vars => Inv'
<1> SUFFICES ASSUME Inv, [Next]_vars PROVE Inv' OBVIOUS
<1>1. CASE CallStep
  BY <1>1, ReserveKeeps, AdmitKnownKeeps, ReserveDeleteKeeps, DeleteReadyKeeps, VerifyDeleteKeeps,
     PreflightKeeps, PublishStartKeeps, RecoverStartKeeps, PushKeeps, ObserveKeeps, RecoverObserveKeeps,
     FinishStartKeeps, TerminalStartKeeps, FindPullKeeps, CreatePullKeeps, ReserveTransitionKeeps,
     TransitionAlreadyKeeps, TransitionKeeps, ReadBackKeeps, FinishIntentKeeps, AdoptNoteKeeps,
     ReserveNoteKeeps, PostNoteKeeps, PatchNoteKeeps, HandoffStartKeeps, SaveKeeps DEF CallStep
<1>2. CASE CallStops \/ Unobserved
  BY <1>2, CallStopsKeeps, UnobservedKeeps
<1>3. CASE ClientStep \/ ControllerStarts \/ OwnerRecovers \/ ClientDies
  BY <1>3, InvokeKeeps, AnswerKeeps, StartKeeps, LeaveKeeps DEF ClientStep, AnswerStep
<1>4. CASE Environment
  BY <1>4, OwnerCommandsKeeps, StrangerPushesKeeps, OwnerChangesPullKeeps, LateArrivalKeeps DEF Environment
<1>5. CASE UNCHANGED vars
  <2>1. UNCHANGED <<origin, hub, late, rec, jrn, call, client, sent>>
    BY <1>5 DEF vars
  <2>2. CallShape' /\ ClientShape' /\ Admitted'
    BY <2>1 DEF Inv, Shape, CallShape, ClientShape, Admitted
  <2>3. QED BY <2>1, <2>2, BesideTheWriter
<1>6. QED BY <1>1, <1>2, <1>3, <1>4, <1>5 DEF Next

(* Record, GitHub and the requests still under way fit together, however
   calls stop and whoever moves beside them (publication-broker.mjs). *)
THEOREM PublicationInvariance == Spec => []Inv
<1>1. QED BY InitEstablishes, StepKeeps, PTL DEF Spec

(* The label is deleted and the pull request asked for at most once, pushes
   are authorised one by one, and no place carries two Outcomes
   (publication-broker.mjs, publication-recovery.mjs). *)
THEOREM PublishedAtMostOnce == Spec => []PublishedOnce
<1>1. Inv => PublishedOnce
  <2> SUFFICES ASSUME Inv PROVE PublishedOnce OBVIOUS
  <2>1. \A place : Cardinality(NotesAt(place)) <= 1
    <3> SUFFICES ASSUME NEW place PROVE Cardinality(NotesAt(place)) <= 1 OBVIOUS
    <3>1. CASE NotesAt(place) = {}
      BY <3>1, FS_EmptySet
    <3>2. CASE NotesAt(place) # {}
      <4>1. PICK i \in NotesAt(place) : TRUE
        BY <3>2
      <4>2. NotesAt(place) = {i}
        BY <4>1 DEF Inv, Noted, NotesAt
      <4>3. QED BY <4>2, FS_Singleton
    <3>3. QED BY <3>1, <3>2
  <2>2. sent["unlabel"] <= 1 /\ sent["pull"] <= 1 /\ sent["push"] <= 1 + Len(rec.recoveries)
    BY DEF Inv, Command, Asked
  <2>3. QED BY <2>1, <2>2 DEF PublishedOnce
<1>2. QED BY <1>1, PublicationInvariance, PTL

(* What the record claims can be read on GitHub, and a pull request is Ready
   only over all of it (publication-broker.mjs, transitionPr, complete-handoff). *)
THEOREM ClaimsArePublicAlways == Spec => []ClaimsArePublic
<1>1. Inv => ClaimsArePublic
  BY DEF Inv, Claimed, Ready, Shown, Landed, ClaimsArePublic
<1>2. QED BY <1>1, PublicationInvariance, PTL

(* Nothing starts unless the one deletion took the label of the attempt's own
   command (publication-broker.mjs, consumeReadyCommand). *)
THEOREM OwnCommandOnly == Spec => []CommandIsItsOwn
<1>1. Inv => CommandIsItsOwn
  BY DEF Inv, Command, Admitted, CommandIsItsOwn
<1>2. QED BY <1>1, PublicationInvariance, PTL
=============================================================================
