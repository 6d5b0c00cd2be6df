---------------------------- MODULE FreshInstall ----------------------------
(***************************************************************************)
(* The first installation by the ordinary command (intent_install.py).     *)
(* The schedule of its expert phases is composed once, from what the       *)
(* inventory found when the command began: an inactive bootstrap, the      *)
(* credentials, an apply, TLS, ingress, the activation, the runners.  The  *)
(* manifest is marked `fresh-incomplete' for one Git pair until the last   *)
(* phase passed; a command that ends before is continued by the same       *)
(* command for the same pair.                                              *)
(*                                                                         *)
(* The phases that change the installation leave a record                  *)
(* (production-operation-state-begin.yml) when they do not end, and every  *)
(* recovery record stops the ordinary command: the owner runs the recorded *)
(* phase again by hand, which writes a manifest without the mark.          *)
(***************************************************************************)
EXTENDS TlsBootstrap, RunnerRegistration, SequencesExt

CONSTANTS Pairs,         \* product and configuration commits
          Publishing,    \* pairs that publish: the Writer's key is required
          Automatic,     \* pairs with automatic work: the Codex token and the runners
          Ordered,       \* pairs whose certificate is ordered; the owner provides the others
          Gateway,       \* pairs served by the shared ingress
          RunnerOrder,   \* the runners, as they are registered
          MaxFaults      \* bound on deaths, failures and changes of the surroundings

ASSUME PairsAssumption == /\ Publishing \subseteq Automatic
                          /\ Automatic \cup Ordered \cup Gateway \subseteq Pairs
                          /\ RunnerOrder \in Seq(Runners) /\ ToSet(RunnerOrder) = Runners

\* The stages of a manifest, and the phases that leave a record.
Stages   == {"fresh-incomplete", "ready", "unmarked"}
Recorded == {"bootstrap", "apply", "activate", "runner-enable"}
ASSUME NoneAssumption == None \notin Stages \cup Recorded

VARIABLES host,     \* record, gate, credentials, manifest, services
          s,        \* the command that holds the deployment lock
          sources,  \* what the owner has provided: credential files, a TLS pair
          faults

vars == <<bootstrap, registration, host, s, sources, faults>>

Roles  == {"reviewer", "writer", "codex"}
Idle   == [at |-> "idle", todo |-> <<>>, pair |-> None, token |-> FALSE, ordinary |-> FALSE]
NoManifest == [pair |-> None, stage |-> None]

\* The shape of the protected state and of the running command.
TypeOK ==
  /\ TlsTypeOK /\ RunnerTypeOK /\ sources \subseteq Roles \cup {"tls"} /\ faults \in 0..MaxFaults
  /\ host \in [record : Recorded \cup {None}, gate : {"none", "open", "held"}, begun : BOOLEAN,
               keys : SUBSET Roles, ingress : BOOLEAN, active : BOOLEAN,
               manifest : [pair : Pairs, stage : Stages] \cup {NoManifest}]
  /\ s.pair \in Pairs \cup {None} /\ s.token \in BOOLEAN /\ s.ordinary \in BOOLEAN
  /\ s.at \in {"idle", "next", "begin", "start", "effect", "clear", "resume", "tls", "register", "readback"}

Init == /\ TlsInit /\ RunnerInit /\ s = Idle /\ faults = 0 /\ sources = {}
        /\ host = [record |-> None, gate |-> "none", begun |-> FALSE, keys |-> {}, ingress |-> FALSE,
                   active |-> FALSE, manifest |-> NoManifest]

----------------------------------------------------------------------------
(* What the inventory finds, and the schedule composed from it *)

Present    == host.manifest.stage # None
Incomplete == host.manifest.stage = "fresh-incomplete"
Blocked    == host.record # None \/ \E r \in Runners : Ambiguous(r)

Required(p)  == {"reviewer"} \cup (IF p \in Publishing THEN {"writer"} ELSE {})
                             \cup (IF p \in Automatic THEN {"codex"} ELSE {})
TlsReady(p)  == IF p \in Ordered THEN tls.cert # 0 /\ tls.key # 0 ELSE "tls" \in sources
RunnersOf(p) == IF p \in Automatic THEN RunnerOrder ELSE <<>>

Primary(names) == [i \in DOMAIN names |-> <<names[i], "primary">>]
If(c, names)   == IF c THEN Primary(names) ELSE <<>>
Credential(p, r) == IF r \in Required(p) \ host.keys THEN <<<<"credentials", r>>>> ELSE <<>>
Enabling(r)    == <<<<"runner-register", r>>, <<"runner-enable", r>>>>
\* Mutant: a runner that is registered already is skipped.
RunnerPhasesSkipping(p) ==
  FlattenSeq([i \in DOMAIN RunnersOf(p) |->
                IF Registered(RunnersOf(p)[i]) THEN <<>> ELSE Enabling(RunnersOf(p)[i])])
RunnerPhases(p) == [i \in 1..2 * Len(RunnersOf(p)) |->
                      <<IF i % 2 = 1 THEN "runner-register" ELSE "runner-enable", RunnersOf(p)[(i + 1) \div 2]>>]

\* fresh_completion, and what must be there before the first mutation.
Completion(p) ==
  If(tls.ca = "none", <<"tls-prepare">>) \o If(~TlsReady(p), <<"tls-dry-run", "tls-issue">>)
  \o Primary(<<"tls-check">>) \o If(p \in Gateway, <<"ingress">>) \o Primary(<<"activate">>) \o RunnerPhases(p)
Schedule(p) == If(~Present, <<"bootstrap">>)
               \o Credential(p, "reviewer") \o Credential(p, "writer") \o Credential(p, "codex")
               \o Primary(<<"apply">>) \o Completion(p) \o Primary(<<"post-check">>)
Prerequisites(p, token) ==
  /\ Required(p) \subseteq host.keys \cup sources
  /\ p \in Ordered \/ TlsReady(p)
  /\ \A r \in ToSet(RunnersOf(p)) : Registered(r) \/ token

----------------------------------------------------------------------------
(* Commands *)

At(at)   == s.at = at
Goto(at) == s' = [s EXCEPT !.at = at]
Phase    == Head(s.todo)[1]
Slot     == Head(s.todo)[2]
Doing(names) == At("next") /\ s.todo # <<>> /\ Phase \in names
Host(h)   == host' = h
Others    == UNCHANGED <<bootstrap, registration, sources, faults>>

Command(todo, p, token, ordinary) ==
  /\ At("idle")
  /\ s' = [at |-> "next", todo |-> todo, pair |-> p, token |-> token, ordinary |-> ordinary]
  /\ UNCHANGED host /\ Others

Install(p, token) ==
  /\ ~Blocked
  /\ Present => (Incomplete /\ host.manifest.pair = p)
  /\ Prerequisites(p, token) /\ Command(Schedule(p), p, token, TRUE)

\* The owner's expert phases: TLS at will, a registration to be reconciled or tried, and the
\* phase that left its record.
Expert(phase, p, token) == Command(<<phase>>, p, token, FALSE)
ExpertTls(ph)      == Present /\ Expert(<<ph, "primary">>, host.manifest.pair, FALSE)
ExpertRegister(r)  == Present /\ \E token \in BOOLEAN : Expert(<<"runner-register", r>>, host.manifest.pair, token)
ExpertRecorded     == \E p \in Pairs :
  /\ host.record # None
  /\ Present => p = host.manifest.pair
  /\ IF host.record = "bootstrap" THEN Expert(<<"apply", "primary">>, p, FALSE)
     ELSE Expert(<<host.record, IF host.record = "runner-enable" THEN Head(RunnerOrder) ELSE "primary">>, p, FALSE)

----------------------------------------------------------------------------
(* The phases.  The ones with a record: apply runs under the lifecycle.     *)

Begins == Doing({"bootstrap", "apply", "activate"}) \/ (Doing({"runner-enable"}) /\ Slot = Head(RunnerOrder))
Enableable(r) == Registered(r) /\ host.active /\ "codex" \in host.keys
Serveable == "reviewer" \in host.keys /\ tls.ca = "ready" /\ TlsReady(s.pair)
\* The inactive bootstrap needs no credential; the apply of the schedule does.
Quiesce == /\ Begins /\ Phase = "apply" /\ s.ordinary /\ Required(s.pair) \subseteq host.keys
           /\ host.gate = "open" /\ Host([host EXCEPT !.gate = "held"]) /\ Goto("begin")
Direct  == /\ Begins /\ ~(Phase = "apply" /\ s.ordinary)
           /\ (Phase = "activate" => Serveable) /\ (Phase = "runner-enable" => Enableable(Slot))
           /\ Goto("begin") /\ UNCHANGED host

Resumes == host.record = Phase \/ (host.record = "bootstrap" /\ Phase = "apply")
Begin == /\ At("begin") /\ (host.record = None \/ (Resumes /\ ~s.ordinary))
         /\ Host([host EXCEPT !.record = Phase])
         /\ Goto(IF Phase \in {"bootstrap", "apply"} THEN "start" ELSE "effect")
\* Accounts and directories, before the release and its manifest.
Start == At("start") /\ Host([host EXCEPT !.begun = TRUE]) /\ Goto("effect")

\* It also gives the bundle of client CAs its group.
Publish == /\ At("effect") /\ Phase \in {"bootstrap", "apply"}
           /\ Host([host EXCEPT !.gate = IF @ = "none" THEN "open" ELSE @,
                                !.manifest = [pair |-> s.pair,
                                              stage |-> IF s.ordinary THEN "fresh-incomplete" ELSE "unmarked"]])
           /\ tls' = [tls EXCEPT !.ca = IF @ = "unowned" THEN "ready" ELSE @]
           /\ Goto("clear") /\ UNCHANGED <<env, rehearsed, work, registration>>
Activate  == /\ At("effect") /\ Phase = "activate"
             /\ Host([host EXCEPT !.active = TRUE]) /\ Goto("clear") /\ UNCHANGED <<bootstrap, registration>>
Enable(r) == Enableable(r) /\ runner' = [runner EXCEPT ![r].enabled = TRUE] /\ UNCHANGED <<bootstrap, helper>>
EnableProduction == /\ At("effect") /\ Phase = "runner-enable" /\ Enable(Slot)
                    /\ Goto("clear") /\ UNCHANGED host
Clear  == /\ At("clear") /\ Host([host EXCEPT !.record = None])
          /\ Goto(IF Phase = "apply" THEN "resume" ELSE "readback")
Resume == At("resume") /\ Host([host EXCEPT !.gate = "open"]) /\ Goto("readback")

\* The ones under the bootstrap guard, and the checks.
Guarded == host.record = None /\ Present
Staged(roles) == /\ Doing({"credentials"}) /\ Guarded /\ Slot \in roles \cap sources
                 /\ Host([host EXCEPT !.keys = @ \cup {Slot}]) /\ Goto("readback")
StageKey   == Staged({"reviewer", "writer"})
StageToken == Staged({"codex"})
Serve == /\ Doing({"ingress"}) /\ Guarded /\ Serveable
         /\ Host([host EXCEPT !.ingress = TRUE]) /\ Goto("readback")
EnableGeneral == /\ Doing({"runner-enable"}) /\ ~Begins /\ Guarded /\ Enable(Slot) /\ Goto("readback") /\ UNCHANGED host
Checked == IF Phase = "tls-check" THEN TlsReady(s.pair) /\ tls.key = tls.cert ELSE host.active
Check  == Doing({"tls-check", "post-check"}) /\ Checked /\ Goto("readback") /\ UNCHANGED host

RunTls      == Doing(TlsPhases) /\ Guarded /\ StartTls(Phase) /\ Goto("tls") /\ UNCHANGED <<registration, host>>
TlsPassed   == At("tls") /\ Working("done") /\ work' = NoWork /\ Goto("readback")
               /\ UNCHANGED <<tls, env, rehearsed, registration, host>>
RunRegister == /\ Doing({"runner-register"}) /\ Guarded
               /\ StartHelper(Slot, s.token) /\ Goto("register") /\ UNCHANGED <<bootstrap, host>>
Registers   == At("register") /\ Helping("done") /\ helper' = NoHelper /\ Goto("readback")
               /\ UNCHANGED <<bootstrap, runner, host>>

\* The installation is read back after every phase of the schedule.
ReadBack == /\ At("readback") /\ s.ordinary /\ ~Blocked
            /\ host.manifest = [pair |-> s.pair, stage |-> "fresh-incomplete"]
            /\ s' = [s EXCEPT !.todo = Tail(@), !.at = "next"] /\ UNCHANGED host
Return   == At("readback") /\ ~s.ordinary /\ s' = Idle /\ UNCHANGED host
\* finalize_fresh_manifest
Complete == /\ At("next") /\ s.todo = <<>> /\ Incomplete /\ host.manifest.pair = s.pair
            /\ Host([host EXCEPT !.manifest.stage = "ready"]) /\ s' = Idle

Alone == Quiesce \/ Direct \/ Begin \/ Start \/ Clear \/ Resume \/ StageKey \/ StageToken \/ Serve \/ Check \/ ReadBack \/ Return \/ Complete
Joint == Publish \/ Activate \/ EnableProduction \/ EnableGeneral \/ RunTls \/ TlsPassed \/ RunRegister \/ Registers
PhaseStep == /\ (Alone /\ UNCHANGED <<bootstrap, registration>>) \/ Joint
             /\ UNCHANGED <<sources, faults>>
ToolStep == /\ \/ TlsStep /\ UNCHANGED registration
               \/ RunnerStep /\ UNCHANGED bootstrap
            /\ UNCHANGED <<host, s, sources, faults>>

----------------------------------------------------------------------------
(* The end of a command, failures, and the owner *)

\* A phase refuses: the command ends, with what it leaves behind.
Ends == s' = Idle /\ work' = NoWork /\ helper' = NoHelper /\ UNCHANGED <<tls, env, rehearsed, runner, host, sources>>
Stops == ~At("idle") /\ ~ENABLED PhaseStep /\ ~ENABLED ToolStep /\ Ends /\ UNCHANGED faults

Fault == faults < MaxFaults /\ faults' = faults + 1
Dies  == ~At("idle") /\ Fault /\ Ends
\* The helper is killed while config.sh talks to GitHub.
DiesUnknown == /\ Helping("configure") /\ Fault /\ Unknown(TRUE) /\ helper' = NoHelper /\ s' = Idle
               /\ UNCHANGED <<bootstrap, host, sources>>
Fails == /\ Fault /\ \/ (LookFails \/ OrderFails \/ Drift \/ Renew) /\ UNCHANGED registration
                     \/ (Fail \/ Reject) /\ UNCHANGED bootstrap
         /\ UNCHANGED <<host, s, sources>>

\* What a pair asks the owner for.
Asked(p)   == Required(p) \cup (IF p \in Ordered THEN {} ELSE {"tls"})
Provide(p) == /\ At("idle") /\ ~(Asked(p) \subseteq sources) /\ sources' = sources \cup Asked(p)
              /\ UNCHANGED <<bootstrap, registration, host, s, faults>>

\* What the owner does about what stopped the command.
Clean      == CleanTls /\ UNCHANGED <<registration, host>>
Unregister == (\E r \in Runners : Diagnose(r)) /\ UNCHANGED <<bootstrap, host>>
OpenGate   == /\ host.gate = "held" /\ host.record = None /\ Host([host EXCEPT !.gate = "open"])
              /\ UNCHANGED <<bootstrap, registration>>
\* The record of a bootstrap that installed nothing is archived.
Dispose    == /\ host.record = "bootstrap" /\ ~host.begun /\ Host([host EXCEPT !.record = None])
              /\ UNCHANGED <<bootstrap, registration>>
Repair     == At("idle") /\ (Clean \/ Unregister \/ OpenGate \/ Dispose) /\ UNCHANGED <<s, sources, faults>>
Unissued   == tls.cert = 0 /\ (tls.key # 0 \/ tls.lineage # 0) /\ ~Orphaned /\ tls.ca = "ready"
Redo == \/ ExpertRecorded
        \/ host.record = None /\ Unissued /\ ExpertTls("tls-issue")
        \/ \E r \in Runners : runner[r].pending /\ runner[r].local = "full" /\ ExpertRegister(r)

Owner == \/ \E p \in Pairs, token \in BOOLEAN : Install(p, token)
         \/ \E ph \in TlsPhases : ExpertTls(ph)
         \/ \E r \in Runners : ExpertRegister(r)
         \/ \E p \in Pairs : Provide(p)
         \/ ExpertRecorded \/ Repair
Next == Owner \/ PhaseStep \/ ToolStep \/ Stops \/ Dies \/ DiesUnknown \/ Fails

\* A command goes on until it ends; the owner provides what is asked for, tries again, and does
\* something about what stopped the command.
Fairness == /\ WF_vars(PhaseStep) /\ WF_vars(ToolStep) /\ WF_vars(Stops)
            /\ \A p \in Pairs : WF_vars(Provide(p)) /\ SF_vars(Install(p, TRUE))
            /\ SF_vars(Repair \/ Redo)
Spec == Init /\ [][Next]_vars
FairSpec == Spec /\ Fairness

----------------------------------------------------------------------------
(* Properties *)

\* An installation is called ready only when nothing of what its pair asks for is missing, whatever
\* was done by which of the commands that took part in it.
Whole(p) ==
  /\ Required(p) \subseteq host.keys /\ tls.ca = "ready" /\ TlsReady(p) /\ host.active
  /\ p \in Gateway => host.ingress
  /\ \A r \in ToSet(RunnersOf(p)) : Registered(r) /\ runner[r].enabled
ReadyIsWhole == host.manifest.stage = "ready" => Whole(host.manifest.pair)

\* The first installation ends: ready, or handed to the expert phases by the recovery of a
\* recorded bootstrap or apply.
FreshEnds == <>(host.manifest.stage \in {"ready", "unmarked"})
=============================================================================
