----------------------------- MODULE IntentStage -----------------------------
(***************************************************************************)
(* The private stage of an installation: source, Reviewer, toolchain and   *)
(* packages are prepared and sealed while the installed host goes on, and  *)
(* copied to their live places in the cutover (relay-intent-stage.py,      *)
(* relay-intent-package.py, the stage actions of install_preflight.py and  *)
(* the intent-*.yml tasks).                                                *)
(*                                                                         *)
(* A stage belongs to an operation; a repeated one is renamed away and     *)
(* made anew.  The source of a revision has the same bytes each time, a    *)
(* Reviewer that is built may not: its bytes are the build that made it.   *)
(***************************************************************************)
EXTENDS ConsumerDrift

CONSTANTS Builds,       \* bound: Reviewer executables that builds can make
          FirstBuild,   \* the one installed at first
          FirstTarget,  \* the installed revision
          Contract,     \* build contract of each revision: equal ones may reuse
          FirstRust     \* tools in the live Rust prefix at first

NoBuild == 0
Torn    == "torn"
Tools   == {"compiler", "rest"}
ASSUME StageAssumption == /\ Torn \notin Targets
                          /\ Builds \subseteq Nat \ {0} /\ FirstBuild \in Builds
                          /\ FirstTarget \in Targets /\ DOMAIN Contract = Targets
                          /\ FirstRust \subseteq Tools

VARIABLES stage,     \* .stage-<operation>
          release,   \* releases/<revision>: source there, Reviewer bytes
          manifest,  \* Reviewer bytes in the manifest of each release
          current,   \* the release the link `current' names
          rust,      \* what is in the live Rust prefix
          codex,     \* the live Codex package and the link to its command
          runner     \* whether the registered runner's software is usable

live   == <<release, manifest, current, rust, codex, runner>>
staged == <<stage, live>>

NoStage == [made |-> FALSE, source |-> FALSE, rust |-> None, reviewer |-> NoBuild,
            packages |-> {}, sealed |-> FALSE, lease |-> None]
Fresh   == [NoStage EXCEPT !.made = TRUE]
Whole   == [bytes |-> "whole", linked |-> TRUE]

StageTypeOK ==
  /\ stage \in [Ops -> [made : BOOLEAN, source : BOOLEAN, rust : {None, "live", "staged"},
       reviewer : Builds \cup {NoBuild}, packages : SUBSET {"runner", "codex"},
       sealed : BOOLEAN, lease : Targets \cup {None, Torn}]]
  /\ release \in [Targets -> [source : BOOLEAN, reviewer : Builds \cup {NoBuild}]]
  /\ manifest \in [Targets -> Builds \cup {NoBuild}] /\ current \in Targets
  /\ rust \subseteq Tools /\ runner \in BOOLEAN
  /\ codex \in [bytes : {"whole", "torn"}, linked : BOOLEAN]

StageInit ==
  /\ stage = [o \in Ops |-> NoStage] /\ current = FirstTarget /\ rust = FirstRust /\ codex = Whole /\ runner = TRUE
  /\ release = [t \in Targets |-> [source |-> t = current, reviewer |-> IF t = current THEN FirstBuild ELSE NoBuild]]
  /\ manifest = [t \in Targets |-> release[t].reviewer]

----------------------------------------------------------------------------
(* Preparation.  No step touches anything live.                             *)

Put(o, value) == stage' = [stage EXCEPT ![o] = value] /\ UNCHANGED live
Part(o) == stage[o].made /\ ~stage[o].sealed

\* A previous stage of the operation is renamed away unless the holder its
\* lease names lives, or anything still holds that lock; a lease of another
\* target, or an empty one, is refused.
\* Mutant: the lease in the previous stage is not looked at.
CreatableAnyway(o, t) == o \in Ops
Creatable(o, t) == stage[o].lease # None => stage[o].lease = t /\ WriterFree
Create(o, t)    == Creatable(o, t) /\ Put(o, Fresh)

\* The whole tree again: missing, or present with exactly the archive's bytes.
Extract(o) == Part(o) /\ Put(o, [stage[o] EXCEPT !.source = TRUE])

\* An existing prefix is used when the tools answer with their version.
StageRust(o) ==
  /\ Part(o) /\ stage[o].source /\ (rust # {} => "compiler" \in rust)
  /\ Put(o, [stage[o] EXCEPT !.rust = IF rust = {} THEN "staged" ELSE "live"])

\* The executable of the current release, as its own manifest records it.
Reusable(t) == /\ release[current].reviewer # NoBuild /\ Contract[t] = Contract[current]
               /\ release[current].reviewer = manifest[current]
Used == {stage[o].reviewer : o \in Ops} \cup {release[t].reviewer : t \in Targets}
        \cup {manifest[t] : t \in Targets}
StageReviewer(o, t) ==
  /\ Part(o) /\ stage[o].rust # None
  /\ \/ Reusable(t) /\ Put(o, [stage[o] EXCEPT !.reviewer = release[current].reviewer])
     \/ /\ ~Reusable(t) /\ (stage[o].rust = "staged" \/ rust = Tools) /\ ~(Builds \subseteq Used)
        /\ LET build == CHOOSE n \in Builds : n \notin Used IN Put(o, [stage[o] EXCEPT !.reviewer = build])

\* runner_transition: a registered runner must be complete as it stands and
\* answer with its version; it updates itself.
Usable == runner
StagePackage(o, kind) ==
  /\ Part(o) /\ stage[o].reviewer # NoBuild /\ (kind = "runner" => Usable)
  /\ Put(o, [stage[o] EXCEPT !.packages = @ \cup {kind}])
Seal(o) == /\ Part(o) /\ stage[o].packages = {"runner", "codex"}
           /\ Put(o, [stage[o] EXCEPT !.sealed = TRUE])

\* verify_stage: the receipts, the packages, the destination.
Proven(o) == stage[o].sealed /\ Usable

----------------------------------------------------------------------------
(* The Writer lease in the stage *)

TakeLease(o, t) == /\ WriterFree /\ stage[o].made /\ stage[o].lease = None
                   /\ holder' = o /\ stage' = [stage EXCEPT ![o].lease = t] /\ UNCHANGED live
DropLease    == /\ holder # 0 /\ holder' = 0 /\ stage' = [stage EXCEPT ![holder].lease = None]
                /\ UNCHANGED live
\* A holder that ends before its bytes are written leaves an empty file.
TearLease(o) == /\ WriterFree /\ stage[o].made /\ stage[o].lease = None
                /\ stage' = [stage EXCEPT ![o].lease = Torn] /\ UNCHANGED <<live, holder>>
\* A killed holder leaves its file.
LoseLease    == holder # 0 /\ holder' = 0 /\ UNCHANGED staged

----------------------------------------------------------------------------
(* Consumption, part by part and file by file *)

\* Mutant: a release directory that is already there is refused.
DestinationNew(o, t) == /\ stage[o].sealed /\ (stage[o].rust = "staged" => rust = {})
                        /\ release[t] = [source |-> FALSE, reviewer |-> NoBuild]
Destination(o, t) == stage[o].sealed /\ (stage[o].rust = "staged" => rust = {})

\* Mutant: a file that is already there is kept.
CopiedMissing(o, t, part) ==
  IF part = "source" \/ release[t].reviewer # NoBuild
  THEN [release[t] EXCEPT !.source = part = "source" \/ @]
  ELSE [release[t] EXCEPT !.reviewer = stage[o].reviewer]
Copied(o, t, part) ==
  IF part = "source" THEN [release[t] EXCEPT !.source = TRUE]
                     ELSE [release[t] EXCEPT !.reviewer = stage[o].reviewer]
Copy(o, t, part) == /\ release' = [release EXCEPT ![t] = Copied(o, t, part)]
                    /\ UNCHANGED <<stage, manifest, current, rust, codex, runner>>

CopyTool == /\ \E tool \in Tools \ rust : rust' = rust \cup {tool}
            /\ UNCHANGED <<stage, release, manifest, current, codex, runner>>

WriteManifest(o, t) == /\ manifest' = [manifest EXCEPT ![t] = stage[o].reviewer]
                       /\ UNCHANGED <<stage, release, current, rust, codex, runner>>
Switch(t) == current' = t /\ UNCHANGED <<stage, release, manifest, rust, codex, runner>>

\* Codex is overwritten in place, and its command unlinked and linked again.
PutCodex(value) == codex' = value /\ UNCHANGED <<stage, release, manifest, current, rust, runner>>
CodexTorn     == PutCodex([codex EXCEPT !.bytes = "torn"])
CodexCopied   == codex.bytes = "torn" /\ PutCodex([codex EXCEPT !.bytes = "whole"])
CodexUnlinked == PutCodex([codex EXCEPT !.linked = FALSE])
CodexLinked   == PutCodex([codex EXCEPT !.linked = TRUE])

----------------------------------------------------------------------------
(* The runner replaces its own software while it is registered *)

SelfUpdate == runner /\ runner' = FALSE /\ UNCHANGED <<stage, release, manifest, current, rust, codex>>
Updated    == ~runner /\ runner' = TRUE /\ UNCHANGED <<stage, release, manifest, current, rust, codex>>
=============================================================================
