---------------------------- MODULE QuietUpgrade ----------------------------
(***************************************************************************)
(* What the lifecycle of an installation promises, without gate phases,    *)
(* receipts, coordinators or backends: the installed release changes only  *)
(* while admission is closed and nothing admitted is left, and admission   *)
(* reopens only on a whole release.  LifecycleOperation implements it.      *)
(***************************************************************************)
CONSTANTS Runs,      \* workflow runs that may be admitted
          Revisions  \* releases that may be installed

VARIABLES admitting,  \* is a new run admitted?
          busy,       \* admitted runs whose reservation has not ended
          working,    \* runs that have a worker process
          release     \* the installed release

vars == <<admitting, busy, working, release>>

Releases == [target : Revisions, whole : BOOLEAN]

Init ==
  /\ admitting = TRUE
  /\ busy = {}
  /\ working = {}
  /\ release \in [target : Revisions, whole : {TRUE}]

Enter(r) ==
  /\ admitting = TRUE
  /\ busy' = busy \cup {r}
  /\ UNCHANGED <<admitting, working, release>>

Work(r) ==
  /\ r \in busy
  /\ working' = working \cup {r}
  /\ UNCHANGED <<admitting, busy, release>>

Rest(r) ==
  /\ working' = working \ {r}
  /\ UNCHANGED <<admitting, busy, release>>

(* A reservation never ends before its worker.                              *)
Leave(r) ==
  /\ r \notin working
  /\ busy' = busy \ {r}
  /\ UNCHANGED <<admitting, working, release>>

Close ==
  /\ admitting' = FALSE
  /\ UNCHANGED <<busy, working, release>>

Change ==
  /\ admitting = FALSE
  /\ busy = {}
  /\ release' \in Releases
  /\ UNCHANGED <<admitting, busy, working>>

Open ==
  /\ release.whole
  /\ admitting' = TRUE
  /\ UNCHANGED <<busy, working, release>>

Next ==
  \/ \E r \in Runs : Enter(r) \/ Work(r) \/ Rest(r) \/ Leave(r)
  \/ Close \/ Change \/ Open

Spec == Init /\ [][Next]_vars

-----------------------------------------------------------------------------
(* Nothing works, or still may, while the release is not whole.            *)
Quiet == ~release.whole => admitting = FALSE /\ busy = {} /\ working = {}
=============================================================================
