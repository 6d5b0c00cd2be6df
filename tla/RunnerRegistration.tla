------------------------- MODULE RunnerRegistration -------------------------
(***************************************************************************)
(* The owner-mediated registration of a runner                             *)
(* (roles/relay_runner/templates/relay-runner-registration.j2): a pending  *)
(* marker is created before config.sh talks to GitHub and removed after    *)
(* the local markers prove the registration, or after an answer that       *)
(* proves that nothing was registered.                                     *)
(***************************************************************************)
EXTENDS Naturals

CONSTANTS Runners, Nobody

VARIABLES runner,  \* per runner: pending marker, local markers, registrations at GitHub, service
          helper   \* the running registration

registration == <<runner, helper>>

NoHelper   == [runner |-> Nobody, at |-> "none", token |-> FALSE]
Blank      == [pending |-> FALSE, local |-> "none", agents |-> 0, enabled |-> FALSE]
RunnerTypeOK ==
  /\ runner \in [Runners -> [pending : BOOLEAN, local : {"none", "rsa", "full"}, agents : 0..2, enabled : BOOLEAN]]
  /\ helper \in [runner : Runners \cup {Nobody}, token : BOOLEAN,
                 at : {"none", "inspect", "reserve", "configure", "rejected", "clear", "done", "failed"}]
RunnerInit == runner = [r \in Runners |-> Blank] /\ helper = NoHelper

----------------------------------------------------------------------------
H == helper.runner
Helping(at) == helper.at = at
Then(at)    == helper' = [helper EXCEPT !.at = at]
Set(row)    == runner' = [runner EXCEPT ![H] = row]
Row         == runner[H]

\* Local markers prove the registration, whoever left them there.
Reconcile == Helping("inspect") /\ Row.local = "full" /\ Then("clear") /\ UNCHANGED runner
Vacant    == ~Row.pending /\ Row.local = "none" /\ helper.token
Inspect   == Helping("inspect") /\ Vacant /\ Then("reserve") /\ UNCHANGED runner
Decline   == /\ Helping("inspect") /\ Row.local # "full" /\ ~Vacant
             /\ Then("failed") /\ UNCHANGED runner

Reserve   == Helping("reserve") /\ Set([Row EXCEPT !.pending = TRUE]) /\ Then("configure")
Configure == /\ Helping("configure") /\ Then("clear")
             /\ Set([Row EXCEPT !.local = "full", !.agents = @ + 1])
ClearPending == Helping("clear") /\ Set([Row EXCEPT !.pending = FALSE]) /\ Then("done")

\* The token is rejected before the registration: only this answer clears the marker.
Reject      == Helping("configure") /\ Then("rejected") /\ UNCHANGED runner
ClearReject == Helping("rejected") /\ Set([Row EXCEPT !.pending = FALSE]) /\ Then("failed")

\* Any other end of config.sh: GitHub may have the runner, and its RSA key may be all that is left.
\* Mutant: a failure without local markers is taken for a rejection.
Unknown(pending) == \E key \in {"none", "rsa"}, a \in {0, 1} :
  Set([Row EXCEPT !.pending = pending, !.local = key, !.agents = @ + a])
FailCleared == Helping("configure") /\ Then("failed") /\ Unknown(FALSE)
Fail        == Helping("configure") /\ Then("failed") /\ Unknown(TRUE)

RunnerStep == Reconcile \/ Inspect \/ Decline \/ Reserve \/ Configure \/ ClearPending \/ ClearReject

StartHelper(r, token) == helper' = [runner |-> r, at |-> "inspect", token |-> token] /\ UNCHANGED runner

\* The row of the inventory.
Ambiguous(r)  == runner[r].pending \/ runner[r].local = "rsa"
Registered(r) == ~runner[r].pending /\ runner[r].local = "full"

\* The owner removes the registration nobody could prove, and its residue.
Diagnose(r) == /\ Ambiguous(r) /\ runner[r].local # "full"
               /\ runner' = [runner EXCEPT ![r] = Blank] /\ UNCHANGED helper

----------------------------------------------------------------------------
(* Properties *)

\* However often a registration is tried, dies or is answered by silence, GitHub never gets a
\* second runner for a name before the owner has looked at the first attempt.
RegisteredOnce == \A r \in Runners : runner[r].agents <= 1
=============================================================================
