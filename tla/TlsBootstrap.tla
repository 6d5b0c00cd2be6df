---------------------------- MODULE TlsBootstrap ----------------------------
(***************************************************************************)
(* The owner's TLS phases (ansible/tools/tls-webroot-bootstrap.py): the    *)
(* bundle of client CAs, the rehearsal against the staging authority, the  *)
(* one order against the live authority, and the publication of the key    *)
(* and the certificate as two files that are never replaced.               *)
(*                                                                         *)
(* A process may die between any two steps.  What a file holds is the      *)
(* generation of the certbot lineage it was copied from, 0 when absent;    *)
(* what a rehearsal is bound to (addresses, ingress container and image,   *)
(* configuration, CAs) is one value of Envs.                               *)
(***************************************************************************)
EXTENDS Naturals

CONSTANTS Envs,          \* states of the public prerequisites
          FirstEnv,      \* the one at first
          None,
          MaxGeneration  \* bound on renewals of the lineage

ASSUME EnvsAssumption == FirstEnv \in Envs /\ {None, "TLS_ACME_DRY_RUN_INVALIDATED"} \cap Envs = {}

VARIABLES tls,        \* the files below the preparation root, and the managed pair
          env,        \* the prerequisites as they are now
          rehearsed,  \* history: what the last order was bound to, None after a failure or a live order
          work        \* the running process

bootstrap == <<tls, env, rehearsed, work>>

TlsPhases == {"tls-prepare", "tls-dry-run", "tls-issue"}
Invalid   == "TLS_ACME_DRY_RUN_INVALIDATED"

NoWork == [phase |-> None, at |-> "none", saved |-> None, bound |-> None, ok |-> FALSE, gen |-> 0]

TlsTypeOK ==
  /\ env \in Envs /\ rehearsed \in Envs \cup {None}
  /\ tls \in [ca : {"none", "unowned", "ready"}, marker : Envs \cup {None, Invalid}, fragment : BOOLEAN,
              lineage : 0..MaxGeneration, key : 0..MaxGeneration, cert : 0..MaxGeneration]
  /\ work \in [phase : TlsPhases \cup {None}, saved : Envs \cup {None, Invalid}, bound : Envs \cup {None},
               at : {"none", "invalidate", "ca", "own", "plan", "order", "ask", "close", "mark", "copy",
                     "key", "cert", "done", "failed"}, ok : BOOLEAN, gen : 0..MaxGeneration]

TlsInit == /\ env = FirstEnv /\ rehearsed = None /\ work = NoWork
           /\ tls = [ca |-> "none", marker |-> None, fragment |-> FALSE, lineage |-> 0, key |-> 0, cert |-> 0]

----------------------------------------------------------------------------
Working(at) == work.at = at
Move(at)    == work' = [work EXCEPT !.at = at]
Issuing     == work.phase = "tls-issue"
Acme        == work.phase # "tls-prepare"

\* The file is replaced or published; the rest is as it was.
Files(t) == tls' = t /\ UNCHANGED <<env, rehearsed>>
NoFile   == UNCHANGED <<tls, env, rehearsed>>

\* The rehearsal is read only to be spent: the marker is invalid before anything else is tried.
\* Mutant: an order keeps the marker it is bound to.
InvalidateRehearsal == /\ Working("invalidate")
                       /\ work' = [work EXCEPT !.at = "ca", !.saved = IF Issuing THEN tls.marker ELSE None]
                       /\ Files(IF Issuing THEN tls ELSE [tls EXCEPT !.marker = Invalid])
Invalidate == /\ Working("invalidate")
              /\ work' = [work EXCEPT !.at = "ca", !.saved = IF Issuing THEN tls.marker ELSE None]
              /\ Files([tls EXCEPT !.marker = Invalid])

\* The bundle is renamed into place first and gets its group after.
PrepareCa == /\ Working("ca")
             /\ \/ tls.ca = "ready" /\ Move("plan") /\ NoFile
                \/ tls.ca = "none" /\ Move("own") /\ Files([tls EXCEPT !.ca = "unowned"])
OwnCa     == Working("own") /\ Move("plan") /\ Files([tls EXCEPT !.ca = "ready"])

Reusable  == Acme /\ tls.cert # 0 /\ tls.key = tls.cert
\* Mutant: a lineage without its key is not taken up again.
RetainedKeyed == Acme /\ Issuing /\ tls.cert = 0 /\ tls.key # 0
Retained  == Acme /\ Issuing /\ tls.cert = 0 /\ (tls.key # 0 \/ tls.lineage # 0)
Untouched == Acme /\ tls.cert = 0 /\ tls.key = 0 /\ tls.lineage = 0

Reuse         == Working("plan") /\ (~Acme \/ Reusable) /\ Move("done") /\ NoFile
Republish     == Working("plan") /\ Retained /\ Move("copy") /\ NoFile
\* An order needs the rehearsal of exactly these prerequisites.
Ready         == Untouched /\ ~tls.fragment /\ (Issuing => work.saved = env)
OpenChallenge == /\ Working("plan") /\ Ready
                 /\ work' = [work EXCEPT !.at = "order", !.bound = env]
                 /\ Files([tls EXCEPT !.fragment = TRUE])

\* The last look at the prerequisites; what changes after it is not seen.
Look      == Working("order") /\ env = work.bound /\ Move("ask") /\ NoFile
LookFails == Working("order") /\ Move("close") /\ rehearsed' = None /\ UNCHANGED <<tls, env>>
Moved     == env # work.bound /\ LookFails

\* certbot.
Order == /\ Working("ask") /\ work' = [work EXCEPT !.at = "close", !.ok = TRUE]
         /\ tls' = [tls EXCEPT !.lineage = IF Issuing THEN 1 ELSE 0]
         /\ rehearsed' = IF Issuing THEN None ELSE work.bound
         /\ UNCHANGED env
\* It fails, or runs out of its ten minutes with the lineage in place.
OrderFails == /\ Working("ask") /\ Move("close") /\ rehearsed' = None /\ UNCHANGED env
              /\ \E n \in IF Issuing THEN {0, 1} ELSE {0} : tls' = [tls EXCEPT !.lineage = n]

\* The shared ingress is restored before a file is published.
Close == /\ Working("close") /\ Files([tls EXCEPT !.fragment = FALSE])
         /\ Move(IF ~work.ok THEN "failed" ELSE IF Issuing THEN "copy" ELSE "mark")
Mark  == Working("mark") /\ Move("done") /\ Files([tls EXCEPT !.marker = work.bound])

\* publish_certificate: one copy of the lineage, the key first, then the
\* certificate.  A key that is there already must be the one of the copy.
\* Mutant: the key that is there is taken for the one of the lineage.
CopyAdopts == /\ Working("copy") /\ tls.cert = 0 /\ tls.lineage # 0
              /\ work' = [work EXCEPT !.gen = tls.lineage, !.at = IF tls.key = 0 THEN "key" ELSE "cert"]
              /\ NoFile
Copy == /\ Working("copy") /\ tls.cert = 0 /\ tls.lineage # 0 /\ tls.key \in {0, tls.lineage}
        /\ work' = [work EXCEPT !.gen = tls.lineage, !.at = IF tls.key = 0 THEN "key" ELSE "cert"]
        /\ NoFile
PublishKey  == Working("key") /\ Move("cert") /\ Files([tls EXCEPT !.key = work.gen])
PublishCert == Working("cert") /\ Move("done") /\ Files([tls EXCEPT !.cert = work.gen])

Refused == \/ Working("ca") /\ tls.ca = "unowned"
           \/ Working("plan") /\ Acme /\ ~(Reusable \/ Retained \/ Ready)
           \/ Working("copy") /\ (tls.lineage = 0 \/ tls.key \notin {0, tls.lineage})
Refuse == Refused /\ Move("failed") /\ NoFile

TlsStep == \/ Invalidate \/ PrepareCa \/ OwnCa \/ Reuse \/ Republish \/ OpenChallenge \/ Look \/ Order
           \/ Moved \/ Close \/ Mark \/ Copy \/ PublishKey \/ PublishCert \/ Refuse

StartTls(ph) == /\ work' = [NoWork EXCEPT !.phase = ph, !.at = IF ph = "tls-prepare" THEN "ca" ELSE "invalidate"]
                /\ NoFile
TlsRunning   == work.at \notin {"none", "done", "failed"}

----------------------------------------------------------------------------
(* The surroundings *)

\* The prerequisites change, and the owner renews the lineage.
Drift == /\ env' \in Envs \ {env} /\ UNCHANGED <<tls, rehearsed, work>>
Renew == /\ ~TlsRunning /\ tls.lineage \in 1..(MaxGeneration - 1)
         /\ Files([tls EXCEPT !.lineage = @ + 1]) /\ UNCHANGED work

\* What the owner removes after a look: a challenge, or a partial key of another lineage.
Orphaned  == tls.cert = 0 /\ tls.key \notin {0, tls.lineage}
CleanTls  == /\ ~TlsRunning
             /\ \/ tls.fragment /\ Files([tls EXCEPT !.fragment = FALSE])
                \/ Orphaned /\ Files([tls EXCEPT !.key = 0])
             /\ UNCHANGED work

----------------------------------------------------------------------------
(* Properties *)

\* Two files that are published one after the other, by processes that may die in between and
\* may be run again on a renewed lineage, are never a certificate with the key of another one.
KeyMatches == tls.cert # 0 => tls.key = tls.cert

\* The live authority is asked, whatever it answers, only for what the staging authority granted
\* in the surroundings of the last look, and once for every such rehearsal: whatever failed since
\* voids it (the marker of run_mutating).
OrderIsRehearsed == [][(Order \/ OrderFails) /\ Issuing => rehearsed = work.bound]_bootstrap
=============================================================================
