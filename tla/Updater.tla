-------------------------------- MODULE Updater --------------------------------
(***************************************************************************)
(* The agent's updater, agent/updater/watchtower.py, with the pool that    *)
(* serves the latest release, and docker compose, which a helper container *)
(* or the owner of the rig runs and which replaces the agent it is         *)
(* updating in the middle of the update.                                   *)
(*                                                                         *)
(* A release is good while its signer is an active validator and its       *)
(* timestamp is in the skew window.  A step is one docker command, one     *)
(* request or one write of the .env file.                                  *)
(***************************************************************************)
EXTENDS Naturals

CONSTANTS Digest,
          Installed     \* the image the installer pinned

ASSUME DigestAssumption == Installed \in Digest

VARIABLES
    release,   \* what the pool serves: a digest, and whether it verifies now
    running,   \* the image of the agent's container
    env,       \* AGENT_IMAGE_SHA256 in the .env file
    stage,        \* check_once
    target,    \* the digest it works on, while it does
    helpers,   \* helper containers that run: its "own", and an "orphan" of a process that died
    signed,    \* history: the installed digest and those validators signed
    pulled     \* history: the installed digest and those pull_and_verify found right

updaterVars == <<release, running, env, stage, target, helpers, signed, pulled>>

UpdaterType ==
    /\ release \in [digest: Digest, good: BOOLEAN]
    /\ running \in Digest /\ env \in Digest
    /\ stage \in {"idle", "compare", "pull", "rewrite", "helper", "wait"}
    /\ target \in Digest \cup {"none"}
    /\ helpers \subseteq {"own", "orphan"}
    /\ signed \subseteq Digest /\ pulled \subseteq Digest

UpdaterInit ==
    /\ release = [digest |-> Installed, good |-> FALSE]
    /\ running = Installed /\ env = Installed
    /\ stage = "idle" /\ target = "none"
    /\ helpers = {} /\ signed = {Installed} /\ pulled = {Installed}

-----------------------------------------------------------------------------
(* A validator signs a release, again or another one ...                   *)
Sign(d) ==
    /\ release' = [digest |-> d, good |-> TRUE]
    /\ signed' = signed \cup {d}
    /\ UNCHANGED <<running, env, stage, target, helpers, pulled>>

(* ... and the window passes, or the pool serves what nobody signed.       *)
Unsigned(d) ==
    /\ release' = [digest |-> d, good |-> FALSE]
    /\ UNCHANGED <<running, env, stage, target, helpers, signed, pulled>>

-----------------------------------------------------------------------------
Goes(step) == stage' = step /\ target' = IF step = "idle" THEN "none" ELSE target

(* The attempt is over; the next one comes after a pause that doubles with *)
(* every failure.                                                          *)
Over == Goes("idle") /\ UNCHANGED <<release, running, env, helpers, signed, pulled>>

(* A release that is taken as the pool serves it.                          *)
CheckUnverified ==
    /\ stage = "idle"
    /\ target' = release.digest
    /\ stage' = "compare"
    /\ UNCHANGED <<release, running, env, helpers, signed, pulled>>

(* check_once: the release is fetched and verify_release finds it good.    *)
Check ==
    /\ stage = "idle" /\ release.good
    /\ target' = release.digest
    /\ stage' = "compare"
    /\ UNCHANGED <<release, running, env, helpers, signed, pulled>>

(* The .env file is taken for what runs.                                   *)
CompareEnv ==
    /\ stage = "compare"
    /\ Goes(IF env = target THEN "idle" ELSE "pull")
    /\ UNCHANGED <<release, running, env, helpers, signed, pulled>>

(* running_image_digest: the first of the digests docker has for the image *)
(* of the agent's own container.  An image pulled by its digest from one   *)
(* repository has one; where it cannot be told, the one the container was  *)
(* configured with, which is what compose started.                         *)
Compare ==
    /\ stage = "compare"
    /\ Goes(IF running = target THEN "idle" ELSE "pull")
    /\ UNCHANGED <<release, running, env, helpers, signed, pulled>>

(* pull_and_verify.                                                        *)
Pull ==
    /\ stage = "pull"
    /\ pulled' = pulled \cup {target}
    /\ Goes("rewrite")
    /\ UNCHANGED <<release, running, env, helpers, signed>>

PullFails == stage = "pull" /\ Over

(* restart: rewrite_env, which replaces the file as a whole ...            *)
Rewrite ==
    /\ stage = "rewrite"
    /\ env' = target
    /\ Goes("helper")
    /\ UNCHANGED <<release, running, helpers, signed, pulled>>

RewriteFails == stage = "rewrite" /\ Over

(* ... docker run of the helper, which may fail, or run after all when the *)
(* command timed out ...                                                   *)
Helper ==
    /\ stage = "helper"
    /\ helpers' = helpers \cup {"own"}
    /\ Goes("wait")
    /\ UNCHANGED <<release, running, env, signed, pulled>>

HelperFails ==
    /\ stage = "helper"
    /\ helpers' \in {helpers, helpers \cup {"orphan"}}
    /\ Goes("idle")
    /\ UNCHANGED <<release, running, env, signed, pulled>>

(* ... and docker wait, which sees it end or times out; then it is removed.*)
Wait ==
    /\ stage = "wait"
    /\ helpers' = helpers \ {"own"}
    /\ Goes("idle")
    /\ UNCHANGED <<release, running, env, signed, pulled>>

(* The process ends, by a signal, a crash or a restart of the host; docker *)
(* starts the container again from the image it has.                       *)
Dies ==
    /\ Goes("idle")
    /\ helpers' = IF "own" \in helpers THEN (helpers \ {"own"}) \cup {"orphan"} ELSE helpers
    /\ UNCHANGED <<release, running, env, signed, pulled>>

-----------------------------------------------------------------------------
(* docker compose up: nothing if the agent runs the image of the .env      *)
(* file; otherwise it is stopped and started from that image.              *)
ComposeUp ==
    \/ env = running /\ UNCHANGED <<running, stage, target>>
    \/ env # running /\ running' = env /\ Goes("idle")

HelperUp(h) ==
    /\ h \in helpers
    /\ ComposeUp
    /\ helpers' = helpers \ {h}
    /\ UNCHANGED <<release, env, signed, pulled>>

(* The helper's compose fails, or the helper dies.                         *)
HelperDies(h) ==
    /\ h \in helpers
    /\ helpers' = helpers \ {h}
    /\ UNCHANGED <<release, running, env, stage, target, signed, pulled>>

(* The owner runs docker compose up -d.                                    *)
OwnerUp ==
    /\ env # running
    /\ ComposeUp
    /\ helpers' = IF "own" \in helpers THEN (helpers \ {"own"}) \cup {"orphan"} ELSE helpers
    /\ UNCHANGED <<release, env, signed, pulled>>

(* The steps after which the agent process is the same as before ...       *)
Lives ==
    \/ \E d \in Digest : Sign(d) \/ Unsigned(d)
    \/ Check \/ Compare \/ Pull \/ PullFails \/ Rewrite \/ RewriteFails
    \/ Helper \/ HelperFails \/ Wait
    \/ \E h \in {"own", "orphan"} : HelperDies(h) \/ (env = running /\ HelperUp(h))

(* ... and those that end it, with every other task of the agent.          *)
Ends ==
    \/ Dies \/ OwnerUp
    \/ \E h \in {"own", "orphan"} : env # running /\ HelperUp(h)

UpdaterNext == Lives \/ Ends

UpdaterSpec == UpdaterInit /\ [][UpdaterNext]_updaterVars

(* The updater tries for ever, and no step of it fails each time.  Nothing *)
(* is asked of validators, the owner, or helpers that were left behind.    *)
UpdaterFairness ==
    /\ SF_updaterVars(Compare) /\ WF_updaterVars(Wait)
    /\ SF_updaterVars(Check) /\ SF_updaterVars(Pull) /\ SF_updaterVars(Rewrite) /\ SF_updaterVars(Helper)
    /\ SF_updaterVars(HelperUp("own"))

-----------------------------------------------------------------------------
(* README: "rigs update to nothing else" than what validators sign.  The   *)
(* agent runs, and compose will run, the installed image or one that a     *)
(* validator signed and that was pulled and looked at; also after an       *)
(* update that stopped half-way, from a helper that was left behind and    *)
(* when the owner runs compose in the middle of it.                        *)
OnlySigned == {running, env} \subseteq signed \cap pulled

(* A release that validators keep signing is what the rig ends up running, *)
(* over failed pulls, failed helpers and deaths at any point, although     *)
(* every successful update kills the process that waits for it.            *)
UpdateArrives ==
    \A d \in Digest :
        <>[](release.digest = d) /\ []<>(release.good) => <>[](running = d)
=============================================================================
