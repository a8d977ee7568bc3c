------------------------------- MODULE AgentTasks -------------------------------
(***************************************************************************)
(* The agent process (agent/main.py, AgentRuntime.run) with two of its     *)
(* tasks: the watch over the owner's decisions and the updater.  They      *)
(* share the life of the process.  Whatever ends it, a death, the owner's  *)
(* docker compose or the update itself, which has its own process          *)
(* replaced, stops the watch at whatever await it has reached.             *)
(***************************************************************************)
EXTENDS Claims, Updater

taskVars == <<claimVars, updaterVars>>

TasksType == ClaimsType /\ UpdaterType

TasksInit == ClaimsInit /\ UpdaterInit

(* A step of one task, which the other does not notice ...                 *)
OneTask ==
    \/ ClaimsStep /\ UNCHANGED updaterVars
    \/ Lives /\ UNCHANGED claimVars

(* ... or the end of both.                                                 *)
ProcessEnds == Ends /\ Restart

TasksNext == OneTask \/ ProcessEnds

TasksSpec == TasksInit /\ [][TasksNext]_taskVars /\ ClaimsFairness /\ UpdaterFairness
=============================================================================
