--------------------------------- MODULE Claims ---------------------------------
(***************************************************************************)
(* The owner's decisions about claims on the rig: agent/control/claims.py  *)
(* and the `approve` command of agent/main.py.                             *)
(*                                                                         *)
(* The command is a process of its own that writes one file per hotkey     *)
(* with Path.write_text, which empties the file first and fills it after.  *)
(* The agent's watch task reads the files, sends them and removes them.    *)
(* Prompts and notices on the console are left out.                        *)
(***************************************************************************)
CONSTANTS Hotkey,
          None          \* the watch task is not sending

ASSUME ClaimsAssumption == None \notin Hotkey

Decision == {"approve", "deny"}

VARIABLES
    file,      \* the file of each hotkey in approvals_dir: "none", "empty" or its text
    command,   \* the decision that a command has yet to write, or "none"
    watch,        \* the watch task is "idle" or in "drain"
    todo,      \* the files its loop has left
    sending,   \* the hotkey whose decision is being sent, or None
    text,      \* what was read of it
    given,     \* history: the hotkeys the owner approved, if only for a time
    told       \* history: what the pool was told last, or "none"

claimVars == <<file, command, watch, todo, sending, text, given, told>>

ClaimsType ==
    /\ file \in [Hotkey -> Decision \cup {"none", "empty"}]
    /\ command \in [Hotkey -> Decision \cup {"none"}]
    /\ watch \in {"idle", "drain"} /\ todo \subseteq Hotkey
    /\ sending \in Hotkey \cup {None} /\ text \in Decision \cup {"empty"}
    /\ given \subseteq Hotkey /\ told \in [Hotkey -> Decision \cup {"none"}]

ClaimsInit ==
    /\ file = [h \in Hotkey |-> "none"] /\ command = [h \in Hotkey |-> "none"]
    /\ watch = "idle" /\ todo = {} /\ sending = None /\ text = "empty"
    /\ given = {} /\ told = [h \in Hotkey |-> "none"]

-----------------------------------------------------------------------------
(* record_decision: the file is made, or emptied ...                       *)
Record(h, decision) ==
    /\ command[h] = "none"
    /\ file' = [file EXCEPT ![h] = "empty"]
    /\ command' = [command EXCEPT ![h] = decision]
    /\ given' = IF decision = "approve" THEN given \cup {h} ELSE given
    /\ UNCHANGED <<watch, todo, sending, text, told>>

(* ... and written, if it has not been removed meanwhile.                  *)
Written(h) ==
    /\ command[h] # "none"
    /\ file' = [file EXCEPT ![h] = IF @ = "none" THEN @ ELSE command[h]]
    /\ command' = [command EXCEPT ![h] = "none"]
    /\ UNCHANGED <<watch, todo, sending, text, given, told>>

-----------------------------------------------------------------------------
(* _drain, again and again.                                                *)
List ==
    /\ watch = "idle"
    /\ watch' = "drain" /\ todo' = {h \in Hotkey : file[h] # "none"}
    /\ UNCHANGED <<file, command, sending, text, given, told>>

Read(h) ==
    /\ watch = "drain" /\ sending = None /\ h \in todo
    /\ sending' = h /\ text' = file[h]
    /\ todo' = todo \ {h}
    /\ UNCHANGED <<file, command, watch, given, told>>

(* Text that is passed on as it is.                                        *)
Unclear(t) == IF t \in Decision THEN t ELSE "unclear"

(* An approval is whatever is not a denial.                                *)
NotDenied(t) == IF t = "deny" THEN "deny" ELSE "approve"

(* decision == "approve": any other text is a denial.                      *)
Meaning(t) == IF t = "approve" THEN "approve" ELSE "deny"

Tell == told' = [told EXCEPT ![sending] = Meaning(text)]
Unlink == file' = [file EXCEPT ![sending] = "none"]

(* decide_claim returned: the file goes, whatever is in it by now.         *)
Sent(h) ==
    /\ sending = h
    /\ Tell /\ Unlink
    /\ sending' = None /\ text' = "empty"
    /\ UNCHANGED <<command, watch, todo, given>>

(* A failure after which the file is removed in any case.                  *)
SendFailsForgets ==
    /\ sending # None
    /\ Tell \/ UNCHANGED told
    /\ Unlink
    /\ sending' = None /\ text' = "empty"
    /\ UNCHANGED <<command, watch, todo, given>>

(* No rig_id yet, no such claim, no connection, or no answer (the pool may *)
(* have got it): a decision is kept for the next time, any other text is   *)
(* not.                                                                    *)
SendFails ==
    /\ sending # None
    /\ Tell \/ UNCHANGED told
    /\ IF text \in Decision THEN UNCHANGED file ELSE Unlink
    /\ sending' = None /\ text' = "empty"
    /\ UNCHANGED <<command, watch, todo, given>>

DrainEnds ==
    /\ watch = "drain" /\ todo = {} /\ sending = None
    /\ watch' = "idle"
    /\ UNCHANGED <<file, command, todo, sending, text, given, told>>

(* The agent stops and starts anew; what it was sending may have arrived.  *)
Restart ==
    /\ watch' = "idle" /\ todo' = {} /\ sending' = None /\ text' = "empty"
    /\ UNCHANGED told \/ (sending # None /\ Tell)
    /\ UNCHANGED <<file, command, given>>

ClaimsStep ==
    \/ \E h \in Hotkey : Written(h) \/ Read(h) \/ Sent(h) \/ \E d \in Decision : Record(h, d)
    \/ List \/ SendFails \/ DrainEnds

ClaimsNext == ClaimsStep \/ Restart

ClaimsSpec == ClaimsInit /\ [][ClaimsNext]_claimVars

(* The watch task polls for ever and is not stopped each time before it    *)
(* gets to a file, a command ends, and a decision that is sent often       *)
(* enough is taken by the pool.                                            *)
ClaimsFairness ==
    /\ WF_claimVars(List) /\ WF_claimVars(DrainEnds)
    /\ \A h \in Hotkey : WF_claimVars(Written(h)) /\ SF_claimVars(Read(h)) /\ SF_claimVars(Sent(h))

-----------------------------------------------------------------------------
(* The pool is never told of an approval that the owner did not give: not  *)
(* by a file read half-way, a decision taken back while the other is on    *)
(* its way, a retry or a restart.                                          *)
ApprovalIsGiven ==
    \A h \in Hotkey : told[h] = "approve" => h \in given

(* A decision that is in its file before the watch task reads the file     *)
(* reaches the pool, over any number of failures and restarts, unless the  *)
(* owner sets about another.                                               *)
DecisionIsSent ==
    \A h \in Hotkey, d \in Decision :
        (file[h] = d /\ sending # h) ~> (told[h] = d \/ command[h] # "none")
=============================================================================
