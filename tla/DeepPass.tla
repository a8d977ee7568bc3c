-------------------------------- MODULE DeepPass --------------------------------
(***************************************************************************)
(* One deep pass on one rig after another: validator/schedule/deep.py from *)
(* verify to report, the session it runs in (session/client.py, ssh.py)    *)
(* and the checks of validator/verify.                                     *)
(*                                                                         *)
(* A step is one remote call and what the coroutine does with its answer.  *)
(* Any call may fail: SSH_TRANSPORT when the connection did, AGENT_CRASH   *)
(* when the answer is no answer; what a failed call was to do on the rig   *)
(* may then have been done or not.  What the rig is like is chosen when    *)
(* the pass begins; the pool's jobs on it come and go while it runs.       *)
(***************************************************************************)
EXTENDS Naturals, FiniteSets

CONSTANT Card           \* the cards the rig is enrolled with

(* A rig that is enrolled with no card is challenged once, by no name; that *)
(* rig is left out.                                                        *)
ASSUME CardAssumption == Card # {}

Check == {"version", "attestation", "host", "scrape", "specs", "duplicates",
          "challenge", "inspector", "exclusivity"}

(* protocol/failures.FailureClass, in the order in which worst prefers them. *)
FailureClass == {"SSH_TRANSPORT", "AGENT_CRASH", "CHALLENGE_REJECT", "SPEC_MISMATCH",
                 "UNAUTHORISED_WORK", "NESTED_CONTAINER", "DUPLICATE_UUID", "VERSION_STALE"}
Severity(class) ==
    CASE class = "SSH_TRANSPORT" -> 1 [] class = "AGENT_CRASH" -> 2
      [] class = "CHALLENGE_REJECT" -> 3 [] class = "SPEC_MISMATCH" -> 4
      [] class = "UNAUTHORISED_WORK" -> 5 [] class = "NESTED_CONTAINER" -> 6
      [] class = "DUPLICATE_UUID" -> 7 [] OTHER -> 8

(* What is true of the rig: which checks it meets, the cards that are in   *)
(* it, those that cannot solve the challenge, the work on its cards, and   *)
(* whether the job records the pass was given identify that work.  A later *)
(* job is one that came after the job the scrape saw had ended.            *)
Trait == {"version", "attestation", "host", "specs", "duplicates"}
Work == {"none", "placed", "later", "foreign"}
RigState == [meets: SUBSET Trait, present: SUBSET Card, bad: SUBSET Card,
             work: Work, recorded: BOOLEAN]

VARIABLES
    pc,
    rig,       \* the rig as it is
    passed,    \* checks with a verdict that has no failure
    failed,    \* the classes of the other verdicts
    seen,      \* the work the scrape found on the cards
    todo,      \* the challenge: cards that have not answered
    first,     \* the challenge: the class of its first failure
    dir,       \* the session directory is on the rig
    session,   \* the agent holds the session
    raised,    \* an exception is on its way out of the pass
    broke,     \* history: the calls at which the connection failed
    unsure,    \* history: the doubtful calls that failed, in any way
    posted     \* what was posted to the pool

history == <<broke, unsure>>
vars == <<pc, rig, passed, failed, seen, todo, first, dir, session, raised, history, posted>>

(* The remote calls of a pass, in their order, by the stage of the pass;   *)
(* and those after whose failure it is open what is on the rig.            *)
Call == {"version", "open", "mkdir", "host", "scrape", "prepare", "challenge",
         "inspect", "own", "cure", "cleanup", "close"}
Doubtful == {"open", "mkdir", "own", "cleanup", "close"}

Type ==
    /\ pc \in Call \cup {"idle", "report", "done"}
    /\ rig \in RigState
    /\ passed \subseteq Check /\ failed \subseteq FailureClass
    /\ seen \in Work
    /\ todo \subseteq Card /\ first \in FailureClass \cup {"none"}
    /\ dir \in BOOLEAN /\ session \in BOOLEAN /\ raised \in BOOLEAN
    /\ broke \subseteq Call /\ unsure \subseteq Doubtful
    /\ posted \in FailureClass \cup {"nothing", "refused", "pass"}

NoRig == [meets |-> {}, present |-> {}, bad |-> {}, work |-> "none", recorded |-> FALSE]

Init ==
    /\ pc = "idle" /\ rig = NoRig
    /\ passed = {} /\ failed = {} /\ seen = "none" /\ todo = {} /\ first = "none"
    /\ dir = FALSE /\ session = FALSE /\ raised = FALSE
    /\ broke = {} /\ unsure = {} /\ posted = "nothing"

-----------------------------------------------------------------------------
(* Verdicts: one that passed, one that failed.                             *)
Passes(check) == passed' = passed \cup {check} /\ UNCHANGED failed

Fails(class) == failed' = failed \cup {class} /\ UNCHANGED passed
Meets(check, class) ==
    \/ check \in rig.meets /\ Passes(check)
    \/ check \notin rig.meets /\ Fails(class)

(* A failed call that leaves no verdict.                                   *)
Unnoticed == UNCHANGED <<passed, failed, broke>>

(* A remote call that failed at the connection, or gave no result.         *)
Transport == Fails("SSH_TRANSPORT") /\ broke' = broke \cup {pc}

Crashes == Fails("AGENT_CRASH") /\ UNCHANGED broke

(* One that failed either way and leaves no verdict.                       *)
Ignored == broke' \in {broke, broke \cup {pc}} /\ UNCHANGED <<passed, failed>>

(* What a call that failed was to change may be changed; what it was to    *)
(* list is not known.                                                      *)
Unknown == unsure' = unsure \cup {pc}

Goes(step) == pc' = step /\ UNCHANGED <<rig, posted>>

(* The mildest class.                                                      *)
Mildest == CHOOSE class \in failed : \A other \in failed : Severity(class) >= Severity(other)

(* worst, over all verdicts.                                               *)
Worst == CHOOSE class \in failed : \A other \in failed : Severity(class) <= Severity(other)

-----------------------------------------------------------------------------
(* verify: the detail of the rig, or the roster's view of it.              *)
Begin ==
    /\ pc = "idle"
    /\ rig' \in RigState
    /\ rig'.work # "later" /\ (rig'.recorded => rig'.work = "placed")
    /\ pc' = "version"
    /\ UNCHANGED <<passed, failed, seen, todo, first, dir, session, raised, history, posted>>

(* The pass is over and its Outcome is gone; another rig is due.           *)
Returns ==
    /\ pc = "done"
    /\ pc' = "idle" /\ rig' = NoRig
    /\ passed' = {} /\ failed' = {} /\ seen' = "none" /\ todo' = {} /\ first' = "none"
    /\ dir' = FALSE /\ session' = FALSE /\ raised' = FALSE
    /\ broke' = {} /\ unsure' = {} /\ posted' = "nothing"

(* The pool ends a job, or places one the pass has no record of.           *)
JobEnds ==
    /\ pc \notin {"idle", "done"} /\ rig.work \in {"placed", "later"}
    /\ rig' = [rig EXCEPT !.work = "none"]
    /\ UNCHANGED <<pc, passed, failed, seen, todo, first, dir, session, raised, history, posted>>

JobStarts ==
    /\ pc \notin {"idle", "done"} /\ rig.work = "none"
    /\ rig' = IF seen = "placed" THEN [rig EXCEPT !.work = "later"]
              ELSE [rig EXCEPT !.work = "placed", !.recorded = FALSE]
    /\ UNCHANGED <<pc, passed, failed, seen, todo, first, dir, session, raised, history, posted>>

(* version.fetch.                                                          *)
Version ==
    /\ pc = "version"
    /\ \/ (Transport \/ Crashes) /\ Goes("report")
       \/ "version" \in rig.meets /\ Passes("version") /\ UNCHANGED broke /\ Goes("open")
       \/ "version" \notin rig.meets /\ Fails("VERSION_STALE") /\ UNCHANGED broke /\ Goes("report")
    /\ UNCHANGED <<seen, todo, first, dir, session, raised, unsure>>

(* AgentClient.open: the grant and the connection.  The call for the grant *)
(* is before the try block: one that fails closes nothing, not even the    *)
(* session whose answer was lost; a connection that fails closes the       *)
(* session.  The attestation came with the grant.                          *)
Open ==
    /\ pc = "open"
    /\ \/ (Transport \/ Crashes) /\ Unknown /\ Goes("report") /\ session' \in BOOLEAN
       \/ Transport /\ UNCHANGED unsure /\ Goes("close") /\ session' = TRUE
       \/ /\ Meets("attestation", "SPEC_MISMATCH")
          /\ UNCHANGED history /\ Goes("mkdir") /\ session' = TRUE
    /\ UNCHANGED <<seen, todo, first, dir, raised>>

(* in_session: the directory is made before the try block that removes it. *)
Mkdir ==
    /\ pc = "mkdir"
    /\ \/ (Transport \/ Crashes) /\ Unknown /\ Goes("close") /\ dir' \in BOOLEAN
       \/ UNCHANGED <<passed, failed, history>> /\ Goes("host") /\ dir' = TRUE
    /\ UNCHANGED <<seen, todo, first, session, raised>>

(* host_reality.run.                                                       *)
Host ==
    /\ pc = "host"
    /\ \/ Transport /\ Goes("cleanup")
       \/ Crashes /\ Goes("scrape")
       \/ Meets("host", "NESTED_CONTAINER") /\ UNCHANGED broke /\ Goes("scrape")
    /\ UNCHANGED <<seen, todo, first, dir, session, raised, unsure>>

(* The cards to challenge: the enrolled ones the scrape found, if any.     *)
Targets == IF rig.present = {} THEN Card ELSE rig.present

(* specs.check and duplicates.check of what was scraped.                   *)
SpecsOk == "specs" \in rig.meets /\ rig.present = Card
DuplicatesOk == "duplicates" \in rig.meets

(* scrape.run and the checks on what it found.                             *)
Scrape ==
    /\ pc = "scrape"
    /\ \/ Transport /\ Goes("cleanup") /\ UNCHANGED <<seen, todo>>
       \/ Crashes /\ Goes("prepare") /\ todo' = Card /\ UNCHANGED seen
       \/ /\ passed' = passed \cup {"scrape"} \cup (IF SpecsOk THEN {"specs"} ELSE {})
                              \cup (IF DuplicatesOk THEN {"duplicates"} ELSE {})
          /\ failed' = failed \cup (IF SpecsOk THEN {} ELSE {"SPEC_MISMATCH"})
                              \cup (IF DuplicatesOk THEN {} ELSE {"DUPLICATE_UUID"})
          /\ seen' = rig.work /\ todo' = Targets
          /\ UNCHANGED broke /\ Goes("prepare")
    /\ UNCHANGED <<first, dir, session, raised, unsure>>

(* challenge.prepare uploads the runner and the library.                   *)
Prepare ==
    /\ pc = "prepare"
    /\ Goes("challenge")
    /\ UNCHANGED <<passed, failed, seen, todo, first, dir, session, raised, history>>

(* The removal of the directory is not in a finally block.                 *)
PrepareEscapes ==
    /\ pc = "prepare"
    /\ broke' = broke \cup {pc} /\ raised' = TRUE
    /\ Goes("close")
    /\ UNCHANGED <<passed, failed, seen, todo, first, dir, session, unsure>>

(* Nothing on the way out of the pass catches its SshError.                *)
PrepareRaises ==
    /\ pc = "prepare"
    /\ broke' = broke \cup {pc} /\ raised' = TRUE
    /\ Goes("cleanup")
    /\ UNCHANGED <<passed, failed, seen, todo, first, dir, session, unsure>>

(* ChallengeUnavailable: the validator has no library, or cannot load it.  *)
Unavailable ==
    /\ pc = "prepare"
    /\ raised' = TRUE
    /\ Goes("cleanup")
    /\ UNCHANGED <<passed, failed, seen, todo, first, dir, session, history>>

(* challenge.run, card by card.  The first failure will be the verdict; a  *)
(* failed connection ends the loop, any other failure does not.            *)
Noted(class) == IF first = "none" THEN class ELSE first

Answers(c) ==
    /\ pc = "challenge" /\ c \in todo
    /\ \/ c \notin rig.bad /\ todo' = todo \ {c} /\ UNCHANGED <<first, broke>>
       \/ /\ \E class \in {"AGENT_CRASH", "CHALLENGE_REJECT", "VERSION_STALE"} : first' = Noted(class)
          /\ todo' = todo \ {c} /\ UNCHANGED broke
       \/ first' = Noted("SSH_TRANSPORT") /\ todo' = {} /\ broke' = broke \cup {pc}
    /\ UNCHANGED <<pc, rig, passed, failed, seen, dir, session, raised, unsure, posted>>

Judge ==
    /\ pc = "challenge" /\ todo = {}
    /\ \/ first = "none" /\ Passes("challenge")
       \/ first # "none" /\ Fails(first)
    /\ Goes(IF first = "SSH_TRANSPORT" THEN "cleanup" ELSE "inspect")
    /\ UNCHANGED <<seen, todo, first, dir, session, raised, history>>

(* inspect: upload, run, handshake.                                        *)
Inspect ==
    /\ pc = "inspect"
    /\ \/ Transport /\ Goes("cleanup")
       \/ Crashes /\ Goes("own")
       \/ Passes("inspector") /\ UNCHANGED broke /\ Goes("own")
    /\ UNCHANGED <<seen, todo, first, dir, session, raised, unsure>>

(* Work that only the containers on the rig identify.                      *)
AuthorisedListed(listed) == seen = "none" \/ (seen = "placed" /\ listed)

(* exclusivity: what the scrape saw is held against the pool's records and *)
(* the containers listed now; a listing that fails lists none.             *)
Authorised(listed) == seen = "none" \/ (seen = "placed" /\ (rig.recorded \/ listed))

Judged(listed) ==
    \/ Authorised(listed) /\ Passes("exclusivity")
    \/ ~Authorised(listed) /\ Fails("UNAUTHORISED_WORK")

Own ==
    /\ pc = "own"
    /\ \/ Judged(rig.work = "placed") /\ UNCHANGED history
       \/ Judged(FALSE) /\ Unknown /\ broke' \in {broke, broke \cup {pc}}
    /\ Goes(IF failed' = {} THEN "cure" ELSE "cleanup")
    /\ UNCHANGED <<seen, todo, first, dir, session, raised>>

(* gpu_wedge.sweep, which leaves the verdicts alone; a query that fails    *)
(* ends it.                                                                *)
Cure ==
    /\ pc = "cure"
    /\ Ignored
    /\ Goes("cleanup")
    /\ UNCHANGED <<seen, todo, first, dir, session, raised, unsure>>

(* The finally blocks of in_session and of open; their calls may fail and  *)
(* nothing asks.                                                           *)
Cleanup ==
    /\ pc = "cleanup"
    /\ \/ dir' = FALSE /\ UNCHANGED <<passed, failed, history>>
       \/ dir' \in BOOLEAN /\ Unknown /\ Ignored
    /\ Goes("close")
    /\ UNCHANGED <<seen, todo, first, session, raised>>

Close ==
    /\ pc = "close"
    /\ \/ session' = FALSE /\ UNCHANGED <<passed, failed, history>>
       \/ session' \in BOOLEAN /\ Unknown /\ Ignored
    /\ Goes(IF raised THEN "done" ELSE "report")
    /\ UNCHANGED <<seen, todo, first, dir, raised>>

(* finish and report.                                                      *)
Report ==
    /\ pc = "report"
    /\ pc' = "done"
    /\ posted' \in {"refused", IF failed = {} THEN "pass" ELSE Worst}
    /\ UNCHANGED <<rig, passed, failed, seen, todo, first, dir, session, raised, history>>

Step ==
    \/ Version \/ Open \/ Mkdir \/ Host \/ Scrape \/ Prepare \/ PrepareRaises \/ Unavailable
    \/ (\E c \in Card : Answers(c)) \/ Judge \/ Inspect \/ Own \/ Cure
    \/ Cleanup \/ Close \/ Report \/ Returns

Next == Begin \/ JobEnds \/ JobStarts \/ Step

Spec == Init /\ [][Next]_vars

-----------------------------------------------------------------------------
(* A pass is earned: what is posted as passed is a rig that meets every    *)
(* check, with all its cards in it, none of which failed the challenge,    *)
(* and without foreign work on them; whichever calls failed, and on        *)
(* whichever of the early returns the pass went on or ended.               *)
PassIsEarned ==
    posted = "pass" =>
        /\ passed = Check
        /\ rig.meets = Trait /\ rig.present = Card /\ rig.bad = {} /\ seen # "foreign"

(* However a pass ends, by a report, a refusal or an exception: if the     *)
(* directory is still on the rig, the command that made it or the one that *)
(* removes it failed, and if the agent still holds the session, the call   *)
(* that opened it or the one that closes it did.                           *)
NothingOpen ==
    pc = "done" =>
        /\ dir => unsure \cap {"mkdir", "cleanup"} # {}
        /\ session => unsure \cap {"open", "close"} # {}

(* A pass in which a call that has a verdict found the connection failed   *)
(* is reported as SSH_TRANSPORT, whatever else it had found or found       *)
(* later.  Such calls are the version, the opening, the directory, the     *)
(* checks, and the challenge when no card had failed it before.  A pass    *)
(* that ends without a report is one whose challenge could not be          *)
(* prepared: no other failed connection keeps the pool from hearing of it. *)
Told == {"version", "open", "mkdir", "host", "scrape", "inspect"}
BrokenIsTold ==
    pc = "done" =>
        /\ broke \cap Told # {} \/ first = "SSH_TRANSPORT" => posted \in {"refused", "SSH_TRANSPORT"}
        /\ posted = "nothing" => broke \subseteq {"prepare", "cleanup", "close"}

(* Who is blamed for work on its cards has foreign work on them, or a job  *)
(* of the pool that the pass could not identify: it is in none of the      *)
(* records, and it ended after the scrape or the containers could not be   *)
(* listed.  A job that stays, or is on record, is never unauthorised,      *)
(* whatever jobs come and go beside it and whichever calls fail.           *)
BlamedForCause ==
    posted = "UNAUTHORISED_WORK" =>
        \/ seen = "foreign"
        \/ seen = "placed" /\ ~rig.recorded /\ (rig.work # "placed" \/ "own" \in unsure)
=============================================================================
