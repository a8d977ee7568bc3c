------------------------------ MODULE AgentProofs ------------------------------
(***************************************************************************)
(* Proofs about the agent process: its two long tasks, the watch over the  *)
(* owner's decisions and the updater, together (AgentTasks), and the work  *)
(* that shares its threads (AgentWork).  For any hotkeys, digests,         *)
(* commands, jobs, images and threads.                                     *)
(***************************************************************************)
EXTENDS AgentTasks, AgentWork, SequenceTheorems, WellFoundedInduction, TLAPS

-----------------------------------------------------------------------------
(* Claims.  The property is not inductive.  An approval passes through the *)
(* command, the file and the text in the hands of the watch task, and at   *)
(* each of these stations it must already be on record.  That what is read *)
(* is the text of a file needs the files that the loop has left to be      *)
(* there.                                                                  *)
InCommand == \A h \in Hotkey : command[h] = "approve" => h \in given
InFile == \A h \in Hotkey : file[h] = "approve" => h \in given
InHand == \A h \in Hotkey : sending = h /\ text = "approve" => h \in given

(* The files that the loop has left exist, and none of them is being sent. *)
Listed ==
    /\ watch = "idle" => sending = None /\ todo = {}
    /\ sending \notin todo
    /\ \A h \in todo : file[h] # "none"

ClaimsInv == ClaimsType /\ Listed /\ InCommand /\ InFile /\ InHand /\ ApprovalIsGiven

(* Nothing is written, read or told to begin with.                         *)
LEMMA ClaimsInvInit == ClaimsInit => ClaimsInv
BY ClaimsAssumption
   DEF ClaimsInit, ClaimsInv, ClaimsType, Listed, InCommand, InFile, InHand, ApprovalIsGiven, Decision

(* Every step, of the command or of the watch task, keeps all of it.       *)
LEMMA ClaimsInvNext == ClaimsInv /\ [ClaimsNext]_claimVars => ClaimsInv'
<1> SUFFICES ASSUME ClaimsInv, [ClaimsNext]_claimVars PROVE ClaimsInv'
  OBVIOUS
<1> USE ClaimsAssumption DEF ClaimsInv, ClaimsType, Decision
<1>1. ASSUME NEW h \in Hotkey, NEW d \in Decision, Record(h, d) PROVE ClaimsInv'
  BY <1>1 DEF Record, Listed, InCommand, InFile, InHand, ApprovalIsGiven
<1>2. ASSUME NEW h \in Hotkey, Written(h) PROVE ClaimsInv'
  BY <1>2 DEF Written, Listed, InCommand, InFile, InHand, ApprovalIsGiven
<1>3. CASE List
  BY <1>3 DEF List, Listed, InCommand, InFile, InHand, ApprovalIsGiven
<1>4. ASSUME NEW h \in Hotkey, Read(h) PROVE ClaimsInv'
  BY <1>4 DEF Read, Listed, InCommand, InFile, InHand, ApprovalIsGiven
<1>5. ASSUME NEW h \in Hotkey, Sent(h) PROVE ClaimsInv'
  BY <1>5 DEF Sent, Tell, Unlink, Meaning, Listed, InCommand, InFile, InHand, ApprovalIsGiven
<1>6. CASE SendFails
  BY <1>6 DEF SendFails, Tell, Unlink, Meaning, Listed, InCommand, InFile, InHand, ApprovalIsGiven
<1>7. CASE DrainEnds
  BY <1>7 DEF DrainEnds, Listed, InCommand, InFile, InHand, ApprovalIsGiven
<1>8. CASE Restart
  BY <1>8 DEF Restart, Tell, Meaning, Listed, InCommand, InFile, InHand, ApprovalIsGiven
<1>9. CASE UNCHANGED claimVars
  BY <1>9 DEF claimVars, Listed, InCommand, InFile, InHand, ApprovalIsGiven
<1>10. QED
  BY <1>1, <1>2, <1>3, <1>4, <1>5, <1>6, <1>7, <1>8, <1>9 DEF ClaimsNext, ClaimsStep

-----------------------------------------------------------------------------
(* The updater.  What makes it inductive: the digest an attempt works on   *)
(* was signed, as is a release that is good, and from the rewriting of the *)
(* .env file on the digest was pulled too.                                 *)
GoodIsSigned == release.good => release.digest \in signed
TargetIsSigned == stage # "idle" => target \in signed
TargetIsPulled == stage \in {"rewrite", "helper", "wait"} => target \in pulled

UpdaterInv == UpdaterType /\ GoodIsSigned /\ TargetIsSigned /\ TargetIsPulled /\ OnlySigned

(* The installer's image runs and nothing is published.                    *)
LEMMA UpdaterInvInit == UpdaterInit => UpdaterInv
BY DigestAssumption
   DEF UpdaterInit, UpdaterInv, UpdaterType, GoodIsSigned, TargetIsSigned, TargetIsPulled, OnlySigned

(* Every step keeps all of it: of the updater, of compose, of the pool.    *)
LEMMA UpdaterInvNext == UpdaterInv /\ [UpdaterNext]_updaterVars => UpdaterInv'
<1> SUFFICES ASSUME UpdaterInv, [UpdaterNext]_updaterVars PROVE UpdaterInv'
  OBVIOUS
<1> USE DigestAssumption DEF UpdaterInv, UpdaterType, GoodIsSigned, TargetIsSigned, TargetIsPulled, OnlySigned
<1>1. ASSUME NEW d \in Digest, Sign(d) PROVE UpdaterInv'
  BY <1>1 DEF Sign
<1>2. ASSUME NEW d \in Digest, Unsigned(d) PROVE UpdaterInv'
  BY <1>2 DEF Unsigned
<1>3. CASE Check
  BY <1>3 DEF Check
<1>4. CASE Compare
  BY <1>4 DEF Compare, Goes
<1>5. CASE Pull
  BY <1>5 DEF Pull, Goes
<1>6. CASE PullFails \/ RewriteFails
  BY <1>6 DEF PullFails, RewriteFails, Over, Goes
<1>7. CASE Rewrite
  BY <1>7 DEF Rewrite, Goes
<1>8. CASE Helper
  BY <1>8 DEF Helper, Goes
<1>9. CASE HelperFails
  BY <1>9 DEF HelperFails, Goes
<1>10. CASE Wait
  BY <1>10 DEF Wait, Goes
<1>11. CASE Dies
  BY <1>11 DEF Dies, Goes
<1>12. ASSUME NEW h \in {"own", "orphan"}, HelperUp(h) PROVE UpdaterInv'
  BY <1>12 DEF HelperUp, ComposeUp, Goes
<1>13. ASSUME NEW h \in {"own", "orphan"}, HelperDies(h) PROVE UpdaterInv'
  BY <1>13 DEF HelperDies
<1>14. CASE OwnerUp
  BY <1>14 DEF OwnerUp, ComposeUp, Goes
<1>15. CASE UNCHANGED updaterVars
  BY <1>15 DEF updaterVars
<1>16. QED
  BY <1>1, <1>2, <1>3, <1>4, <1>5, <1>6, <1>7, <1>8, <1>9, <1>10, <1>11, <1>12, <1>13, <1>14,
     <1>15 DEF UpdaterNext, Lives, Ends

-----------------------------------------------------------------------------
(* The process.  It runs each of its tasks as the task's own specification *)
(* says, so what holds of the tasks by themselves holds of the process.    *)
LEMMA TasksAreClaims == TasksSpec => ClaimsSpec
<1>1. TasksInit => ClaimsInit
  BY DEF TasksInit
<1>2. [TasksNext]_taskVars => [ClaimsNext]_claimVars
  BY DEF TasksNext, OneTask, ProcessEnds, taskVars, ClaimsNext
<1> QED BY <1>1, <1>2, PTL DEF TasksSpec, ClaimsSpec

LEMMA TasksAreUpdates == TasksSpec => UpdaterSpec
<1>1. TasksInit => UpdaterInit
  BY DEF TasksInit
<1>2. [TasksNext]_taskVars => [UpdaterNext]_updaterVars
  BY DEF TasksNext, OneTask, ProcessEnds, taskVars, UpdaterNext
<1> QED BY <1>1, <1>2, PTL DEF TasksSpec, UpdaterSpec

(* The pool is told of an approval only if the owner gave it (claims.py    *)
(* reads a file that record_decision may be writing at that moment), also  *)
(* when an update or a death ends the process at any await of the watch.   *)
THEOREM ApprovalIsGivenHolds == TasksSpec => []ApprovalIsGiven
<1>1. ClaimsInv => ApprovalIsGiven
  BY DEF ClaimsInv
<1> QED BY <1>1, ClaimsInvInit, ClaimsInvNext, TasksAreClaims, PTL DEF ClaimsSpec

(* The updater, which rewrites the .env file that compose starts the agent *)
(* from, never puts anything into it that was not signed and pulled.       *)
THEOREM OnlySignedHolds == TasksSpec => []OnlySigned
<1>1. UpdaterInv => OnlySigned
  BY DEF UpdaterInv
<1> QED BY <1>1, UpdaterInvInit, UpdaterInvNext, TasksAreUpdates, PTL DEF UpdaterSpec

(* Both tasks of the process keep the types of their variables.            *)
THEOREM TasksTypeCorrect == TasksSpec => []TasksType
<1>1. ClaimsInv /\ UpdaterInv => TasksType
  BY DEF ClaimsInv, UpdaterInv, TasksType
<1> QED
  BY <1>1, ClaimsInvInit, ClaimsInvNext, UpdaterInvInit, UpdaterInvNext,
     TasksAreClaims, TasksAreUpdates, PTL DEF ClaimsSpec, UpdaterSpec

-----------------------------------------------------------------------------
(* The work on the agent's threads.  What makes the locks inductive: a     *)
(* task in the queue has no thread and is there once, so that a thread     *)
(* that takes it takes it from no other.                                   *)
Queued ==
    /\ \A k \in 1..Len(queue) : work[queue[k]] = "queued"
    /\ \A k, l \in 1..Len(queue) : queue[k] = queue[l] => k = l

(* Each kind of task has its own stages.                                   *)
Kinds ==
    /\ \A p \in Prefetch : work[p] \in {"idle", "queued", "check", "wait", "pull", "bare",
                                         "record", "note", "save"}
    /\ \A c \in Challenge : work[c] \in {"idle", "queued", "solve", "hung"}
    /\ \A m \in Measure : work[m] \in {"idle", "queued", "measure", "hung"}
    /\ work[Sweep] \in {"idle", "queued", "sweep"}

(* Who has a lock is at what the lock is for, and nobody else is.          *)
Held ==
    /\ \A p \in Prefetch : work[p] = "pull" <=> pullLock = p
    /\ \A j \in Job : job[j] = "pull" <=> pullLock = j
    /\ \A c \in Challenge : work[c] \in {"solve", "hung"} <=> solveLock = c
    /\ \A p \in Prefetch : work[p] = "save" <=> stateLock = p

(* What is about to be saved is the file as it is, with one edit, but for  *)
(* who could not read it.  No image is recorded twice.                     *)
Distinct(q) == \A a, b \in DOMAIN q : q[a] = q[b] => a = b

Recorded(f, image) == [f EXCEPT !.images = Append(RemoveFirst(@, image), image)]
Noted(f) == [f EXCEPT !.error = TRUE]

OneEdit ==
    /\ Distinct(stateFile.images) /\ Distinct(hand.images)
    /\ stateLock # Nobody /\ ~blind =>
           hand = Noted(stateFile) \/ \E image \in Image : hand = Recorded(stateFile, image)

WorkInv == WorkType /\ Queued /\ Kinds /\ Held /\ OneEdit

(* A non-empty set of naturals has its minimum.                            *)
LEMMA MinNat == ASSUME NEW S \in SUBSET Nat, S # {} PROVE Min(S) \in S /\ \A y \in S : Min(S) <= y
<1> DEFINE R == {ss \in Nat \X Nat : ss[1] < ss[2]}
<1>0. OpToRel(<, Nat) = R
  BY Zenon DEF OpToRel
<1>1. IsWellFoundedOn(R, Nat)
  BY <1>0, NatLessThanWellFounded
<1> HIDE DEF R
<1>2. PICK x \in S : \A y \in S : ~(<<y, x>> \in R)
  BY <1>1, WFMin
<1>3. \A y \in S : y < x => <<y, x>> \in R
  BY DEF R
<1>4. \A y \in S : x <= y
  <2> TAKE y \in S
  <2>1. x \in Nat /\ y \in Nat /\ ~(y < x)
    BY <1>2, <1>3
  <2> QED BY <2>1
<1> QED BY <1>4 DEF Min

(* RemoveAt takes out one position and moves up what follows.              *)
LEMMA RemoveAtFacts == ASSUME NEW S, NEW s \in Seq(S), NEW k \in 1..Len(s)
  PROVE  /\ RemoveAt(s, k) \in Seq(S) /\ Len(RemoveAt(s, k)) = Len(s) - 1
         /\ \A j \in 1..Len(s)-1 : RemoveAt(s,k)[j] = IF j < k THEN s[j] ELSE s[j+1]
<1> DEFINE a == SubSeq(s, 1, k-1)
           b == SubSeq(s, k+1, Len(s))
<1>1. a \in Seq(S) /\ Len(a) = k-1 /\ \A j \in 1..k-1 : a[j] = s[j]
  OBVIOUS
<1>2. b \in Seq(S) /\ Len(b) = Len(s)-k /\ \A j \in 1..Len(s)-k : b[j] = s[k+j]
  OBVIOUS
<1>3. RemoveAt(s, k) = a \o b BY DEF RemoveAt
<1> HIDE DEF a, b
<1>4. a \o b \in Seq(S) /\ Len(a \o b) = Len(a) + Len(b) BY <1>1, <1>2, ConcatProperties
<1>5. \A j \in 1..Len(s)-1 : (a \o b)[j] = IF j <= Len(a) THEN a[j] ELSE b[j - Len(a)] BY <1>1, <1>2
<1>6. Len(s) \in Nat OBVIOUS
<1>7. \A j \in 1..Len(s)-1 : (a \o b)[j] = IF j < k THEN s[j] ELSE s[j+1]
  <2> TAKE j \in 1..Len(s)-1
  <2>1. CASE j < k BY <1>1, <1>5, <1>6, <2>1
  <2>2. CASE ~(j < k) 
    <3>1. j - (k-1) \in 1..Len(s)-k BY <1>6, <2>2
    <3>2. b[j - (k-1)] = s[k + (j - (k-1))] BY <1>2, <3>1
    <3>3. k + (j-(k-1)) = j + 1 OBVIOUS
    <3>4. ~(j <= Len(a)) /\ Len(a) = k-1 BY <1>1, <2>2
    <3>5. (a \o b)[j] = b[j - (k-1)] BY <1>5, <3>4
    <3> QED BY <2>2, <3>5, <3>2, <3>3
  <2> QED BY <2>1, <2>2
<1> QED BY <1>1, <1>2, <1>3, <1>4, <1>6, <1>7

(* RemoveFirst takes out one occurrence, or nothing when there is none.    *)
LEMMA RemoveFirstFacts ==
    ASSUME NEW S, NEW s \in Seq(S), NEW e
    PROVE  \/ e \notin Range(s) /\ RemoveFirst(s, e) = s
           \/ \E k \in 1..Len(s) : s[k] = e /\ RemoveFirst(s, e) = RemoveAt(s, k)
<1> DEFINE I == {i \in 1..Len(s) : s[i] = e}
<1>1. CASE I = {}
  <2>1. ~\E i \in 1..Len(s) : s[i] = e
    BY <1>1
  <2>2. e \notin Range(s)
    BY <2>1 DEF Range
  <2>3. RemoveFirst(s, e) = s
    BY <2>1, Zenon DEF RemoveFirst
  <2> QED BY <2>2, <2>3
<1>2. CASE I # {}
  <2>0. I \in SUBSET Nat
    OBVIOUS
  <2>1. Min(I) \in I
    BY <1>2, <2>0, MinNat
  <2>2. SelectInSeq(s, LAMBDA v : v = e) = Min(I)
    BY <1>2 DEF SelectInSeq
  <2>3. RemoveFirst(s, e) = RemoveAt(s, Min(I))
    BY <1>2, <2>2 DEF RemoveFirst
  <2> QED BY <2>1, <2>3
<1> QED BY <1>1, <1>2

(* What an edit makes of the images: all are still there, in their order,  *)
(* but for one that may have become the last, and none but the last one is *)
(* new.                                                                    *)
State == [images: Seq(Image), error: BOOLEAN]

Follows(s, g) ==
    /\ \E pos \in [1..Len(s) -> 1..Len(g)] :
           /\ \A m \in 1..Len(s) : g[pos[m]] = s[m]
           /\ \A m, n \in 1..Len(s) : m < n => pos[m] < pos[n] \/ pos[m] = Len(g)
    /\ \A a \in 1..Len(g)-1 : g[a] \in Range(s)

LEMMA NotedFacts ==
    ASSUME NEW f \in State, Distinct(f.images)
    PROVE  /\ Noted(f) \in State /\ Distinct(Noted(f).images)
           /\ Follows(f.images, Noted(f).images)
<1> DEFINE s == f.images
           pos == [m \in 1..Len(s) |-> m]
<1>0. s \in Seq(Image) /\ Noted(f) \in State /\ Noted(f).images = s
  BY DEF State, Noted
<1>1. s \in Seq(Image) /\ Len(s) \in Nat /\ Noted(f) \in State /\ Noted(f).images = s
  BY <1>0, LenProperties
<1>2. /\ pos \in [1..Len(s) -> 1..Len(s)] /\ \A m \in 1..Len(s) : s[pos[m]] = s[m]
      /\ \A m, n \in 1..Len(s) : m < n => pos[m] < pos[n] \/ pos[m] = Len(s)
  BY <1>1
<1>3. \A a \in 1..Len(s)-1 : s[a] \in Range(s)
  BY <1>1 DEF Range
<1> HIDE DEF pos
<1> QED BY <1>1, <1>2, <1>3 DEF Follows

LEMMA RecordedFacts ==
    ASSUME NEW f \in State, Distinct(f.images), NEW image \in Image
    PROVE  /\ Recorded(f, image) \in State /\ Distinct(Recorded(f, image).images)
           /\ Follows(f.images, Recorded(f, image).images)
<1> DEFINE s == f.images
           r == RemoveFirst(s, image)
           g == Append(r, image)
<1>1. s \in Seq(Image) /\ Len(s) \in Nat /\ DOMAIN s = 1..Len(s)
  BY DEF State
<1>2. Recorded(f, image).images = g
  BY DEF State, Recorded
<1>3. CASE image \notin Range(s) /\ r = s
  <2> DEFINE pos == [m \in 1..Len(s) |-> m]
  <2>1. /\ g \in Seq(Image) /\ Len(g) = Len(s) + 1 /\ g[Len(s) + 1] = image
        /\ \A j \in 1..Len(s) : g[j] = s[j]
    BY <1>1, <1>3
  <2>2. Recorded(f, image) \in State
    BY <2>1 DEF State, Recorded
  <2> HIDE DEF g, s
  <2>3. \A j \in 1..Len(s) : s[j] \in Range(s)
    BY <1>1 DEF Range
  <2>4. Distinct(g)
    <3> SUFFICES ASSUME NEW a \in 1..Len(s)+1, NEW b \in 1..Len(s)+1, g[a] = g[b] PROVE a = b
      BY <1>1, <2>1 DEF Distinct
    <3>1. CASE a \in 1..Len(s) /\ b \in 1..Len(s)
      BY <1>1, <2>1, <3>1 DEF Distinct, s
    <3>2. CASE a = Len(s) + 1 \/ b = Len(s) + 1
      BY <1>1, <1>3, <2>1, <2>3, <3>2
    <3> QED BY <1>1, <3>1, <3>2
  <2>5. /\ pos \in [1..Len(s) -> 1..Len(g)] /\ \A m \in 1..Len(s) : g[pos[m]] = s[m]
        /\ \A m, n \in 1..Len(s) : m < n => pos[m] < pos[n] \/ pos[m] = Len(g)
    BY <1>1, <2>1
  <2>6. \A a \in 1..Len(g)-1 : g[a] \in Range(s)
    BY <1>1, <2>1, <2>3
  <2> HIDE DEF pos
  <2>7. Follows(s, g)
    BY <2>5, <2>6 DEF Follows
  <2> QED BY <1>2, <2>2, <2>4, <2>7 DEF s
<1>4. ASSUME NEW k \in 1..Len(s), s[k] = image, r = RemoveAt(s, k)
      PROVE  /\ Recorded(f, image) \in State /\ Distinct(g) /\ Follows(s, g)
  <2> DEFINE pos == [m \in 1..Len(s) |-> IF m < k THEN m ELSE IF m = k THEN Len(s) ELSE m - 1]
             at(j) == IF j < k THEN j ELSE j + 1
  <2>1. /\ r \in Seq(Image) /\ Len(r) = Len(s) - 1
        /\ \A j \in 1..Len(s)-1 : r[j] = IF j < k THEN s[j] ELSE s[j + 1]
    BY <1>1, <1>4, RemoveAtFacts
  <2> HIDE DEF r
  <2>2. /\ g \in Seq(Image) /\ Len(g) = Len(s) /\ g[Len(s)] = image
        /\ \A j \in 1..Len(s)-1 : g[j] = r[j]
    BY <1>1, <2>1
  <2>3. Recorded(f, image) \in State
    BY <2>2 DEF State, Recorded, r
  <2> HIDE DEF g, s
  <2>4. \A j \in 1..Len(s)-1 : g[j] = s[at(j)] /\ at(j) \in 1..Len(s) /\ at(j) # k
    BY <1>1, <2>1, <2>2
  <2>5. \A i, j \in 1..Len(s) : s[i] = s[j] => i = j
    BY <1>1 DEF Distinct, s
  <2>6. Distinct(g)
    <3> SUFFICES ASSUME NEW a \in 1..Len(s), NEW b \in 1..Len(s), g[a] = g[b] PROVE a = b
      BY <1>1, <2>2 DEF Distinct
    <3>1. CASE a \in 1..Len(s)-1 /\ b \in 1..Len(s)-1
      <4>1. s[at(a)] = s[at(b)] /\ at(a) \in 1..Len(s) /\ at(b) \in 1..Len(s)
        BY <2>4, <3>1
      <4>2. at(a) = at(b)
        BY <2>5, <4>1
      <4> QED BY <3>1, <4>2
    <3>2. CASE a = Len(s) /\ b \in 1..Len(s)-1
      BY <1>4, <2>2, <2>4, <2>5, <3>2
    <3>3. CASE b = Len(s) /\ a \in 1..Len(s)-1
      BY <1>4, <2>2, <2>4, <2>5, <3>3
    <3>4. \A z \in Nat : \A x \in 1..z : x \in 1..z-1 \/ x = z
      OBVIOUS
    <3>5. Len(s) \in Nat
      BY <1>1
    <3> QED BY <3>1, <3>2, <3>3, <3>4, <3>5
  <2>7. /\ pos \in [1..Len(s) -> 1..Len(g)]
        /\ \A m, n \in 1..Len(s) : m < n => pos[m] < pos[n] \/ pos[m] = Len(g)
    <3>1. \A x \in Nat : k \in 1..x => \A m \in 1..x :
              (IF m < k THEN m ELSE IF m = k THEN x ELSE m - 1) \in 1..x
      OBVIOUS
    <3>2. \A m \in 1..Len(s) : pos[m] \in 1..Len(s)
      BY <1>1, <3>1
    <3>3. ASSUME NEW m \in 1..Len(s), NEW n \in 1..Len(s), m < n
          PROVE  pos[m] < pos[n] \/ pos[m] = Len(s)
      <4>1. pos[m] = (IF m < k THEN m ELSE IF m = k THEN Len(s) ELSE m - 1)
        OBVIOUS
      <4>2. pos[n] = (IF n < k THEN n ELSE IF n = k THEN Len(s) ELSE n - 1)
        OBVIOUS
      <4> HIDE DEF pos
      <4>3. \A z \in Nat : k \in 1..z => \A x, y \in 1..z : x < y =>
                \/ (IF x < k THEN x ELSE IF x = k THEN z ELSE x - 1)
                       < (IF y < k THEN y ELSE IF y = k THEN z ELSE y - 1)
                \/ (IF x < k THEN x ELSE IF x = k THEN z ELSE x - 1) = z
        OBVIOUS
      <4>4. Len(s) \in Nat
        BY <1>1
      <4> QED BY <3>3, <4>1, <4>2, <4>3, <4>4
    <3> QED BY <2>2, <3>2, <3>3
  <2>8. ASSUME NEW m \in 1..Len(s) PROVE g[pos[m]] = s[m]
    <3>1. CASE m = k
      BY <1>1, <1>4, <2>2, <3>1
    <3>2. CASE m < k
      <4>1. pos[m] = m /\ m \in 1..Len(s)-1 /\ at(m) = m
        BY <1>1, <3>2
      <4> QED BY <2>4, <4>1
    <3>3. CASE m > k
      <4>1. pos[m] = m - 1 /\ m - 1 \in 1..Len(s)-1 /\ at(m - 1) = m
        BY <1>1, <3>3
      <4> QED BY <2>4, <4>1
    <3> QED BY <1>1, <3>1, <3>2, <3>3
  <2>9. \A a \in 1..Len(g)-1 : g[a] \in Range(s)
    BY <1>1, <2>2, <2>4 DEF Range
  <2> HIDE DEF pos
  <2>10. Follows(s, g)
    BY <2>7, <2>8, <2>9 DEF Follows
  <2> QED BY <2>3, <2>6, <2>10
<1>5. \/ image \notin Range(s) /\ r = s
      \/ \E k \in 1..Len(s) : s[k] = image /\ r = RemoveAt(s, k)
  BY <1>1, RemoveFirstFacts, Zenon
<1> QED BY <1>2, <1>3, <1>4, <1>5

(* The images that are left when the first k are gone.                     *)
LEMMA WithoutFacts ==
    ASSUME NEW h \in State, NEW k \in 0..Len(h.images)
    PROVE  /\ Without(h, k) \in State /\ Without(h, k).images \in Seq(Image)
           /\ Len(Without(h, k).images) = Len(h.images) - k
           /\ \A j \in 1..Len(h.images)-k : Without(h, k).images[j] = h.images[k + j]
           /\ Without(h, k).error = h.error
<1> DEFINE g == h.images
           t == SubSeq(g, k + 1, Len(g))
<1>1. g \in Seq(Image) /\ Len(g) \in Nat
  BY DEF State
<1>2. t \in Seq(Image) /\ Len(t) = Len(g) - k /\ \A j \in 1..Len(g)-k : t[j] = g[k + j]
  BY <1>1
<1> HIDE DEF t
<1>3. Without(h, k) = [h EXCEPT !.images = t]
  BY Zenon DEF Without, t
<1>4. Without(h, k).images = t /\ Without(h, k).error = h.error /\ Without(h, k) \in State
  BY <1>2, <1>3 DEF State
<1> QED BY <1>2, <1>4

(* save drops the first images, as few as will do.                         *)
LEMMA TrimmedFacts ==
    ASSUME NEW h \in State
    PROVE  \E k \in 0..Len(h.images) :
               /\ Trimmed(h) = Without(h, k)
               /\ k = Len(h.images) \/ Fits(Trimmed(h))
               /\ k > 0 => ~Fits(Without(h, k - 1))
<1> DEFINE E == Enough(h)
<1>1. h.images \in Seq(Image) /\ Len(h.images) \in Nat
  BY DEF State
<1>2. E \in SUBSET Nat /\ Len(h.images) \in E
  BY <1>1 DEF Enough
<1>3. Min(E) \in E /\ \A y \in E : Min(E) <= y
  BY <1>2, MinNat
<1>4. Trimmed(h) = Without(h, Min(E))
  BY DEF Trimmed
<1>5. Min(E) \in 0..Len(h.images) /\ (Min(E) = Len(h.images) \/ Fits(Without(h, Min(E))))
  BY <1>3 DEF Enough
<1>6. ASSUME Min(E) > 0 PROVE ~Fits(Without(h, Min(E) - 1))
  <2>1. Min(E) - 1 \notin E /\ Min(E) - 1 \in 0..Len(h.images)
    BY <1>1, <1>3, <1>5, <1>6
  <2> QED BY <2>1 DEF Enough
<1> HIDE DEF E
<1> QED BY <1>4, <1>5, <1>6

(* So what is saved has its type, fits if it has an image at all, and has  *)
(* each image once.                                                        *)
LEMMA SavedFacts ==
    ASSUME NEW h \in State, Distinct(h.images)
    PROVE  /\ Trimmed(h) \in State /\ Distinct(Trimmed(h).images)
           /\ Fits(Trimmed(h)) \/ Trimmed(h).images = <<>>
<1>1. PICK k \in 0..Len(h.images) :
          Trimmed(h) = Without(h, k) /\ (k = Len(h.images) \/ Fits(Trimmed(h)))
  BY TrimmedFacts
<1> DEFINE g == h.images
           t == Trimmed(h).images
<1>2. g \in Seq(Image) /\ Len(g) \in Nat /\ DOMAIN g = 1..Len(g)
  BY DEF State
<1>3. /\ Trimmed(h) \in State /\ t \in Seq(Image) /\ Len(t) = Len(g) - k
      /\ \A j \in 1..Len(g)-k : t[j] = g[k + j]
  BY <1>1, WithoutFacts
<1> HIDE DEF t
<1>4. Distinct(t)
  <2> SUFFICES ASSUME NEW a \in 1..Len(t), NEW b \in 1..Len(t), t[a] = t[b] PROVE a = b
    BY <1>3 DEF Distinct
  <2>1. k + a \in DOMAIN g /\ k + b \in DOMAIN g /\ g[k + a] = g[k + b]
    BY <1>2, <1>3
  <2>2. k + a = k + b
    BY <2>1 DEF Distinct
  <2> QED BY <1>3, <2>2
<1>5. k = Len(g) => t = <<>>
  BY <1>2, <1>3
<1> QED BY <1>1, <1>3, <1>4, <1>5 DEF t

(* And an edit loses, of what was recorded, the oldest images only, and    *)
(* none that would have fitted.                                            *)
LEMMA LimitTakes ==
    ASSUME NEW f \in State, NEW h \in State, Distinct(h.images), Follows(f.images, h.images),
           Range(f.images) \ Range(Trimmed(h).images) # {}
    PROVE  /\ \A m, n \in DOMAIN f.images :
                  m < n /\ f.images[n] \notin Range(Trimmed(h).images) =>
                      \/ f.images[m] \notin Range(Trimmed(h).images)
                      \/ f.images[m] = Last(Trimmed(h).images)
           /\ \E i \in (IF Trimmed(h).images = <<>> THEN Image
                        ELSE Range(f.images) \ Range(Trimmed(h).images)) :
                  ~Fits([Trimmed(h) EXCEPT !.images = <<i>> \o @])
<1>1. PICK k \in 0..Len(h.images) :
          Trimmed(h) = Without(h, k) /\ (k > 0 => ~Fits(Without(h, k - 1)))
  BY TrimmedFacts
<1> DEFINE s == f.images
           g == h.images
           t == Trimmed(h).images
<1>2. /\ s \in Seq(Image) /\ Len(s) \in Nat /\ DOMAIN s = 1..Len(s)
      /\ g \in Seq(Image) /\ Len(g) \in Nat /\ DOMAIN g = 1..Len(g)
  BY DEF State
<1>3. /\ Trimmed(h) \in State /\ t \in Seq(Image) /\ Len(t) = Len(g) - k /\ DOMAIN t = 1..Len(t)
      /\ \A j \in 1..Len(g)-k : t[j] = g[k + j]
      /\ Trimmed(h).error = h.error
  <2>1. Without(h, k).images \in Seq(Image) => DOMAIN Without(h, k).images = 1..Len(Without(h, k).images)
    OBVIOUS
  <2> QED BY <1>1, <2>1, WithoutFacts
<1>4. PICK pos \in [1..Len(s) -> 1..Len(g)] :
          /\ \A m \in 1..Len(s) : g[pos[m]] = s[m]
          /\ \A m, n \in 1..Len(s) : m < n => pos[m] < pos[n] \/ pos[m] = Len(g)
  BY DEF Follows
<1>5. \A a \in 1..Len(g)-1 : g[a] \in Range(s)
  BY DEF Follows
<1>6. \A a, b \in 1..Len(g) : g[a] = g[b] => a = b
  BY <1>2 DEF Distinct
<1>7. ASSUME NEW a \in 1..Len(g) PROVE g[a] \in Range(t) <=> a > k
  <2>1. ASSUME a > k PROVE g[a] \in Range(t)
    <3>1. a - k \in 1..Len(g)-k /\ k + (a - k) = a
      BY <1>2, <2>1
    <3>2. t[a - k] = g[a] /\ a - k \in DOMAIN t
      BY <1>3, <3>1
    <3> QED BY <3>2 DEF Range
  <2>2. ASSUME g[a] \in Range(t) PROVE a > k
    <3>1. PICK j \in 1..Len(t) : g[a] = t[j]
      BY <1>3, <2>2 DEF Range
    <3>2. k + j \in 1..Len(g) /\ g[a] = g[k + j]
      BY <1>2, <1>3, <3>1
    <3>3. a = k + j
      BY <1>6, <3>2
    <3> QED BY <1>2, <1>3, <3>1, <3>3
  <2> QED BY <2>1, <2>2
<1> HIDE DEF s, g, t
<1>8. ASSUME NEW m \in 1..Len(s), NEW n \in 1..Len(s), m < n, s[n] \notin Range(t)
      PROVE  s[m] \notin Range(t) \/ s[m] = Last(t)
  <2>1. pos[m] \in 1..Len(g) /\ pos[n] \in 1..Len(g) /\ s[m] = g[pos[m]] /\ s[n] = g[pos[n]]
    BY <1>4
  <2>2. pos[n] <= k
    BY <1>2, <1>7, <1>8, <2>1
  <2>3. CASE pos[m] < pos[n]
    BY <1>2, <1>7, <2>1, <2>2, <2>3
  <2>4. CASE pos[m] = Len(g) /\ Len(t) = 0
    BY <1>2, <1>3, <1>7, <2>1, <2>4
  <2>5. CASE pos[m] = Len(g) /\ Len(t) # 0
    <3>1. Len(t) \in 1..Len(g)-k /\ k + Len(t) = Len(g)
      <4>1. Len(g) \in Nat /\ k \in Nat /\ Len(t) = Len(g) - k /\ Len(t) \in Nat /\ Len(t) # 0
        <5>1. t \in Seq(Image) => Len(t) \in Nat
          BY LenProperties
        <5>2. k \in Nat
          BY <1>2 DEF g
        <5> QED BY <1>2, <1>3, <2>5, <5>1, <5>2
      <4> QED BY <4>1
    <3>2. t[Len(t)] = g[Len(g)]
      BY <1>3, <3>1
    <3> QED BY <2>1, <2>5, <3>2 DEF Last
  <2> QED BY <1>4, <1>8, <2>3, <2>4, <2>5
<1>9. k > 0
  <2>1. PICK m \in 1..Len(s) : s[m] \notin Range(t)
    BY <1>2 DEF Range, s, t
  <2>2. pos[m] \in 1..Len(g) /\ s[m] = g[pos[m]]
    BY <1>4
  <2> QED BY <1>2, <1>7, <2>1, <2>2
<1>10. k \in 1..Len(g) /\ g[k] \in Image
  BY <1>2, <1>9 DEF g
<1>11. [Trimmed(h) EXCEPT !.images = <<g[k]>> \o @] = Without(h, k - 1)
  <2> DEFINE w == Without(h, k - 1)
  <2>1. /\ w \in State /\ w.images \in Seq(Image) /\ Len(w.images) = Len(g) - (k - 1)
        /\ \A j \in 1..Len(g)-(k - 1) : w.images[j] = g[(k - 1) + j]
        /\ w.error = h.error
    <3>1. k - 1 \in 0..Len(h.images)
      BY <1>2, <1>10 DEF g
    <3> QED BY <3>1, WithoutFacts DEF g
  <2> HIDE DEF w
  <2> DEFINE c == <<g[k]>> \o t
  <2>2. /\ c \in Seq(Image) /\ Len(c) = 1 + Len(t)
        /\ \A j \in 1..1+Len(t) : c[j] = IF j = 1 THEN g[k] ELSE t[j - 1]
    <3>1. <<g[k]>> \in Seq(Image) /\ Len(<<g[k]>>) = 1 /\ <<g[k]>>[1] = g[k]
      BY <1>10
    <3> DEFINE o == <<g[k]>>
    <3> HIDE DEF o
    <3>2. /\ o \o t \in Seq(Image) /\ Len(o \o t) = Len(o) + Len(t)
          /\ \A j \in 1..Len(o)+Len(t) : (o \o t)[j] = IF j <= Len(o) THEN o[j] ELSE t[j - Len(o)]
      BY <1>3, <3>1, ConcatProperties DEF o
    <3>3. Len(o) = 1 /\ o[1] = g[k] /\ c = o \o t /\ Len(t) \in Nat
      BY <1>3, <3>1, LenProperties DEF o
    <3> HIDE DEF c
    <3>4. \A j \in 1..1+Len(t) : j <= 1 <=> j = 1
      BY <3>3
    <3> QED BY <3>2, <3>3, <3>4
  <2> HIDE DEF c
  <2>3. Len(c) = Len(w.images) /\ \A j \in 1..Len(c) : c[j] = w.images[j]
    <3>1. Len(c) = Len(w.images) /\ Len(c) = Len(g) - (k - 1)
      BY <1>2, <1>3, <2>1, <2>2
    <3>2. ASSUME NEW j \in 1..Len(c), j # 1 PROVE c[j] = w.images[j]
      <4>0. j \in 1..Len(g)-(k - 1) /\ j # 1 /\ Len(g) \in Nat /\ k \in Nat
        BY <1>2, <3>1, <3>2
      <4>1. j - 1 \in 1..Len(g)-k /\ k + (j - 1) = (k - 1) + j
        BY <4>0
      <4>2. c[j] = t[j - 1]
        BY <2>2, <3>2
      <4>3. t[j - 1] = g[(k - 1) + j]
        BY <1>3, <4>1
      <4>4. w.images[j] = g[(k - 1) + j]
        BY <2>1, <4>0
      <4> QED BY <4>2, <4>3, <4>4
    <3>3. c[1] = w.images[1]
      <4>1. 1 \in 1..Len(g)-(k - 1) /\ (k - 1) + 1 = k
        BY <1>2, <1>10
      <4>2. c[1] = g[k]
        BY <1>2, <1>3, <2>2
      <4> QED BY <2>1, <4>1, <4>2
    <3> QED BY <3>1, <3>2, <3>3
  <2>4. c = w.images
    BY <2>1, <2>2, <2>3, SeqEqual
  <2>5. [Trimmed(h) EXCEPT !.images = <<g[k]>> \o @] = [Trimmed(h) EXCEPT !.images = c]
    BY Zenon DEF c, t
  <2>6. [Trimmed(h) EXCEPT !.images = w.images] = w
    BY <1>3, <2>1 DEF State
  <2> QED BY <2>4, <2>5, <2>6 DEF w
<1>12. ~Fits([Trimmed(h) EXCEPT !.images = <<g[k]>> \o @])
  BY <1>1, <1>9, <1>11
<1>13. t # <<>> => g[k] \in Range(s) \ Range(t)
  <2> SUFFICES ASSUME t # <<>> PROVE g[k] \in Range(s) \ Range(t)
    OBVIOUS
  <2>1. Len(t) # 0
    BY <1>3
  <2>2. k \in 1..Len(g)-1
    <3>1. Len(g) \in Nat /\ k \in 1..Len(g) /\ Len(g) - k # 0
      BY <1>2, <1>3, <1>10, <2>1
    <3> QED BY <3>1
  <2> QED BY <1>2, <1>5, <1>7, <1>10, <2>2
<1> QED BY <1>2, <1>8, <1>10, <1>12, <1>13 DEF s, t

(* Nothing runs to begin with.                                             *)
LEMMA WorkInvInit == WorkInit => WorkInv
<1> SUFFICES ASSUME WorkInit PROVE WorkInv
  OBVIOUS
<1> USE WorkAssumption DEF WorkInit, Empty, Task
<1>1. <<>> \in Seq(Image) /\ <<>> \in Seq(Task)
  OBVIOUS
<1>2. stateFile.images = <<>> /\ {stateFile, hand} \subseteq [images: Seq(Image), error: BOOLEAN]
  BY <1>1
<1>3. WorkType
  BY <1>1, <1>2 DEF WorkType
<1> QED BY <1>3 DEF WorkInv, Queued, Kinds, Held, OneEdit, Distinct

(* The queue through what its tasks do: a task that is not in it moves,    *)
(* one comes last, one is taken back, the first gets a thread.             *)
LEMMA QueueKept ==
    ASSUME WorkInv, NEW t \in Task, work[t] # "queued", NEW s, Moves(t, s), UNCHANGED queue
    PROVE  Queued'
<1>1. \A k \in 1..Len(queue) : queue[k] \in Task /\ queue[k] # t
  BY DEF WorkInv, WorkType, Queued
<1> QED BY <1>1 DEF WorkInv, WorkType, Queued, Moves

LEMMA QueueGrows ==
    ASSUME WorkInv, NEW t \in Task, Submit(t)
    PROVE  Queued' /\ queue' \in Seq(Task)
<1>1. queue \in Seq(Task) /\ Len(queue) \in Nat
  BY DEF WorkInv, WorkType
<1>2. \A k \in 1..Len(queue) : queue[k] \in Task /\ queue[k] # t
  BY DEF WorkInv, WorkType, Queued, Submit
<1>3. /\ queue' \in Seq(Task) /\ Len(queue') = Len(queue) + 1 /\ queue'[Len(queue) + 1] = t
      /\ \A k \in 1..Len(queue) : queue'[k] = queue[k]
  BY <1>1 DEF Submit
<1>4. \A k \in 1..Len(queue') : k \in 1..Len(queue) \/ k = Len(queue) + 1
  BY <1>1, <1>3
<1>5. work' = [work EXCEPT ![t] = "queued"] /\ DOMAIN work = Task
  BY DEF Submit, Moves, WorkInv, WorkType
<1>6. ASSUME NEW k \in 1..Len(queue') PROVE work'[queue'[k]] = "queued"
  BY <1>2, <1>3, <1>4, <1>5 DEF WorkInv, Queued
<1>7. ASSUME NEW k \in 1..Len(queue'), NEW l \in 1..Len(queue'), queue'[k] = queue'[l] PROVE k = l
  BY <1>2, <1>3, <1>4, <1>7 DEF WorkInv, Queued
<1> QED BY <1>3, <1>6, <1>7 DEF Queued

LEMMA QueueShrinks ==
    ASSUME WorkInv, NEW i \in 1..Len(queue), queue' = RemoveAt(queue, i), NEW s, Moves(queue[i], s)
    PROVE  Queued' /\ queue' \in Seq(Task)
<1>1. queue \in Seq(Task) /\ Len(queue) \in Nat /\ queue[i] \in Task
  BY DEF WorkInv, WorkType
<1>2. /\ queue' \in Seq(Task) /\ Len(queue') = Len(queue) - 1
      /\ \A j \in 1..Len(queue)-1 : queue'[j] = IF j < i THEN queue[j] ELSE queue[j + 1]
  BY <1>1, RemoveAtFacts
<1>3. work' = [work EXCEPT ![queue[i]] = s] /\ DOMAIN work = Task
  BY DEF Moves, WorkInv, WorkType
<1> DEFINE at(j) == IF j < i THEN j ELSE j + 1
<1>4. \A j \in 1..Len(queue') : at(j) \in 1..Len(queue) /\ at(j) # i /\ queue'[j] = queue[at(j)]
  BY <1>1, <1>2
<1>5. \A j, l \in 1..Len(queue') : at(j) = at(l) => j = l
  BY <1>1, <1>2
<1> HIDE DEF at
<1>6. ASSUME NEW j \in 1..Len(queue') PROVE work'[queue'[j]] = "queued"
  <2>1. queue'[j] \in Task /\ queue'[j] # queue[i] /\ work[queue'[j]] = "queued"
    BY <1>1, <1>4 DEF WorkInv, Queued
  <2> QED BY <1>3, <2>1
<1>7. ASSUME NEW j \in 1..Len(queue'), NEW l \in 1..Len(queue'), queue'[j] = queue'[l] PROVE j = l
  BY <1>4, <1>5, <1>7 DEF WorkInv, Queued
<1> QED BY <1>2, <1>6, <1>7 DEF Queued

(* A task that gets a thread was in the queue, with no thread.             *)
LEMMA Taken ==
    ASSUME WorkInv, NEW t, GetsThread(t), NEW s, Moves(t, s)
    PROVE  work[t] = "queued" /\ Queued' /\ queue' \in Seq(Task)
<1>1. queue \in Seq(Task) /\ Len(queue) \in Nat /\ queue # <<>> /\ queue' = Tail(queue) /\ t = queue[1]
  BY DEF WorkInv, WorkType, GetsThread
<1>2. 1 \in 1..Len(queue)
  BY <1>1
<1>3. RemoveAt(queue, 1) = Tail(queue)
  <2>1. SubSeq(queue, 1, 1-1) = <<>>
    BY <1>1
  <2>2. SubSeq(queue, 1+1, Len(queue)) = Tail(queue)
    BY <1>1
  <2>3. <<>> \o Tail(queue) = Tail(queue)
    BY <1>1
  <2> QED BY <2>1, <2>2, <2>3 DEF RemoveAt
<1>4. work[t] = "queued"
  BY <1>1, <1>2 DEF WorkInv, Queued
<1>5. queue' = RemoveAt(queue, 1) /\ Moves(queue[1], s)
  BY <1>1, <1>3
<1> QED BY <1>2, <1>4, <1>5, QueueShrinks

(* The file is as it was when neither it nor its lock is touched.          *)
LEMMA EditKept ==
    WorkInv /\ UNCHANGED <<stateFile, hand, blind, stateLock>> => OneEdit'
BY DEF WorkInv, OneEdit

(* Every step, of a thread, a handler, a job or the process, keeps all of  *)
(* it.                                                                     *)
LEMMA WorkInvNext == WorkInv /\ [WorkNext]_workVars => WorkInv'
<1> SUFFICES ASSUME WorkInv, [WorkNext]_workVars PROVE WorkInv'
  OBVIOUS
<1> USE WorkAssumption DEF Task
<1> DEFINE Rest == /\ WorkType' /\ Kinds' /\ Held'
<1>0. \A t \in Task : work[t] \in {"idle", "queued", "check", "wait", "pull", "bare", "record",
                           "note", "save", "solve", "measure", "sweep", "hung"}
  BY DEF WorkInv, WorkType
<1>1. ASSUME NEW t \in Task, Submit(t) PROVE WorkInv'
  <2>1. Queued' /\ queue' \in Seq(Task)
    BY <1>1, QueueGrows
  <2>2. Rest
    BY <1>1, <2>1 DEF Submit, Moves, WorkInv, WorkType, Kinds, Held, locks
  <2> QED BY <1>1, <2>1, <2>2, EditKept DEF WorkInv, Submit, locks
<1>2. ASSUME NEW t \in Task, GivesUp(t) PROVE WorkInv'
  <2>1. Queued' /\ queue' \in Seq(Task)
    <3>1. queue \in Seq(Task) /\ queue' = RemoveFirst(queue, t) /\ Moves(t, "idle")
      BY <1>2 DEF GivesUp, WorkInv, WorkType
    <3>2. CASE t \notin Range(queue) /\ queue' = queue
      <4>1. \A k \in 1..Len(queue) : queue[k] \in Task /\ queue[k] # t
        BY <3>1, <3>2 DEF Range
      <4> QED BY <3>1, <3>2, <4>1 DEF WorkInv, WorkType, Queued, Moves
    <3>3. ASSUME NEW k \in 1..Len(queue), queue[k] = t, queue' = RemoveAt(queue, k)
          PROVE  Queued' /\ queue' \in Seq(Task)
      BY <3>1, <3>3, QueueShrinks
    <3> QED BY <3>1, <3>2, <3>3, RemoveFirstFacts
  <2>2. Rest
    BY <1>2, <2>1 DEF GivesUp, Moves, WorkInv, WorkType, Kinds, Held, locks
  <2> QED BY <1>2, <2>1, <2>2, EditKept DEF WorkInv, GivesUp, locks
<1>3. ASSUME NEW p \in Prefetch, WarmBegins(p) PROVE WorkInv'
  <2>1. work[p] = "queued" /\ Queued' /\ queue' \in Seq(Task)
    BY <1>3, Taken DEF WarmBegins
  <2>2. Rest
    BY <1>3, <2>1 DEF WarmBegins, Moves, WorkInv, WorkType, Kinds, Held, locks
  <2> QED BY <1>3, <2>1, <2>2, EditKept DEF WorkInv, WarmBegins, locks
<1>4. ASSUME NEW c \in Challenge, ChallengeBegins(c) PROVE WorkInv'
  <2>1. work[c] = "queued" /\ Queued' /\ queue' \in Seq(Task)
    BY <1>4, Taken DEF ChallengeBegins
  <2>2. WorkType' /\ Kinds'
    BY <1>4, <2>1, ZenonT(40) DEF ChallengeBegins, Moves, WorkInv, WorkType, Kinds
  <2>3. Held'
    <3>1. CASE solveLock = Nobody
      BY <1>4, <2>1, <3>1 DEF ChallengeBegins, Moves, WorkInv, WorkType, Kinds, Held
    <3>2. CASE solveLock # Nobody
      <4>1. Moves(c, "idle") /\ work[c] = "queued" /\ UNCHANGED <<locks, job>>
        BY <1>4, <2>1, <3>2 DEF ChallengeBegins, locks
      <4> QED BY <4>1 DEF Moves, WorkInv, WorkType, Kinds, Held, locks
    <3> QED BY <3>1, <3>2
  <2> QED BY <1>4, <2>1, <2>2, <2>3, EditKept DEF WorkInv, ChallengeBegins
<1>5. ASSUME NEW m \in Measure, MeasureBegins(m) PROVE WorkInv'
  <2>1. work[m] = "queued" /\ Queued' /\ queue' \in Seq(Task)
    BY <1>5, Taken DEF MeasureBegins
  <2>2. Rest
    BY <1>5, <2>1 DEF MeasureBegins, Moves, WorkInv, WorkType, Kinds, Held, locks
  <2> QED BY <1>5, <2>1, <2>2, EditKept DEF WorkInv, MeasureBegins, locks
<1>6. CASE SweepBegins
  <2>1. work[Sweep] = "queued" /\ Queued' /\ queue' \in Seq(Task)
    BY <1>6, Taken DEF SweepBegins
  <2>2. Rest
    BY <1>6, <2>1 DEF SweepBegins, Moves, WorkInv, WorkType, Kinds, Held, locks
  <2> QED BY <1>6, <2>1, <2>2, EditKept DEF WorkInv, SweepBegins, locks
<1>7. ASSUME NEW p \in Prefetch, Checked(p) \/ Busy(p) \/ PulledBare(p) PROVE WorkInv'
  <2>1. Queued'
    BY <1>7, QueueKept DEF Checked, Busy, PulledBare
  <2>2. WorkType' /\ Kinds'
    BY <1>7, ZenonT(40) DEF Checked, Busy, PulledBare, Moves, WorkInv, WorkType, Kinds, locks
  <2>3. PICK s \in {"idle", "record", "note", "wait", "bare"} : Moves(p, s)
    BY <1>7 DEF Checked, Busy, PulledBare
  <2>4. Held'
    BY <1>7, <2>3 DEF Checked, Busy, PulledBare, Moves, WorkInv, WorkType, Held, locks
  <2> QED BY <1>7, <2>1, <2>2, <2>4, EditKept DEF WorkInv, Checked, Busy, PulledBare, locks
<1>8. ASSUME NEW p \in Prefetch, Locks(p) \/ Pulled(p) PROVE WorkInv'
  <2>1. Queued'
    BY <1>8, QueueKept DEF Locks, Pulled
  <2>2. WorkType' /\ Kinds'
    <3>1. CASE Locks(p)
      BY <3>1 DEF Locks, Moves, WorkInv, WorkType, Kinds
    <3>2. CASE Pulled(p)
      BY <3>2 DEF Pulled, Moves, WorkInv, WorkType, Kinds
    <3> QED BY <1>8, <3>1, <3>2
  <2>3. CASE Locks(p)
    <3>1. Held'
      BY <2>3 DEF Locks, Moves, WorkInv, WorkType, Held
    <3> QED BY <2>1, <2>2, <2>3, <3>1, EditKept DEF WorkInv, Locks
  <2>4. CASE Pulled(p)
    <3>1. PICK s \in {"record", "note"} : Moves(p, s)
      BY <2>4 DEF Pulled
    <3>2. Held'
      BY <2>4, <3>1 DEF Pulled, Moves, WorkInv, WorkType, Held
    <3> QED BY <2>1, <2>2, <2>4, <3>2, EditKept DEF WorkInv, Pulled
  <2> QED BY <1>8, <2>3, <2>4
<1>9. ASSUME NEW p \in Prefetch, Load(p) \/ LoadFails(p) PROVE WorkInv'
  <2>1. Queued'
    BY <1>9, QueueKept DEF Load, LoadFails
  <2>2. /\ stateFile \in State /\ Distinct(stateFile.images)
        /\ Empty \in State /\ Distinct(Empty.images)
    BY DEF WorkInv, WorkType, OneEdit, State, Empty, Distinct
  <2>3. PICK image \in Image : \/ Load(p) /\ hand' = Edited(p, stateFile, image)
                               \/ LoadFails(p) /\ hand' = Edited(p, Empty, image)
    BY <1>9 DEF Load, LoadFails
  <2>4. \A f : Edited(p, f, image) = Noted(f) \/ Edited(p, f, image) = Recorded(f, image)
    BY DEF Edited, Noted, Recorded
  <2>5. hand' \in State /\ Distinct(hand'.images)
    BY <2>2, <2>3, <2>4, NotedFacts, RecordedFacts
  <2>6. OneEdit'
    BY <1>9, <2>2, <2>3, <2>4, <2>5 DEF Load, LoadFails, OneEdit
  <2>7. /\ work[p] \in {"record", "note"} /\ stateLock = Nobody /\ stateLock' = p
        /\ Moves(p, "save") /\ blind' \in BOOLEAN
        /\ UNCHANGED <<queue, pullLock, solveLock, stateFile, job>>
    BY <1>9 DEF Load, LoadFails
  <2>8. WorkType'
    BY <2>5, <2>7 DEF Moves, WorkInv, WorkType, State
  <2>9. Kinds' /\ Held'
    BY <2>7 DEF Moves, WorkInv, WorkType, Kinds, Held
  <2> QED BY <2>1, <2>6, <2>8, <2>9 DEF WorkInv
<1>10. ASSUME NEW p \in Prefetch, Save(p) PROVE WorkInv'
  <2>1. Queued'
    BY <1>10, QueueKept DEF Save
  <2>2. hand \in State /\ Distinct(hand.images)
    BY DEF WorkInv, WorkType, OneEdit, State
  <2>3. /\ stateFile' \in State /\ Distinct(stateFile'.images)
        /\ Fits(stateFile)' \/ stateFile'.images = <<>>
    <3>1. CASE stateFile' = stateFile
      BY <3>1 DEF WorkInv, WorkType, OneEdit, State
    <3>2. CASE stateFile' = Trimmed(hand)
      BY <2>2, <3>2, SavedFacts
    <3> QED BY <1>10, <3>1, <3>2 DEF Save
  <2>4. hand' \in State /\ Distinct(hand'.images)
    BY <1>10 DEF Save, Empty, State, Distinct
  <2>5. OneEdit'
    BY <1>10, <2>3, <2>4 DEF Save, OneEdit
  <2>6. WorkType'
    BY <1>10, <2>3, <2>4 DEF Save, Moves, WorkInv, WorkType, State
  <2>7. Kinds' /\ Held'
    BY <1>10 DEF Save, Moves, WorkInv, WorkType, Kinds, Held
  <2> QED BY <2>1, <2>5, <2>6, <2>7 DEF WorkInv
<1>11. ASSUME NEW c \in Challenge, SolveSteps(c) PROVE WorkInv'
  <2>1. Queued'
    BY <1>11, QueueKept DEF SolveSteps, ChallengeEnds, Hangs
  <2>2. WorkType' /\ Kinds'
    <3>1. CASE ChallengeEnds(c)
      BY <3>1 DEF ChallengeEnds, Moves, WorkInv, WorkType, Kinds
    <3>2. CASE Hangs(c)
      BY <3>2 DEF Hangs, Moves, WorkInv, WorkType, Kinds, locks
    <3> QED BY <1>11, <3>1, <3>2 DEF SolveSteps
  <2>3. Held'
    <3>1. CASE ChallengeEnds(c)
      BY <3>1 DEF ChallengeEnds, Moves, WorkInv, WorkType, Kinds, Held
    <3>2. CASE Hangs(c)
      BY <3>2 DEF Hangs, Moves, WorkInv, WorkType, Kinds, Held, locks
    <3> QED BY <1>11, <3>1, <3>2 DEF SolveSteps
  <2> QED BY <1>11, <2>1, <2>2, <2>3, EditKept DEF WorkInv, SolveSteps, ChallengeEnds, Hangs, locks
<1>12. ASSUME NEW m \in Measure, MeasureSteps(m) PROVE WorkInv'
  <2>1. Queued'
    BY <1>12, QueueKept DEF MeasureSteps, MeasureEnds, Hangs
  <2>2. WorkType' /\ Kinds'
    <3>1. CASE MeasureEnds(m)
      BY <3>1 DEF MeasureEnds, Moves, WorkInv, WorkType, Kinds, locks
    <3>2. CASE Hangs(m)
      BY <3>2 DEF Hangs, Moves, WorkInv, WorkType, Kinds, locks
    <3> QED BY <1>12, <3>1, <3>2 DEF MeasureSteps
  <2>3. Held'
    BY <1>12 DEF MeasureSteps, MeasureEnds, Hangs, Moves, WorkInv, WorkType, Kinds, Held, locks
  <2> QED BY <1>12, <2>1, <2>2, <2>3, EditKept DEF WorkInv, MeasureSteps, MeasureEnds, Hangs, locks
<1>13. CASE SweepEnds
  <2>1. Queued'
    BY <1>13, QueueKept DEF SweepEnds
  <2>2. Rest
    BY <1>13 DEF SweepEnds, Moves, WorkInv, WorkType, Kinds, Held, locks
  <2> QED BY <1>13, <2>1, <2>2, EditKept DEF WorkInv, SweepEnds, locks
<1>14. ASSUME NEW j \in Job, JobWaits(j) \/ JobLocks(j) \/ JobGivesUp(j) \/ JobPulled(j) PROVE WorkInv'
  <2>1. Queued' /\ Kinds'
    BY <1>14 DEF JobWaits, JobLocks, JobGivesUp, JobPulled, WorkInv, Queued, Kinds
  <2>2. WorkType'
    BY <1>14 DEF JobWaits, JobLocks, JobGivesUp, JobPulled, WorkInv, WorkType, locks
  <2>3. Held'
    BY <1>14 DEF JobWaits, JobLocks, JobGivesUp, JobPulled, WorkInv, WorkType, Held, locks
  <2> QED BY <1>14, <2>1, <2>2, <2>3, EditKept
          DEF WorkInv, JobWaits, JobLocks, JobGivesUp, JobPulled, locks
<1>15. CASE WorkDies
  <2>1. Empty \in State /\ stateFile \in State /\ <<>> \in Seq(Task)
    BY DEF WorkInv, WorkType, State, Empty
  <2>2. WorkType'
    BY <1>15, <2>1 DEF WorkDies, WorkInv, WorkType, State
  <2> QED BY <1>15, <2>2 DEF WorkDies, WorkInv, Queued, Kinds, Held, OneEdit, Empty, Distinct
<1>16. CASE UNCHANGED workVars
  <2> USE <1>16 DEF workVars, locks
  <2>1. WorkType'
    BY DEF WorkInv, WorkType
  <2>2. Queued' /\ Kinds' /\ Held'
    BY DEF WorkInv, Queued, Kinds, Held
  <2> QED BY <2>1, <2>2, EditKept DEF WorkInv
<1> QED
  BY <1>1, <1>2, <1>3, <1>4, <1>5, <1>6, <1>7, <1>8, <1>9, <1>10, <1>11, <1>12, <1>13, <1>14, <1>15,
     <1>16 DEF WorkNext, Begins, WarmSteps

(* Threads and tasks keep to their stages and prefetch.json to its limit.  *)
THEOREM WorkTypeCorrect == WorkSpec => []WorkType
<1>1. WorkInv => WorkType
  BY DEF WorkInv
<1> QED BY <1>1, WorkInvInit, WorkInvNext, PTL DEF WorkSpec

(* PullLock and challenge._lock exclude, however handlers give up, threads *)
(* hang and the process dies, and each that is held has its holder.        *)
THEOREM ExclusiveHolds == WorkSpec => []Exclusive
<1>1. WorkInv => Exclusive
  BY WorkAssumption DEF WorkInv, WorkType, Held, Exclusive
<1> QED BY <1>1, WorkInvInit, WorkInvNext, PTL DEF WorkSpec

(* prefetch.json loses the oldest images only, and none that would have    *)
(* fitted, however prefetches, handlers and deaths interleave, but to a    *)
(* thread that could not read it.                                          *)
THEOREM RecordsKeptHolds == WorkSpec => RecordsKept
<1>1. WorkInv /\ [WorkNext]_workVars =>
         [Lost # {} => blind \/ (OldestGo /\ NoneWouldFit)]_workVars
  <2> SUFFICES ASSUME WorkInv, WorkNext, Lost # {}, ~blind
               PROVE  OldestGo /\ NoneWouldFit
    OBVIOUS
  <2>1. stateFile' # stateFile
    BY DEF Lost
  <2>2. PICK p \in Prefetch : Save(p)
    BY <2>1 DEF WorkNext, Begins, WarmSteps, SolveSteps, MeasureSteps, Submit, GivesUp, WarmBegins,
          ChallengeBegins, MeasureBegins, SweepBegins, Checked, Locks, Busy, Pulled, PulledBare, Load,
          LoadFails, ChallengeEnds, Hangs, MeasureEnds, SweepEnds, JobWaits, JobLocks, JobGivesUp,
          JobPulled, WorkDies
  <2>3. stateLock # Nobody /\ stateFile' = Trimmed(hand)
    BY <2>1, <2>2, WorkAssumption DEF Save, WorkInv, Held
  <2>4. stateFile \in State /\ hand \in State /\ Distinct(stateFile.images) /\ Distinct(hand.images)
    BY DEF WorkInv, WorkType, OneEdit, State
  <2>5. Follows(stateFile.images, hand.images)
    BY <2>3, <2>4, NotedFacts, RecordedFacts DEF WorkInv, OneEdit
  <2>6. Range(stateFile.images) \ Range(Trimmed(hand).images) # {}
    BY <2>3 DEF Lost
  <2>7. OldestGo
    <3>1. \A m, n \in DOMAIN stateFile.images :
              m < n /\ stateFile.images[n] \notin Range(Trimmed(hand).images) =>
                  \/ stateFile.images[m] \notin Range(Trimmed(hand).images)
                  \/ stateFile.images[m] = Last(Trimmed(hand).images)
      BY <2>4, <2>5, <2>6, LimitTakes
    <3>2. \A m \in DOMAIN stateFile.images : stateFile.images[m] \in Range(stateFile.images)
      BY DEF Range
    <3> QED BY <2>3, <3>1, <3>2, Zenon DEF Lost, OldestGo
  <2>8. NoneWouldFit
    <3>1. \E i \in (IF Trimmed(hand).images = <<>> THEN Image
                   ELSE Range(stateFile.images) \ Range(Trimmed(hand).images)) :
              ~Fits([Trimmed(hand) EXCEPT !.images = <<i>> \o @])
      BY <2>4, <2>5, <2>6, LimitTakes
    <3> QED BY <2>3, <3>1, Zenon DEF Lost, NoneWouldFit
  <2> QED BY <2>7, <2>8
<1> QED BY <1>1, WorkInvInit, WorkInvNext, PTL DEF WorkSpec, RecordsKept

=============================================================================
