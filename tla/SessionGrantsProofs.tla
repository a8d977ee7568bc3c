-------------------------- MODULE SessionGrantsProofs --------------------------
(***************************************************************************)
(* Proofs about SessionGrants, for every number of sessions and threads,   *)
(* every window and TTL with the margin, and without bounds on the clock   *)
(* or the number of crashes that would matter: they only appear as guards. *)
(***************************************************************************)
EXTENDS SessionGrants, TLAPS

-----------------------------------------------------------------------------
(* Type correctness.                                                       *)

(* Expiring a table of times leaves a table of times.                      *)
LEMMA ExpireType ==
    ASSUME NEW book \in [Session -> Nat], NEW t
    PROVE  /\ Expire(book, t) \in [Session -> Nat]
           /\ \A s \in Session :
                Expire(book, t)[s] = IF Stale(book[s], t) THEN Absent ELSE book[s]
BY DEF Expire, Absent

(* Every variable of the specification keeps its type.                     *)
LEMMA TypeStep == Type /\ [Next]_vars => Type'
<1> SUFFICES ASSUME Type, [Next]_vars PROVE Type'
  OBVIOUS
<1> USE TimeAssumption
<1>0. AnySession \in Session
  BY SessionAssumption DEF AnySession
<1>1. CASE Tick
  BY <1>1 DEF Type, Tick, openVars, closeVars, sweepVars
<1>2. ASSUME NEW o \in Opener, NEW s \in Session, Receive(o, s) PROVE Type'
  BY <1>2 DEF Type, Receive, closeVars, sweepVars
<1>3. ASSUME NEW o \in Opener, OpenStep(o) PROVE Type'
  <2> USE <1>0 DEF Type, OpenEnds, closeVars, sweepVars
  <2>1. CASE Cancelled(o) BY <2>1 DEF Cancelled
  <2>2. CASE Accept(o)
    BY <2>2, ExpireType DEF Accept
  <2>3. CASE Refuse(o) BY <2>3, ExpireType DEF Refuse
  <2>4. CASE AcceptRaises(o) BY <2>4 DEF AcceptRaises
  <2>5. CASE Install(o) BY <2>5 DEF Install
  <2>6. CASE OpenRaises(o) BY <2>6 DEF OpenRaises
  <2>7. CASE Register(o) BY <2>7 DEF Register
  <2>8. CASE Reply(o) BY <2>8 DEF Reply
  <2>9. CASE ReplyLost(o) BY <2>9 DEF ReplyLost
  <2> QED BY <1>3, <2>1, <2>2, <2>3, <2>4, <2>5, <2>6, <2>7, <2>8, <2>9 DEF OpenStep
<1>4. ASSUME NEW c \in Closer, NEW s \in Session, Matching(c, s) PROVE Type'
  BY <1>4 DEF Type, Matching, openVars, sweepVars
<1>5. ASSUME NEW c \in Closer, CloseStep(c) PROVE Type'
  BY <1>0, <1>5
  DEF Type, CloseStep, CloseRevoke, CloseRaises, ClosePop, CloseEnds, Absent,
      openVars, sweepVars
<1>6. ASSUME NEW s \in Session, ClientLeaves(s) \/ ClientForgets(s) PROVE Type'
  BY <1>6 DEF Type, ClientLeaves, ClientForgets, openVars, closeVars, sweepVars
<1>7. CASE SweepStep
  <2> USE DEF Type, SweepEnds, openVars, closeVars
  <2>1. CASE SweepBegin BY <2>1, ExpireType DEF SweepBegin
  <2>2. CASE SweepList BY <2>2 DEF SweepList
  <2>3. CASE SweepListed BY <2>3 DEF SweepListed
  <2>4. CASE SweepNonces BY <2>4, ExpireType DEF SweepNonces
  <2>5. CASE SweepRaises BY <2>5 DEF SweepRaises
  <2>6. ASSUME NEW s \in Session, SweepExpired(s) \/ SweepOrphan(s) PROVE Type'
    BY <2>6 DEF SweepExpired, SweepOrphan
  <2> QED BY <1>7, <2>1, <2>2, <2>3, <2>4, <2>5, <2>6 DEF SweepStep
<1>8. CASE Crash
  <2>1. NoEntries \in [Session -> Nat] /\ [s \in Session |-> 0] \in [Session -> Nat]
    BY DEF NoEntries, Absent
  <2>2. /\ NoThreads(Opener, "idle")
             \in [Opener -> {"idle", "queued", "install", "attest", "reply"}]
        /\ NoThreads(Opener, AnySession) \in [Opener -> Session]
        /\ NoThreads(Opener, 0) \in [Opener -> Nat]
        /\ NoThreads(Closer, "idle") \in [Closer -> {"idle", "revoke", "pop"}]
        /\ NoThreads(Closer, AnySession) \in [Closer -> Session]
    BY <1>0 DEF NoThreads
  <2>3. /\ clock' \in Nat /\ up' \in BOOLEAN
        /\ stamp' \in [Session -> Stamps]
        /\ client' \in [Session -> {"calling", "granted", "closing", "over"}]
        /\ keys' \subseteq Session
    BY <1>8, Zenon DEF Type, Crash
  <2>4. crashes' \in Nat
    BY <1>8 DEF Type, Crash
  <2>5. /\ nonces' \in [Session -> Nat] /\ open' \in [Session -> Nat]
        /\ accepts' \in [Session -> Nat]
    BY <1>8, <2>1 DEF Crash
  <2>6. /\ pc' \in [Opener -> {"idle", "queued", "install", "attest", "reply"}]
        /\ sid' \in [Opener -> Session]
        /\ at' \in [Opener -> Nat] /\ now' \in [Opener -> Nat]
        /\ cpc' \in [Closer -> {"idle", "revoke", "pop"}]
        /\ csid' \in [Closer -> Session]
    BY <1>8, <2>2 DEF Crash
  <2>7. /\ spc' \in {"idle", "expired", "orphans", "nonces"}
        /\ moment' \in Nat /\ expired' \subseteq Session
        /\ known' \subseteq Session /\ found' \subseteq Session
    BY <1>8 DEF Crash, SweepEnds
  <2>8. QED
    BY <2>3, <2>4, <2>5, <2>6, <2>7 DEF Type
<1>9. CASE Start
  BY <1>9 DEF Type, Start, NoEntries, Absent, openVars, closeVars, sweepVars
<1>10. CASE UNCHANGED vars
  BY <1>10 DEF Type, vars, openVars, closeVars, sweepVars
<1> QED
  BY <1>1, <1>2, <1>3, <1>4, <1>5, <1>6, <1>7, <1>8, <1>9, <1>10 DEF Next

(* The variables of the agent, its threads and its validators always have  *)
(* the types that Type declares.                                           *)
THEOREM TypeCorrect == Spec => []Type
<1>1. Init => Type
  BY SessionAssumption, TimeAssumption DEF Init, Type, AnySession, NoEntries, NoThreads, Absent
<1>2. QED
  BY <1>1, TypeStep, PTL DEF Spec

-----------------------------------------------------------------------------
(* Replay.  A nonce is forgotten TTL after it was accepted, so NoReplay is *)
(* not inductive: it holds because a request whose nonce may have been     *)
(* forgotten is too old to be accepted.                                    *)

(* A queued request was fresh when it was checked, and that is past.       *)
QueuedFresh ==
    \A o \in Opener : pc[o] = "queued" =>
        /\ at[o] <= clock
        /\ at[o] <= stamp[sid[o]] + Window
        /\ stamp[sid[o]] <= at[o] + Window

(* A nonce that was accepted is in the book until its request is stale.    *)
Remembered ==
    \A s \in Session : accepts[s] > 0 =>
        \/ nonces[s] # Absent /\ nonces[s] + Window >= stamp[s] + TTL
        \/ clock + Window >= stamp[s] + TTL

(* A thread gets past the nonce book only by accepting its nonce.          *)
BusyAccepted == \A o \in Opener : Busy(o) => accepts[sid[o]] > 0

ReplayInv ==
    /\ Type
    /\ moment <= clock
    /\ QueuedFresh
    /\ Remembered
    /\ BusyAccepted
    /\ NoReplay
    /\ OneThreadPerSession

(* Expiring the book at a moment that is not in the future keeps the       *)
(* memory of every request that could still be accepted.                   *)
LEMMA ExpireRemembers ==
    ASSUME ReplayInv, NEW t \in Nat, t <= clock,
           NEW s \in Session, accepts[s] > 0
    PROVE  \/ /\ Expire(nonces, t)[s] # Absent
              /\ Expire(nonces, t)[s] + Window >= stamp[s] + TTL
           \/ clock + Window >= stamp[s] + TTL
<1>0. /\ nonces \in [Session -> Nat] /\ nonces[s] \in Nat
      /\ stamp[s] \in Nat /\ clock \in Nat
  BY TimeAssumption DEF ReplayInv, Type
<1>1. \/ nonces[s] # Absent /\ nonces[s] + Window >= stamp[s] + TTL
      \/ clock + Window >= stamp[s] + TTL
  BY DEF ReplayInv, Remembered
<1>2. CASE Stale(nonces[s], t)
  BY <1>0, <1>1, <1>2, TimeAssumption DEF Stale
<1>3. CASE ~Stale(nonces[s], t)
  BY <1>0, <1>1, <1>3, ExpireType
<1> QED BY <1>2, <1>3

(* The margin at work: a thread that passes the nonce book does so with a  *)
(* nonce that was never accepted before.                                   *)
LEMMA AcceptIsFirst ==
    ASSUME ReplayInv, NEW o \in Opener, Accept(o)
    PROVE  accepts[sid[o]] = 0
<1> DEFINE s == sid[o]
<1>1. s \in Session /\ clock \in Nat /\ stamp[s] \in Nat /\ at[o] \in Nat
      /\ accepts[s] \in Nat
  BY TimeAssumption DEF ReplayInv, Type
<1>2. clock <= at[o] + OpenTimeout /\ at[o] <= stamp[s] + Window
      /\ Expire(nonces, clock)[s] = Absent
  BY DEF Accept, ReplayInv, QueuedFresh
<1>3. ~(clock + Window >= stamp[s] + TTL)
  BY <1>1, <1>2, TimeAssumption, MarginAssumption
<1>4. ~(accepts[s] > 0)
  BY <1>1, <1>2, <1>3, ExpireRemembers
<1> QED BY <1>1, <1>4

(* A step that leaves the book, the history and the open threads alone     *)
(* cannot disturb the invariant.                                           *)
LEMMA ReplayUntouched ==
    ASSUME ReplayInv, Type', clock' >= clock, moment' <= clock',
           UNCHANGED <<stamp, nonces, accepts, openVars>>
    PROVE  ReplayInv'
<1>1. QueuedFresh'
  BY TimeAssumption DEF ReplayInv, Type, QueuedFresh, openVars
<1>2. Remembered'
  <2> SUFFICES ASSUME NEW s \in Session, accepts[s] > 0
               PROVE  \/ nonces[s] # Absent /\ nonces[s] + Window >= stamp[s] + TTL
                      \/ clock' + Window >= stamp[s] + TTL
    BY DEF Remembered
  <2>1. clock \in Nat /\ clock' \in Nat /\ stamp[s] \in Nat
    BY TimeAssumption DEF ReplayInv, Type
  <2> QED BY <2>1, TimeAssumption DEF ReplayInv, Remembered
<1>3. BusyAccepted' /\ NoReplay' /\ OneThreadPerSession'
  BY DEF ReplayInv, BusyAccepted, NoReplay, OneThreadPerSession, Busy, openVars
<1> QED BY <1>1, <1>2, <1>3 DEF ReplayInv

(* An open thread other than Accept only moves on or ends: it keeps the    *)
(* history, and it becomes busy or queued in no new way.                   *)
LEMMA ReplayThreadMoves ==
    ASSUME ReplayInv, Type', NEW o \in Opener,
           UNCHANGED <<clock, stamp, accepts, moment>>,
           nonces' = nonces \/ nonces' = Expire(nonces, clock),
           \A p \in Opener \ {o} : pc'[p] = pc[p] /\ sid'[p] = sid[p] /\ at'[p] = at[p],
           \/ pc'[o] = "idle"
           \/ Busy(o) /\ Busy(o)' /\ sid'[o] = sid[o]
    PROVE  ReplayInv'
<1>1. pc'[o] # "queued"
  BY DEF Busy
<1>2. QueuedFresh'
  BY <1>1 DEF ReplayInv, QueuedFresh
<1>3. Remembered'
  <2> SUFFICES ASSUME NEW s \in Session, accepts[s] > 0
               PROVE  \/ nonces'[s] # Absent /\ nonces'[s] + Window >= stamp[s] + TTL
                      \/ clock + Window >= stamp[s] + TTL
    BY DEF Remembered
  <2>1. CASE nonces' = nonces
    BY <2>1 DEF ReplayInv, Remembered
  <2>2. CASE nonces' = Expire(nonces, clock)
    BY <2>2, ExpireRemembers DEF ReplayInv, Type
  <2> QED BY <2>1, <2>2
<1>4. \A p \in Opener : Busy(p)' => Busy(p) /\ sid'[p] = sid[p]
  BY DEF Busy
<1>5. BusyAccepted' /\ OneThreadPerSession'
  BY <1>4 DEF ReplayInv, BusyAccepted, OneThreadPerSession
<1> QED BY <1>2, <1>3, <1>5 DEF ReplayInv, NoReplay

(* Accept itself: the history becomes 1, and the book remembers the nonce  *)
(* until at least TTL after the earliest moment its request was fresh.     *)
LEMMA ReplayAccept ==
    ASSUME ReplayInv, Type', NEW o \in Opener, Accept(o)
    PROVE  ReplayInv'
<1> DEFINE s == sid[o]
<1>1. /\ s \in Session /\ clock \in Nat /\ stamp[s] \in Nat /\ at[o] \in Nat
      /\ accepts \in [Session -> Nat] /\ nonces \in [Session -> Nat]
  BY TimeAssumption DEF ReplayInv, Type
<1>2. accepts[s] = 0
  BY AcceptIsFirst
<1>3. accepts' = [accepts EXCEPT ![s] = 1]
  BY <1>1, <1>2 DEF Accept
<1>4. UNCHANGED <<clock, stamp, moment, sid, at>> /\ pc' = [pc EXCEPT ![o] = "install"]
  BY DEF Accept, sweepVars
<1>5. nonces' = [Expire(nonces, clock) EXCEPT ![s] = clock + TTL]
  BY DEF Accept
<1>6. QueuedFresh'
  BY <1>4 DEF ReplayInv, QueuedFresh, Type
<1>7. Remembered'
  <2> SUFFICES ASSUME NEW r \in Session, accepts'[r] > 0
               PROVE  \/ nonces'[r] # Absent /\ nonces'[r] + Window >= stamp[r] + TTL
                      \/ clock + Window >= stamp[r] + TTL
    BY <1>4 DEF Remembered
  <2>1. CASE r = s
    <3>1. nonces'[s] = clock + TTL
      BY <1>1, <1>5, ExpireType
    <3>2. stamp[s] <= at[o] + Window /\ at[o] <= clock
      BY DEF ReplayInv, QueuedFresh, Accept
    <3>3. TTL > 0
      BY TimeAssumption, MarginAssumption
    <3> QED BY <1>1, <2>1, <3>1, <3>2, <3>3, TimeAssumption DEF Absent
  <2>2. CASE r # s
    <3>1. nonces'[r] = Expire(nonces, clock)[r] /\ accepts[r] > 0
      BY <1>1, <1>3, <1>5, <2>2, ExpireType
    <3> QED BY <1>1, <3>1, ExpireRemembers
  <2> QED BY <2>1, <2>2
<1>8. BusyAccepted'
  <2> SUFFICES ASSUME NEW p \in Opener, Busy(p)' PROVE accepts'[sid[p]] > 0
    BY <1>4 DEF BusyAccepted
  <2>1. p = o \/ Busy(p)
    BY <1>4 DEF Busy, ReplayInv, Type
  <2> QED BY <1>1, <1>3, <2>1 DEF ReplayInv, BusyAccepted, Type
<1>9. NoReplay'
  BY <1>1, <1>3 DEF ReplayInv, NoReplay
<1>10. OneThreadPerSession'
  <2>1. \A p \in Opener : Busy(p) => sid[p] # s
    BY <1>1, <1>2 DEF ReplayInv, BusyAccepted
  <2>2. \A p \in Opener : Busy(p)' => p = o \/ Busy(p)
    BY <1>4 DEF Busy, ReplayInv, Type
  <2> QED BY <1>4, <2>1, <2>2 DEF ReplayInv, OneThreadPerSession
<1>11. moment' <= clock'
  BY <1>4 DEF ReplayInv
<1> QED BY <1>6, <1>7, <1>8, <1>9, <1>10, <1>11 DEF ReplayInv

(* Every step preserves the invariant.                                     *)
LEMMA ReplayStep == ReplayInv /\ [Next]_vars => ReplayInv'
<1> SUFFICES ASSUME ReplayInv, [Next]_vars PROVE ReplayInv'
  OBVIOUS
<1>0. Type' /\ clock \in Nat /\ moment \in Nat /\ moment <= clock
  BY TypeStep DEF ReplayInv, Type
<1>1. CASE Tick
  BY <1>0, <1>1, ReplayUntouched DEF Tick, sweepVars
<1>2. ASSUME NEW o \in Opener, NEW s \in Session, Receive(o, s) PROVE ReplayInv'
  <2>1. /\ UNCHANGED <<clock, stamp, nonces, accepts, moment>>
        /\ pc' = [pc EXCEPT ![o] = "queued"] /\ sid' = [sid EXCEPT ![o] = s]
        /\ at' = [at EXCEPT ![o] = clock]
    BY <1>2 DEF Receive, sweepVars
  <2>2. stamp[s] \in Nat /\ Window \in Nat
    BY TimeAssumption DEF ReplayInv, Type
  <2>3. clock <= stamp[s] + Window /\ stamp[s] <= clock + Window
    BY <1>0, <1>2, <2>2 DEF Receive, Fresh
  <2>4. QueuedFresh'
    <3> SUFFICES ASSUME NEW p \in Opener, pc'[p] = "queued"
                 PROVE  /\ at'[p] <= clock /\ at'[p] <= stamp[sid'[p]] + Window
                        /\ stamp[sid'[p]] <= at'[p] + Window
      BY <2>1 DEF QueuedFresh
    <3>1. CASE p = o BY <1>0, <2>1, <2>3, <3>1 DEF ReplayInv, Type
    <3>2. CASE p # o BY <2>1, <3>2 DEF ReplayInv, QueuedFresh, Type
    <3> QED BY <3>1, <3>2
  <2>5. \A p \in Opener : Busy(p)' => Busy(p) /\ sid'[p] = sid[p]
    BY <2>1 DEF Busy, ReplayInv, Type
  <2>6. BusyAccepted' /\ OneThreadPerSession' /\ Remembered' /\ NoReplay'
    BY <2>1, <2>5
    DEF ReplayInv, BusyAccepted, OneThreadPerSession, Remembered, NoReplay
  <2> QED BY <1>0, <2>1, <2>4, <2>6 DEF ReplayInv
<1>3. ASSUME NEW o \in Opener, OpenStep(o) PROVE ReplayInv'
  <2>1. CASE Accept(o) BY <1>0, <2>1, ReplayAccept
  <2>2. CASE Install(o) \/ Register(o)
    <3>1. pc' = [pc EXCEPT ![o] = pc'[o]] /\ Busy(o) /\ Busy(o)'
      BY <2>2 DEF Install, Register, Busy, ReplayInv, Type
    <3>2. UNCHANGED <<clock, stamp, accepts, moment, nonces, sid, at>>
      BY <2>2 DEF Install, Register, sweepVars
    <3> QED BY <1>0, <3>1, <3>2, ReplayThreadMoves DEF ReplayInv, Type
  <2>3. CASE Cancelled(o) \/ Refuse(o) \/ AcceptRaises(o) \/ OpenRaises(o)
             \/ Reply(o) \/ ReplyLost(o)
    <3>1. OpenEnds(o) /\ UNCHANGED <<clock, stamp, accepts, moment>>
      BY <2>3 DEF Cancelled, Refuse, AcceptRaises, OpenRaises, Reply, ReplyLost, sweepVars
    <3>2. nonces' = nonces \/ nonces' = Expire(nonces, clock)
      BY <2>3 DEF Cancelled, Refuse, AcceptRaises, OpenRaises, Reply, ReplyLost
    <3>3. /\ pc'[o] = "idle"
          /\ \A p \in Opener \ {o} :
                pc'[p] = pc[p] /\ sid'[p] = sid[p] /\ at'[p] = at[p]
      BY <3>1 DEF OpenEnds, ReplayInv, Type
    <3> QED BY <1>0, <3>1, <3>2, <3>3, ReplayThreadMoves
  <2> QED BY <1>3, <2>1, <2>2, <2>3 DEF OpenStep
<1>4. ASSUME NEW c \in Closer, NEW s \in Session, Matching(c, s) PROVE ReplayInv'
  BY <1>0, <1>4, ReplayUntouched DEF Matching, sweepVars
<1>5. ASSUME NEW c \in Closer, CloseStep(c) PROVE ReplayInv'
  BY <1>0, <1>5, ReplayUntouched
  DEF CloseStep, CloseRevoke, CloseRaises, ClosePop, sweepVars
<1>6. ASSUME NEW s \in Session, ClientLeaves(s) \/ ClientForgets(s) PROVE ReplayInv'
  BY <1>0, <1>6, ReplayUntouched DEF ClientLeaves, ClientForgets, sweepVars
<1>7. CASE SweepStep
  <2>1. CASE SweepBegin BY <1>0, <2>1, ReplayUntouched DEF SweepBegin
  <2>2. CASE SweepList \/ SweepListed \/ SweepRaises
    BY <1>0, <2>2, ReplayUntouched DEF SweepList, SweepListed, SweepRaises, SweepEnds
  <2>3. CASE SweepNonces
    <3>1. nonces' = Expire(nonces, moment) /\ moment' = 0
          /\ UNCHANGED <<clock, stamp, accepts, openVars>>
      BY <2>3 DEF SweepNonces, SweepEnds
    <3>2. Remembered'
      BY <1>0, <3>1, ExpireRemembers DEF Remembered
    <3> QED BY <1>0, <3>1, <3>2
        DEF ReplayInv, QueuedFresh, BusyAccepted, NoReplay, OneThreadPerSession, Busy,
            openVars
  <2>4. ASSUME NEW s \in Session, SweepExpired(s) \/ SweepOrphan(s) PROVE ReplayInv'
    BY <1>0, <2>4, ReplayUntouched DEF SweepExpired, SweepOrphan
  <2> QED BY <1>7, <2>1, <2>2, <2>3, <2>4 DEF SweepStep
<1>8. CASE Crash
  <2>1. /\ \A o \in Opener : pc'[o] = "idle"
        /\ \A s \in Session : accepts'[s] = 0
        /\ moment' = 0 /\ clock' = clock
    BY <1>8 DEF Crash, NoThreads, SweepEnds
  <2> QED BY <1>0, <2>1
      DEF ReplayInv, QueuedFresh, Remembered, BusyAccepted, NoReplay,
          OneThreadPerSession, Busy
<1>9. CASE Start
  BY <1>0, <1>9, ReplayUntouched DEF Start, sweepVars
<1>10. CASE UNCHANGED vars
  BY <1>0, <1>10, ReplayUntouched DEF vars, sweepVars
<1> QED
  BY <1>1, <1>2, <1>3, <1>4, <1>5, <1>6, <1>7, <1>8, <1>9, <1>10 DEF Next

(* A new agent has accepted nothing.                                       *)
LEMMA ReplayInit == Init => ReplayInv
<1>1. Init => Type
  BY SessionAssumption, TimeAssumption
  DEF Init, Type, AnySession, NoEntries, NoThreads, Absent
<1> QED BY <1>1
  DEF Init, ReplayInv, QueuedFresh, Remembered, BusyAccepted, NoReplay,
      OneThreadPerSession, Busy, NoThreads

(* The invariant holds in every reachable state.                           *)
LEMMA ReplayInvariant == Spec => []ReplayInv
  BY ReplayInit, ReplayStep, PTL DEF Spec

(* However often and however late a signed open request is delivered, the  *)
(* agent accepts its nonce at most once in the life of a process.          *)
THEOREM NoReplayHolds == Spec => []NoReplay
<1>1. ReplayInv => NoReplay
  BY DEF ReplayInv
<1> QED BY <1>1, ReplayInvariant, PTL

(* Two threads of the open handler never work on the same session.         *)
THEOREM OneThreadHolds == Spec => []OneThreadPerSession
<1>1. ReplayInv => OneThreadPerSession
  BY DEF ReplayInv
<1> QED BY <1>1, ReplayInvariant, PTL

-----------------------------------------------------------------------------
(* Refinement.  The grants implement GrantLease.  What the mapping needs   *)
(* besides ReplayInv: a key in the file of a running agent was accepted in *)
(* its life, a thread that has yet to install has no key there already,    *)
(* and nothing of the process goes on while it is down.                    *)
KeysAccepted == up => \A s \in keys : accepts[s] > 0
PendingHasNoKey == \A o \in Opener : pc[o] = "install" => sid[o] \notin keys
DownIsIdle ==
    ~up => /\ \A o \in Opener : pc[o] = "idle"
           /\ \A c \in Closer : cpc[c] = "idle"
           /\ spc = "idle"
           /\ \A s \in Session : accepts[s] = 0

LeaseInv == ReplayInv /\ KeysAccepted /\ PendingHasNoKey /\ DownIsIdle

(* A step of the process takes place in a process that is up.              *)
LEMMA StepIsUp ==
    ASSUME LeaseInv
    PROVE  /\ \A o \in Opener : pc[o] # "idle" => up
           /\ \A c \in Closer : cpc[c] # "idle" => up
           /\ spc # "idle" => up
BY DEF LeaseInv, DownIsIdle

(* A step of a running process that installs no key and accepts no nonce   *)
(* keeps the invariant, whatever it removes and whatever thread ends.      *)
LEMMA LeaseKept ==
    ASSUME LeaseInv, ReplayInv', up, up', keys' \subseteq keys, accepts' = accepts,
           \A o \in Opener : pc'[o] = "install" => pc[o] = "install" /\ sid'[o] = sid[o]
    PROVE  LeaseInv'
BY DEF LeaseInv, KeysAccepted, PendingHasNoKey, DownIsIdle

(* The steps of the open threads.                                          *)
LEMMA LeaseOpenStep ==
    ASSUME LeaseInv, ReplayInv', NEW o \in Opener, OpenStep(o)
    PROVE  LeaseInv'
<1>0. up /\ Type
  BY StepIsUp DEF LeaseInv, ReplayInv, OpenStep, Cancelled, Accept, Refuse, AcceptRaises, Install,
                  OpenRaises, Register, Reply, ReplyLost
<1>1. CASE Accept(o)
  <2> DEFINE s == sid[o]
  <2>1. /\ up' = up /\ keys' = keys /\ sid' = sid
        /\ pc' = [pc EXCEPT ![o] = "install"] /\ accepts' = [accepts EXCEPT ![s] = @ + 1]
    BY <1>1 DEF Accept
  <2>2. s \in Session /\ accepts[s] = 0
    BY <1>0, <1>1, AcceptIsFirst DEF LeaseInv, Type
  <2>3. s \notin keys
    BY <1>0, <2>2 DEF LeaseInv, KeysAccepted
  <2>4. \A r \in Session : accepts'[r] >= accepts[r] /\ accepts[r] \in Nat
    BY <1>0, <2>1, <2>2 DEF Type
  <2>5. KeysAccepted'
    BY <1>0, <2>1, <2>4 DEF LeaseInv, KeysAccepted, Type
  <2>6. PendingHasNoKey'
    BY <1>0, <2>1, <2>3 DEF LeaseInv, PendingHasNoKey, Type
  <2> QED BY <1>0, <2>1, <2>5, <2>6 DEF LeaseInv, DownIsIdle
<1>2. CASE Install(o)
  <2> DEFINE s == sid[o]
  <2>1. /\ up' = up /\ keys' = keys \cup {s} /\ accepts' = accepts /\ sid' = sid
        /\ pc' = [pc EXCEPT ![o] = "attest"] /\ pc[o] = "install"
    BY <1>2 DEF Install
  <2>2. accepts[s] > 0
    BY <2>1 DEF LeaseInv, ReplayInv, BusyAccepted, Busy
  <2>3. \A p \in Opener : p # o /\ pc[p] = "install" => sid[p] # s
    BY <2>1 DEF LeaseInv, ReplayInv, OneThreadPerSession, Busy
  <2>4. PendingHasNoKey'
    BY <1>0, <2>1, <2>3 DEF LeaseInv, PendingHasNoKey, Type
  <2> QED BY <1>0, <2>1, <2>2, <2>4 DEF LeaseInv, KeysAccepted, DownIsIdle
<1>3. CASE Register(o)
  <2>1. /\ up' = up /\ keys' = keys /\ accepts' = accepts /\ sid' = sid
        /\ pc' = [pc EXCEPT ![o] = "reply"]
    BY <1>3 DEF Register
  <2> QED BY <1>0, <2>1, LeaseKept DEF Type
<1>4. CASE Cancelled(o) \/ Refuse(o) \/ AcceptRaises(o) \/ OpenRaises(o) \/ Reply(o) \/ ReplyLost(o)
  <2>1. OpenEnds(o) /\ up' = up /\ keys' = keys /\ accepts' = accepts
    BY <1>4 DEF Cancelled, Refuse, AcceptRaises, OpenRaises, Reply, ReplyLost
  <2>2. \A p \in Opener : pc'[p] = "install" => pc[p] = "install" /\ sid'[p] = sid[p]
    BY <1>0, <2>1 DEF OpenEnds, Type
  <2> QED BY <1>0, <2>1, <2>2, LeaseKept
<1> QED BY <1>1, <1>2, <1>3, <1>4 DEF OpenStep

(* Every step preserves the invariant of the refinement.                   *)
LEMMA LeaseStep == LeaseInv /\ [Next]_vars => LeaseInv'
<1> SUFFICES ASSUME LeaseInv, [Next]_vars PROVE LeaseInv'
  OBVIOUS
<1>0. ReplayInv' /\ Type
  BY ReplayStep DEF LeaseInv, ReplayInv
<1> USE DEF openVars, closeVars, sweepVars
<1>1. CASE Tick \/ (\E s \in Session : ClientLeaves(s) \/ ClientForgets(s)) \/ UNCHANGED vars
  <2>1. UNCHANGED <<up, keys, accepts, pc, sid, cpc, spc>>
    BY <1>1 DEF Tick, ClientLeaves, ClientForgets, vars
  <2> QED BY <1>0, <2>1 DEF LeaseInv, KeysAccepted, PendingHasNoKey, DownIsIdle
<1>2. ASSUME NEW o \in Opener, NEW s \in Session, Receive(o, s) PROVE LeaseInv'
  <2>1. up /\ up' = up /\ keys' = keys /\ accepts' = accepts
    BY <1>2 DEF Receive
  <2>2. \A p \in Opener : pc'[p] = "install" => pc[p] = "install" /\ sid'[p] = sid[p]
    BY <1>0, <1>2 DEF Receive, Type
  <2> QED BY <1>0, <2>1, <2>2, LeaseKept
<1>3. ASSUME NEW o \in Opener, OpenStep(o) PROVE LeaseInv'
  BY <1>0, <1>3, LeaseOpenStep
<1>4. ASSUME NEW c \in Closer, NEW s \in Session, Matching(c, s) PROVE LeaseInv'
  BY <1>0, <1>4, LeaseKept DEF Matching
<1>5. ASSUME NEW c \in Closer, CloseStep(c) PROVE LeaseInv'
  <2>1. up BY <1>5, StepIsUp DEF CloseStep, CloseRevoke, CloseRaises, ClosePop
  <2> QED BY <1>0, <1>5, <2>1, LeaseKept DEF CloseStep, CloseRevoke, CloseRaises, ClosePop
<1>6. CASE SweepStep
  <2>1. up BY <1>6, StepIsUp DEF SweepStep, SweepBegin, SweepList, SweepListed, SweepNonces,
                                  SweepRaises, SweepExpired, SweepOrphan
  <2>2. up' = up /\ keys' \subseteq keys /\ accepts' = accepts /\ pc' = pc /\ sid' = sid
    BY <1>6 DEF SweepStep, SweepBegin, SweepList, SweepListed, SweepNonces, SweepRaises,
                SweepExpired, SweepOrphan
  <2> QED BY <1>0, <2>1, <2>2, LeaseKept
<1>7. CASE Crash
  <2>1. /\ ~up' /\ spc' = "idle"
        /\ \A o \in Opener : pc'[o] = "idle"
        /\ \A c \in Closer : cpc'[c] = "idle"
        /\ \A s \in Session : accepts'[s] = 0
    BY <1>7 DEF Crash, NoThreads, SweepEnds
  <2> QED BY <1>0, <2>1 DEF LeaseInv, KeysAccepted, PendingHasNoKey, DownIsIdle
<1>8. CASE Start
  BY <1>0, <1>8 DEF Start, LeaseInv, KeysAccepted, PendingHasNoKey, DownIsIdle
<1> QED BY <1>1, <1>2, <1>3, <1>4, <1>5, <1>6, <1>7, <1>8 DEF Next

(* The mapping, for one session at a time.  A step that touches neither    *)
(* the file, the history nor the threads about to install changes no phase.*)
LEMMA PhaseSame ==
    ASSUME UNCHANGED <<keys, accepts>>, NEW s \in Session,
           (\E o \in Opener : pc'[o] = "install" /\ sid'[o] = s)
              <=> (\E o \in Opener : pc[o] = "install" /\ sid[o] = s)
    PROVE  Phase(s)' = Phase(s)
BY DEF Phase

(* A step that moves one session along the lease is a step of the lease.   *)
LEMMA PhaseMoves ==
    ASSUME NEW s \in Session, \A r \in Session : r # s => Phase(r)' = Phase(r),
           \/ Phase(s) = "unused" /\ Phase(s)' = "reserved"
           \/ Phase(s) = "reserved" /\ Phase(s)' = "live"
           \/ Phase(s) = "reserved" /\ Phase(s)' = "spent"
           \/ Phase(s) = "live" /\ Phase(s)' = "spent"
    PROVE  Lease!Next
<1> DEFINE phase == [r \in Session |-> Phase(r)]
<1>1. \A v : Phase(s)' = v => phase' = [phase EXCEPT ![s] = v]
  OBVIOUS
<1>2. phase[s] = Phase(s)
  OBVIOUS
<1>3. Lease!Reserve(s) \/ Lease!Install(s) \/ Lease!GiveUp(s) \/ Lease!Remove(s)
  BY <1>1, <1>2 DEF Lease!Reserve, Lease!Install, Lease!GiveUp, Lease!Remove
<1> QED BY <1>3 DEF Lease!Next

(* Removing the key of a session from the file of a running agent.         *)
LEMMA PhaseRemoves ==
    ASSUME LeaseInv, up, NEW s \in Session, keys' = keys \ {s}, UNCHANGED <<accepts, pc, sid>>
    PROVE  Lease!Next \/ \A r \in Session : Phase(r)' = Phase(r)
<1>1. \A r \in Session : r # s => Phase(r)' = Phase(r)
  BY DEF Phase
<1>2. CASE s \notin keys
  BY <1>2 DEF Phase
<1>3. CASE s \in keys
  <2>1. accepts[s] > 0 /\ ~(\E o \in Opener : pc[o] = "install" /\ sid[o] = s)
    BY <1>3 DEF LeaseInv, KeysAccepted, PendingHasNoKey
  <2>2. Phase(s) = "live" /\ Phase(s)' = "spent"
    BY <1>3, <2>1 DEF Phase
  <2> QED BY <1>1, <2>2, PhaseMoves
<1> QED BY <1>2, <1>3

(* Every step of the grants is one of the lease, or changes no phase.      *)
LEMMA LeaseRefined ==
    ASSUME LeaseInv, [Next]_vars
    PROVE  Lease!Next \/ \A s \in Session : Phase(s)' = Phase(s)
<1>0. Type
  BY DEF LeaseInv, ReplayInv
<1> USE DEF openVars, closeVars, sweepVars
<1>1. CASE \/ Tick \/ (\E s \in Session : ClientLeaves(s) \/ ClientForgets(s))
           \/ (\E c \in Closer, s \in Session : Matching(c, s)) \/ UNCHANGED vars
  <2>1. UNCHANGED <<keys, accepts, pc, sid>>
    BY <1>1 DEF Tick, ClientLeaves, ClientForgets, Matching, vars
  <2> QED BY <2>1, PhaseSame
<1>2. ASSUME NEW o \in Opener, NEW s \in Session, Receive(o, s)
      PROVE  \A r \in Session : Phase(r)' = Phase(r)
  <2>1. UNCHANGED <<keys, accepts>>
    BY <1>2 DEF Receive
  <2>2. \A p \in Opener, r \in Session :
            (pc'[p] = "install" /\ sid'[p] = r) <=> (pc[p] = "install" /\ sid[p] = r)
    BY <1>0, <1>2 DEF Receive, Type
  <2> QED BY <2>1, <2>2, PhaseSame
<1>3. ASSUME NEW o \in Opener, OpenStep(o)
      PROVE  Lease!Next \/ \A s \in Session : Phase(s)' = Phase(s)
  <2>0. PICK s \in Session : s = sid[o]
    BY <1>0 DEF Type
  <2>1. CASE Accept(o)
    <3>1. /\ keys' = keys /\ sid' = sid
          /\ pc' = [pc EXCEPT ![o] = "install"] /\ accepts' = [accepts EXCEPT ![s] = @ + 1]
          /\ pc[o] = "queued"
      BY <2>0, <2>1 DEF Accept
    <3>2. accepts[s] = 0
      BY <2>0, <2>1, AcceptIsFirst DEF LeaseInv
    <3>3. s \notin keys
      BY <2>0, <3>1, <3>2, StepIsUp DEF LeaseInv, KeysAccepted
    <3>4. \A p \in Opener : pc[p] = "install" => sid[p] # s
      BY <2>0, <3>2 DEF LeaseInv, ReplayInv, BusyAccepted, Busy
    <3>5. Phase(s) = "unused" /\ Phase(s)' = "reserved"
      BY <2>0, <1>0, <3>1, <3>2, <3>3, <3>4 DEF Phase, Type
    <3>6. \A r \in Session : r # s => Phase(r)' = Phase(r)
      <4> TAKE r \in Session
      <4> HAVE r # s
      <4>1. accepts'[r] = accepts[r]
        BY <1>0, <2>0, <3>1 DEF Type
      <4>2. \A p \in Opener : (pc'[p] = "install" /\ sid'[p] = r) <=> (pc[p] = "install" /\ sid[p] = r)
        BY <2>0, <1>0, <3>1 DEF Type
      <4> QED BY <3>1, <4>1, <4>2 DEF Phase
    <3> QED BY <2>0, <3>5, <3>6, PhaseMoves
  <2>2. CASE Install(o)
    <3>1. /\ keys' = keys \cup {s} /\ accepts' = accepts /\ sid' = sid
          /\ pc' = [pc EXCEPT ![o] = "attest"] /\ pc[o] = "install"
      BY <2>0, <2>2 DEF Install
    <3>2. Phase(s) = "reserved" /\ Phase(s)' = "live"
      BY <2>0, <3>1 DEF LeaseInv, PendingHasNoKey, Phase
    <3>3. \A r \in Session : r # s => Phase(r)' = Phase(r)
      <4> TAKE r \in Session
      <4> HAVE r # s
      <4>1. \A p \in Opener : (pc'[p] = "install" /\ sid'[p] = r) <=> (pc[p] = "install" /\ sid[p] = r)
        BY <2>0, <1>0, <3>1 DEF Type
      <4> QED BY <3>1, <4>1 DEF Phase
    <3> QED BY <2>0, <3>2, <3>3, PhaseMoves
  <2>3. CASE Register(o)
    <3>1. UNCHANGED <<keys, accepts, sid>> /\ pc[o] = "attest" /\ pc' = [pc EXCEPT ![o] = "reply"]
      BY <2>3 DEF Register
    <3>2. \A p \in Opener : pc'[p] = "install" <=> pc[p] = "install"
      BY <1>0, <3>1 DEF Type
    <3> QED BY <3>1, <3>2, PhaseSame
  <2>4. CASE \/ Cancelled(o) \/ Refuse(o) \/ AcceptRaises(o) \/ OpenRaises(o) \/ Reply(o) \/ ReplyLost(o)
    <3>1. OpenEnds(o) /\ UNCHANGED <<keys, accepts>>
      BY <2>4 DEF Cancelled, Refuse, AcceptRaises, OpenRaises, Reply, ReplyLost
    <3>2. /\ pc'[o] = "idle"
          /\ \A p \in Opener : p # o => pc'[p] = pc[p] /\ sid'[p] = sid[p]
      BY <1>0, <3>1 DEF OpenEnds, Type
    <3>3. CASE pc[o] # "install"
      BY <3>1, <3>2, <3>3, PhaseSame
    <3>4. CASE pc[o] = "install"
      <4>1. accepts[s] > 0
        BY <2>0, <3>4 DEF LeaseInv, ReplayInv, BusyAccepted, Busy
      <4>2. \A p \in Opener : p # o /\ pc[p] = "install" => sid[p] # s
        BY <2>0, <3>4 DEF LeaseInv, ReplayInv, OneThreadPerSession, Busy
      <4>3. s \notin keys
        BY <2>0, <3>4 DEF LeaseInv, PendingHasNoKey
      <4>4. Phase(s) = "reserved" /\ Phase(s)' = "spent"
        BY <2>0, <3>1, <3>2, <3>4, <4>1, <4>2, <4>3 DEF Phase
      <4>5. \A r \in Session : r # s => Phase(r)' = Phase(r)
        BY <2>0, <3>1, <3>2, PhaseSame
      <4> QED BY <2>0, <4>4, <4>5, PhaseMoves
    <3> QED BY <3>3, <3>4
  <2> QED BY <1>3, <2>1, <2>2, <2>3, <2>4 DEF OpenStep
<1>4. ASSUME NEW c \in Closer, CloseStep(c)
      PROVE  Lease!Next \/ \A s \in Session : Phase(s)' = Phase(s)
  <2>1. CASE CloseRevoke(c)
    BY <1>0, <2>1, StepIsUp, PhaseRemoves DEF CloseRevoke, Type
  <2>2. CASE CloseRaises(c) \/ ClosePop(c)
    BY <2>2, PhaseSame DEF CloseRaises, ClosePop
  <2> QED BY <1>4, <2>1, <2>2 DEF CloseStep
<1>5. CASE SweepStep
  <2>1. ASSUME NEW s \in Session, SweepExpired(s) \/ SweepOrphan(s)
        PROVE  Lease!Next \/ \A r \in Session : Phase(r)' = Phase(r)
    BY <2>1, StepIsUp, PhaseRemoves DEF SweepExpired, SweepOrphan
  <2>2. CASE SweepBegin \/ SweepList \/ SweepListed \/ SweepNonces \/ SweepRaises
    BY <2>2, PhaseSame DEF SweepBegin, SweepList, SweepListed, SweepNonces, SweepRaises
  <2> QED BY <1>5, <2>1, <2>2 DEF SweepStep
<1>6. CASE Crash
  <2>1. /\ keys' = keys /\ \A o \in Opener : pc'[o] = "idle"
        /\ \A s \in Session : accepts'[s] = 0
    BY <1>6 DEF Crash, NoThreads
  <2>2. \A s \in Session : Phase(s)' = IF Phase(s) = "live" THEN "live" ELSE "unused"
    BY <2>1 DEF Phase
  <2> QED BY <2>2 DEF Lease!Next, Lease!Die
<1>7. CASE Start
  <2>1. \A s \in Session : Phase(s)' = "unused"
    BY <1>7 DEF Start, LeaseInv, DownIsIdle, Phase
  <2> QED BY <2>1 DEF Lease!Next, Lease!Restart
<1> QED BY <1>1, <1>2, <1>3, <1>4, <1>5, <1>6, <1>7 DEF Next

(* The threads, the table, the nonce book, the sweep and the file          *)
(* (grants.py, nonce.py, ssh_keys.py) together implement GrantLease: a     *)
(* request is used once and its key installed once in the life of an       *)
(* agent, and what was removed does not come back.                         *)
THEOREM LeaseImplemented == Spec => LeaseSpec
<1>1. Init => LeaseInv
  BY ReplayInit DEF Init, LeaseInv, KeysAccepted, PendingHasNoKey, DownIsIdle, NoThreads
<1>2. Init => Lease!Init
  BY DEF Init, NoThreads, Phase, Lease!Init
<1>3. LeaseInv /\ [Next]_vars => [Lease!Next]_([s \in Session |-> Phase(s)])
  BY LeaseRefined
<1> QED BY <1>1, <1>2, <1>3, LeaseStep, PTL DEF Spec, LeaseSpec, Lease!Spec
=============================================================================
