----------------------------- MODULE SessionGrants -----------------------------
(***************************************************************************)
(* The SSH session grants of a rig agent: agent/access/grants.py with the  *)
(* nonce book (nonce.py) and the authorized_keys file (ssh_keys.py) it     *)
(* writes, the two HTTP handlers that call it (api/routes.py,              *)
(* api/auth.py), the sweep task and the start-up of agent/main.py, and the *)
(* validator's side of one session (validator/session/client.py, open).    *)
(*                                                                         *)
(* Every handler and the sweep run in threads of their own, so a step of   *)
(* this module is what one thread does between two lock operations.  A     *)
(* session stands for one signed open request: its nonce, the first 16     *)
(* digits of the nonce (its session_id) and the key pair that the client   *)
(* generates afresh for each request.                                      *)
(***************************************************************************)
EXTENDS Integers, FiniteSets

CONSTANTS Session,      \* the signed open requests validators may send
          Opener,       \* threads that run SessionGrants.open
          Closer,       \* threads that run SessionGrants.close
          Stamps,       \* the timestamps a request may carry
          Window,       \* signature_window_seconds (120 by default)
          OpenTimeout,  \* OPEN_TIMEOUT of the open handler (30)
          TTL,          \* NONCE_TTL_SECONDS (600): of a nonce and of a session
          MaxClock,     \* bound: the clock stops here
          MaxCrashes    \* bound: how often the agent dies

ASSUME SessionAssumption == Session # {}

ASSUME TimeAssumption ==
    /\ Window \in Nat /\ OpenTimeout \in Nat /\ TTL \in Nat
    /\ Stamps \subseteq Nat /\ MaxClock \in Nat /\ MaxCrashes \in Nat

(* The margin the defaults have: 2 * 120 + 30 < 600.  A request is fresh   *)
(* for 2 * Window and may wait OpenTimeout for its thread.                 *)
ASSUME MarginAssumption == 2 * Window + OpenTimeout < TTL

VARIABLES
    clock,     \* time.time() of the rig
    stamp,     \* [Session -> Stamps], the x-mt-timestamp each request is signed with
    client,    \* the validator's coroutine for each session
    up,        \* the agent process is serving
    crashes,   \* how often it died
    nonces,    \* NonceBook._seen: until when a nonce is remembered, or Absent
    open,      \* SessionGrants._open: when the session expires, or Absent
    keys,      \* the sessions whose marker line is in authorized_keys
    pc, sid, at, now,      \* locals of the open threads
    cpc, csid,             \* locals of the close threads
    spc, moment, expired, known, found,   \* locals of the sweep thread
    accepts    \* history: how often the running process accepted each nonce

openVars  == <<pc, sid, at, now>>
closeVars == <<cpc, csid>>
sweepVars == <<spc, moment, expired, known, found>>
vars == <<clock, stamp, client, up, crashes, nonces, open, keys,
          openVars, closeVars, sweepVars, accepts>>

-----------------------------------------------------------------------------
(* Both dictionaries hold a time in the future for every entry, so zero    *)
(* can stand for "no entry".                                               *)
Absent == 0

(* A wrong bound: an entry runs out before its time.                       *)
StaleEarly(until, t) == until # Absent /\ until <= t + OpenTimeout

(* NonceBook.expire and the expiry test of the sweep use the same bound.   *)
Stale(until, t) == until # Absent /\ until <= t

(* NonceBook.expire(t): the book without the entries that ran out.         *)
Expire(book, t) == [s \in Session |-> IF Stale(book[s], t) THEN Absent ELSE book[s]]

(* A one-sided window: an old timestamp passes.                            *)
FreshOneSided(s) == stamp[s] - clock <= Window

(* auth.fresh: the signed timestamp is within the window, on either side.  *)
Fresh(s) == clock - stamp[s] <= Window /\ stamp[s] - clock <= Window

Type ==
    /\ clock \in Nat
    /\ stamp \in [Session -> Stamps]
    /\ client \in [Session -> {"calling", "granted", "closing", "over"}]
    /\ up \in BOOLEAN
    /\ crashes \in Nat
    /\ nonces \in [Session -> Nat]
    /\ open \in [Session -> Nat]
    /\ keys \subseteq Session
    /\ pc \in [Opener -> {"idle", "queued", "install", "attest", "reply"}]
    /\ sid \in [Opener -> Session]
    /\ at \in [Opener -> Nat]
    /\ now \in [Opener -> Nat]
    /\ cpc \in [Closer -> {"idle", "revoke", "pop"}]
    /\ csid \in [Closer -> Session]
    /\ spc \in {"idle", "expired", "orphans", "nonces"}
    /\ moment \in Nat
    /\ expired \subseteq Session
    /\ known \subseteq Session
    /\ found \subseteq Session
    /\ accepts \in [Session -> Nat]

AnySession == CHOOSE s \in Session : TRUE

(* What a new process has in its tables and its threads.                   *)
NoEntries == [s \in Session |-> Absent]
NoThreads(T, none) == [t \in T |-> none]

Init ==
    /\ clock = 0 /\ crashes = 0 /\ up = TRUE
    /\ stamp \in [Session -> Stamps]
    /\ client = [s \in Session |-> "calling"]
    /\ nonces = NoEntries /\ open = NoEntries /\ keys = {}
    /\ pc = NoThreads(Opener, "idle") /\ sid = NoThreads(Opener, AnySession)
    /\ at = NoThreads(Opener, 0) /\ now = NoThreads(Opener, 0)
    /\ cpc = NoThreads(Closer, "idle") /\ csid = NoThreads(Closer, AnySession)
    /\ spc = "idle" /\ moment = 0 /\ expired = {} /\ known = {} /\ found = {}
    /\ accepts = [s \in Session |-> 0]

Tick ==
    /\ clock < MaxClock
    /\ clock' = clock + 1
    /\ UNCHANGED <<stamp, client, up, crashes, nonces, open, keys,
                   openVars, closeVars, sweepVars, accepts>>

-----------------------------------------------------------------------------
(* POST /session/open.  The network may deliver a request late and more    *)
(* than once; check_request refuses it outside the window, without a trace.*)
Receive(o, s) ==
    /\ up /\ pc[o] = "idle" /\ Fresh(s)
    /\ pc' = [pc EXCEPT ![o] = "queued"]
    /\ sid' = [sid EXCEPT ![o] = s]
    /\ at' = [at EXCEPT ![o] = clock]
    /\ UNCHANGED <<clock, stamp, client, up, crashes, nonces, open, keys,
                   now, closeVars, sweepVars, accepts>>

(* The thread ends and its locals are gone.                                *)
OpenEnds(o) ==
    /\ pc' = [pc EXCEPT ![o] = "idle"]
    /\ sid' = [sid EXCEPT ![o] = AnySession]
    /\ at' = [at EXCEPT ![o] = 0]
    /\ now' = [now EXCEPT ![o] = 0]

(* wait_for cancels a call that no worker thread has picked up in time.    *)
Cancelled(o) ==
    /\ pc[o] = "queued" /\ clock > at[o] + OpenTimeout
    /\ OpenEnds(o)
    /\ UNCHANGED <<clock, stamp, client, up, crashes, nonces, open, keys,
                   closeVars, sweepVars, accepts>>

(* nonces.accept, under the book's lock: expire, look up, record.  The     *)
(* thread takes `now` for the session right after it.                      *)
Accept(o) ==
    LET s == sid[o]
        book == Expire(nonces, clock)
    IN  /\ pc[o] = "queued" /\ clock <= at[o] + OpenTimeout
        /\ book[s] = Absent
        /\ nonces' = [book EXCEPT ![s] = clock + TTL]
        /\ now' = [now EXCEPT ![o] = clock]
        /\ pc' = [pc EXCEPT ![o] = "install"]
        /\ accepts' = [accepts EXCEPT ![s] = @ + 1]
        /\ UNCHANGED <<clock, stamp, client, up, crashes, open, keys,
                       sid, at, closeVars, sweepVars>>

(* 403, the nonce is in the book; accept has expired the others.           *)
Refuse(o) ==
    /\ pc[o] = "queued" /\ clock <= at[o] + OpenTimeout
    /\ Expire(nonces, clock)[sid[o]] # Absent
    /\ nonces' = Expire(nonces, clock)
    /\ OpenEnds(o)
    /\ UNCHANGED <<clock, stamp, client, up, crashes, open, keys,
                   closeVars, sweepVars, accepts>>

(* The sweep expires the book without its lock: the dictionary may change  *)
(* size under accept's own expire, which then raises, and open with it.    *)
AcceptRaises(o) ==
    /\ pc[o] = "queued" /\ spc = "nonces"
    /\ OpenEnds(o)
    /\ UNCHANGED <<clock, stamp, client, up, crashes, nonces, open, keys,
                   closeVars, sweepVars, accepts>>

(* ssh_keys.grant: the file is rewritten under the file lock and replaced  *)
(* in one rename.                                                          *)
Install(o) ==
    /\ pc[o] = "install"
    /\ keys' = keys \cup {sid[o]}
    /\ pc' = [pc EXCEPT ![o] = "attest"]
    /\ UNCHANGED <<clock, stamp, client, up, crashes, nonces, open,
                   sid, at, now, closeVars, sweepVars, accepts>>

(* An OSError out of grant (500), or any exception while the attestation   *)
(* is collected: the thread ends, and leaves the file as it is.            *)
OpenRaises(o) ==
    /\ pc[o] \in {"install", "attest"}
    /\ OpenEnds(o)
    /\ UNCHANGED <<clock, stamp, client, up, crashes, nonces, open, keys,
                   closeVars, sweepVars, accepts>>

(* A table entry that counts backwards, and a key that is written again    *)
(* when the session is registered.                                         *)
RegisterBackwards(o) ==
    /\ pc[o] = "attest"
    /\ open' = [open EXCEPT ![sid[o]] = now[o] - TTL]
    /\ pc' = [pc EXCEPT ![o] = "reply"]
    /\ UNCHANGED <<clock, stamp, client, up, crashes, nonces, keys,
                   sid, at, now, closeVars, sweepVars, accepts>>

RegisterRegrants(o) ==
    /\ pc[o] = "attest"
    /\ open' = [open EXCEPT ![sid[o]] = now[o] + TTL]
    /\ keys' = keys \cup {sid[o]}
    /\ pc' = [pc EXCEPT ![o] = "reply"]
    /\ UNCHANGED <<clock, stamp, client, up, crashes, nonces,
                   sid, at, now, closeVars, sweepVars, accepts>>

(* The attestation is there: the session is entered into the table.        *)
Register(o) ==
    /\ pc[o] = "attest"
    /\ open' = [open EXCEPT ![sid[o]] = now[o] + TTL]
    /\ pc' = [pc EXCEPT ![o] = "reply"]
    /\ UNCHANGED <<clock, stamp, client, up, crashes, nonces, keys,
                   sid, at, now, closeVars, sweepVars, accepts>>

(* The grant reaches the validator that still waits for it ...             *)
Reply(o) ==
    /\ pc[o] = "reply" /\ clock <= at[o] + OpenTimeout
    /\ client[sid[o]] = "calling"
    /\ client' = [client EXCEPT ![sid[o]] = "granted"]
    /\ OpenEnds(o)
    /\ UNCHANGED <<clock, stamp, up, crashes, nonces, open, keys,
                   closeVars, sweepVars, accepts>>

(* ... or it is lost: the handler has answered 504 already, or the answer  *)
(* never arrives.  The client's call raises before its try block, so no    *)
(* close will follow.                                                      *)
ReplyLost(o) ==
    /\ pc[o] = "reply"
    /\ client' = [client EXCEPT ![sid[o]] = IF @ = "calling" THEN "over" ELSE @]
    /\ OpenEnds(o)
    /\ UNCHANGED <<clock, stamp, up, crashes, nonces, open, keys,
                   closeVars, sweepVars, accepts>>

-----------------------------------------------------------------------------
(* The validator leaves the session, whatever happened in it: the finally  *)
(* block sends POST /session/close and suppresses any error of it.         *)
ClientLeaves(s) ==
    /\ client[s] = "granted"
    /\ client' = [client EXCEPT ![s] = "closing"]
    /\ UNCHANGED <<clock, stamp, up, crashes, nonces, open, keys,
                   openVars, closeVars, sweepVars, accepts>>

ClientForgets(s) ==
    /\ client[s] = "closing"
    /\ client' = [client EXCEPT ![s] = "over"]
    /\ UNCHANGED <<clock, stamp, up, crashes, nonces, open, keys,
                   openVars, closeVars, sweepVars, accepts>>

(* close: _matching always names the session_id of the request, in the     *)
(* table or not.                                                           *)
Matching(c, s) ==
    /\ up /\ cpc[c] = "idle" /\ client[s] = "closing"
    /\ cpc' = [cpc EXCEPT ![c] = "revoke"]
    /\ csid' = [csid EXCEPT ![c] = s]
    /\ UNCHANGED <<clock, stamp, client, up, crashes, nonces, open, keys,
                   openVars, sweepVars, accepts>>

CloseEnds(c) ==
    /\ cpc' = [cpc EXCEPT ![c] = "idle"]
    /\ csid' = [csid EXCEPT ![c] = AnySession]

CloseRevoke(c) ==
    /\ cpc[c] = "revoke"
    /\ keys' = keys \ {csid[c]}
    /\ cpc' = [cpc EXCEPT ![c] = "pop"]
    /\ UNCHANGED <<clock, stamp, client, up, crashes, nonces, open,
                   csid, openVars, sweepVars, accepts>>

CloseRaises(c) ==
    /\ cpc[c] = "revoke"
    /\ CloseEnds(c)
    /\ UNCHANGED <<clock, stamp, client, up, crashes, nonces, open, keys,
                   openVars, sweepVars, accepts>>

ClosePop(c) ==
    /\ cpc[c] = "pop"
    /\ open' = [open EXCEPT ![csid[c]] = Absent]
    /\ CloseEnds(c)
    /\ UNCHANGED <<clock, stamp, client, up, crashes, nonces, keys,
                   openVars, sweepVars, accepts>>

-----------------------------------------------------------------------------
(* sweep: under the table's lock, drop what has expired and remember what  *)
(* is left.                                                                *)
SweepBegin ==
    /\ up /\ spc = "idle"
    /\ moment' = clock
    /\ expired' = {s \in Session : Stale(open[s], clock)}
    /\ open' = Expire(open, clock)
    /\ known' = {s \in Session : open'[s] # Absent}
    /\ found' = {}
    /\ spc' = "expired"
    /\ UNCHANGED <<clock, stamp, client, up, crashes, nonces, keys,
                   openVars, closeVars, accepts>>

SweepExpired(s) ==
    /\ spc = "expired" /\ s \in expired
    /\ keys' = keys \ {s}
    /\ expired' = expired \ {s}
    /\ UNCHANGED <<clock, stamp, client, up, crashes, nonces, open,
                   spc, moment, known, found, openVars, closeVars, accepts>>

(* A sweep that looks at its table only and never at the file.             *)
SweepTableOnly ==
    /\ spc = "expired" /\ expired = {}
    /\ found' = {}
    /\ spc' = "orphans"
    /\ UNCHANGED <<clock, stamp, client, up, crashes, nonces, open, keys,
                   moment, expired, known, openVars, closeVars, accepts>>

(* active_sessions reads the file without the file lock; whatever is not   *)
(* in the earlier snapshot of the table is an orphan.                      *)
SweepList ==
    /\ spc = "expired" /\ expired = {}
    /\ found' = keys \ known
    /\ spc' = "orphans"
    /\ UNCHANGED <<clock, stamp, client, up, crashes, nonces, open, keys,
                   moment, expired, known, openVars, closeVars, accepts>>

SweepOrphan(s) ==
    /\ spc = "orphans" /\ s \in found
    /\ keys' = keys \ {s}
    /\ found' = found \ {s}
    /\ UNCHANGED <<clock, stamp, client, up, crashes, nonces, open,
                   spc, moment, expired, known, openVars, closeVars, accepts>>

SweepListed ==
    /\ spc = "orphans" /\ found = {}
    /\ spc' = "nonces"
    /\ UNCHANGED <<clock, stamp, client, up, crashes, nonces, open, keys,
                   moment, expired, known, found, openVars, closeVars, accepts>>

SweepEnds == spc' = "idle" /\ moment' = 0 /\ expired' = {} /\ known' = {} /\ found' = {}

(* nonces.expire(moment), with the moment the sweep began at.              *)
SweepNonces ==
    /\ spc = "nonces"
    /\ nonces' = Expire(nonces, moment)
    /\ SweepEnds
    /\ UNCHANGED <<clock, stamp, client, up, crashes, open, keys,
                   openVars, closeVars, accepts>>

(* Any exception ends the sweep (session.sweep_error); the task tries      *)
(* again at the next period.  The sessions in `expired` are already out of *)
(* the table.                                                              *)
SweepRaises ==
    /\ spc # "idle"
    /\ SweepEnds
    /\ UNCHANGED <<clock, stamp, client, up, crashes, nonces, open, keys,
                   openVars, closeVars, accepts>>

-----------------------------------------------------------------------------
(* The process dies with everything it kept in memory ...                  *)
Crash ==
    /\ up /\ crashes < MaxCrashes
    /\ up' = FALSE
    /\ crashes' = crashes + 1
    /\ nonces' = NoEntries /\ open' = NoEntries
    /\ pc' = NoThreads(Opener, "idle") /\ sid' = NoThreads(Opener, AnySession)
    /\ at' = NoThreads(Opener, 0) /\ now' = NoThreads(Opener, 0)
    /\ cpc' = NoThreads(Closer, "idle") /\ csid' = NoThreads(Closer, AnySession)
    /\ SweepEnds
    /\ accepts' = [s \in Session |-> 0]
    /\ UNCHANGED <<clock, stamp, client, keys>>

(* ... and the next one runs revoke_all before it serves.                  *)
Start ==
    /\ ~up
    /\ up' = TRUE
    /\ keys' = {}
    /\ open' = NoEntries
    /\ UNCHANGED <<clock, stamp, client, crashes, nonces,
                   openVars, closeVars, sweepVars, accepts>>

OpenStep(o) ==
    \/ Cancelled(o) \/ Accept(o) \/ Refuse(o) \/ AcceptRaises(o)
    \/ Install(o) \/ OpenRaises(o) \/ Register(o) \/ Reply(o) \/ ReplyLost(o)

CloseStep(c) == CloseRevoke(c) \/ CloseRaises(c) \/ ClosePop(c)

SweepStep ==
    \/ SweepBegin \/ SweepList \/ SweepListed \/ SweepNonces \/ SweepRaises
    \/ \E s \in Session : SweepExpired(s) \/ SweepOrphan(s)

Next ==
    \/ Tick
    \/ \E o \in Opener, s \in Session : Receive(o, s)
    \/ \E o \in Opener : OpenStep(o)
    \/ \E c \in Closer, s \in Session : Matching(c, s)
    \/ \E c \in Closer : CloseStep(c)
    \/ \E s \in Session : ClientLeaves(s) \/ ClientForgets(s)
    \/ SweepStep
    \/ Crash
    \/ Start

Spec == Init /\ [][Next]_vars

(* The sweep task runs for as long as the process does and a dead process  *)
(* is restarted (restart: always in the compose file).  File errors do not *)
(* last: a sweep that keeps coming back to the file gets through in the    *)
(* end.  Nothing is asked of open threads, close calls or validators.      *)
Fairness ==
    /\ WF_vars(Tick) /\ WF_vars(Start) /\ WF_vars(SweepStep)
    /\ SF_vars(SweepList)
    /\ \A s \in Session : SF_vars(SweepOrphan(s))

FairSpec == Spec /\ Fairness

-----------------------------------------------------------------------------
(* No request opens two sessions: within the life of one process a nonce   *)
(* is accepted once, however often and late the request is delivered, and  *)
(* although both the sweep and accept forget old nonces.                   *)
NoReplay == \A s \in Session : accepts[s] <= 1

(* No two threads of the open handler work on the same session, so the     *)
(* unlocked steps between nonce, file and table are those of one thread.   *)
Busy(o) == pc[o] \in {"install", "attest", "reply"}
OneThreadPerSession ==
    \A o, p \in Opener : o # p /\ Busy(o) /\ Busy(p) => sid[o] # sid[p]

(* An installed key is removed again in the end, whichever of its threads  *)
(* failed, hung or was killed, whether or not the validator closed.        *)
KeysAreRemoved == \A s \in Session : s \in keys ~> s \notin keys

(* docs/validator_setup.md: the agent "appends the key to                  *)
(* `authorized_keys` and returns the SSH details".  A grant in the hands   *)
(* of a validator, of a session that is in the table and has not expired,  *)
(* has its key in the file.                                                *)
GrantHasKey ==
    \A s \in Session :
        client[s] = "granted" /\ up /\ open[s] # Absent /\ clock < open[s]
            => s \in keys

(* What the grants promise: see GrantLease.  A key is live while its line  *)
(* is in the file and spent once its nonce was accepted in this life.      *)
Phase(s) ==
    IF s \in keys THEN "live"
    ELSE IF \E o \in Opener : pc[o] = "install" /\ sid[o] = s THEN "reserved"
    ELSE IF accepts[s] > 0 THEN "spent" ELSE "unused"

Lease == INSTANCE GrantLease WITH phase <- [s \in Session |-> Phase(s)]

(* The grants implement the lease.                                         *)
LeaseSpec == Lease!Spec
=============================================================================
