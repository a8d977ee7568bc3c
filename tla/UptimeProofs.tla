------------------------------ MODULE UptimeProofs ------------------------------
(***************************************************************************)
(* Proofs about Uptime, for any rigs, gaps and jumps: no time is credited  *)
(* that the rig did not earn.                                              *)
(*                                                                         *)
(* The property is not inductive: what the next probe will credit depends  *)
(* on when the entry was made, and of that the entry holds the time of the *)
(* wall clock only.  The invariant says that there is such a time.         *)
(***************************************************************************)
EXTENDS Uptime, TLAPS

(* Until when the rig's time can count: while it cannot be reached, the    *)
(* time when it went.                                                      *)
Until(r) == IF away[r] = 0 THEN clock ELSE away[r]

(* What n jumps of the clock may add.                                      *)
Allowed(n) == n * MaxGap

(* What an entry has is covered by the time since the rig was first        *)
(* reached, without its absences, and what jumps of the clock may add.     *)
Covered(e, r) ==
    IF first[r] = 0 THEN e.uptime = 0 /\ ~e.online /\ absent[r] = 0
    ELSE e.uptime + absent[r] <= Until(r) - first[r] + Allowed(jumps)

(* An entry of a rig that was online dates from a time t, after n jumps,   *)
(* when a of the absences were over, and was covered by that time.  What   *)
(* the rig was absent since then was no absence, or a long one.            *)
Dated(e, r, t, n, a) ==
    /\ t <= Until(r) /\ n <= jumps
    /\ n = jumps => e.seen = t + skew
    /\ e.uptime + a <= t - first[r] + Allowed(n)
    /\ absent[r] = a \/ (absent[r] > a + MaxGap /\ absent[r] - a <= Until(r) - t)

EntryInv(e, r) ==
    /\ Covered(e, r)
    /\ e.online => \E t, n, a \in Nat : Dated(e, r, t, n, a)

SkewInv == skew >= (MaxJumps - jumps) * MaxJump

UptimeInv ==
    /\ Type /\ SkewInv
    /\ \A r \in Rig : away[r] <= clock /\ EntryInv(ledger[r], r) /\ EntryInv(disk[r], r)

-----------------------------------------------------------------------------
(* Multiples.                                                              *)
LEMMA Times ==
    ASSUME NEW m \in Nat, NEW n \in Nat, NEW g \in Nat
    PROVE  /\ m * g \in Nat
           /\ m <= n => m * g <= n * g
           /\ m < n => m * g + g <= n * g
<1>1. m * g \in Nat /\ n * g \in Nat
  OBVIOUS
<1>2. CASE m <= n
  <2>1. PICK d \in Nat : n = m + d
    <3>1. n - m \in Nat /\ n = m + (n - m)
      BY <1>2
    <3> QED BY <3>1
  <2>2. n * g = m * g + d * g /\ d * g \in Nat
    BY <2>1
  <2>3. d # 0 => d * g >= g
    <3>1. CASE d # 0
      <4>1. d - 1 \in Nat /\ d * g = (d - 1) * g + g
        BY <3>1
      <4>2. (d - 1) * g \in Nat
        BY <4>1
      <4> QED BY <4>1, <4>2
    <3> QED BY <3>1
  <2> QED BY <1>1, <1>2, <2>1, <2>2, <2>3
<1> QED BY <1>1, <1>2

LEMMA AllowedFacts ==
    ASSUME NEW m \in Nat, NEW n \in Nat
    PROVE  /\ Allowed(m) \in Nat
           /\ m <= n => Allowed(m) <= Allowed(n)
           /\ m < n => Allowed(m) + MaxGap <= Allowed(n)
BY Times, UptimeAssumption DEF Allowed

(* The types of what the invariant speaks of.                              *)
LEMMA Types ==
    ASSUME UptimeInv, NEW r \in Rig
    PROVE  /\ clock \in Nat /\ skew \in Nat /\ jumps \in Nat /\ MaxGap \in Nat \ {0}
           /\ away[r] \in Nat /\ first[r] \in Nat /\ absent[r] \in Nat /\ away[r] <= clock
           /\ Until(r) \in Nat /\ Until(r) <= clock
           /\ ledger[r] \in Reliability /\ disk[r] \in Reliability
           /\ EntryInv(ledger[r], r) /\ EntryInv(disk[r], r)
<1>1. /\ clock \in Nat /\ skew \in Nat /\ jumps \in Nat /\ MaxGap \in Nat \ {0}
      /\ away[r] \in Nat /\ first[r] \in Nat /\ absent[r] \in Nat /\ away[r] <= clock
  BY UptimeAssumption DEF UptimeInv, Type
<1>2. Until(r) \in Nat /\ Until(r) <= clock
  BY <1>1 DEF Until
<1> QED BY <1>1, <1>2 DEF UptimeInv, Type

(* A rig that a ledger has nothing of.                                     *)
LEMMA UnseenCovered ==
    ASSUME UptimeInv, NEW r \in Rig PROVE Unseen \in Reliability /\ EntryInv(Unseen, r)
<1>1. ledger[r].uptime \in Nat /\ Allowed(jumps) \in Nat /\ Covered(ledger[r], r)
  BY Types, AllowedFacts DEF Reliability, EntryInv
<1>2. Unseen \in Reliability /\ Unseen.uptime = 0 /\ ~Unseen.online
  BY DEF Unseen, Reliability
<1> QED BY <1>1, <1>2, Types DEF EntryInv, Covered

(* An entry that was covered by some time in the past, and stays as it is, *)
(* is covered now.                                                         *)
LEMMA DatedCovers ==
    ASSUME UptimeInv, NEW r \in Rig, first[r] # 0, NEW e \in Reliability,
           NEW t \in Nat, NEW n \in Nat, NEW a \in Nat, Dated(e, r, t, n, a)
    PROVE  e.uptime + absent[r] <= Until(r) - first[r] + Allowed(jumps)
<1>1. e.uptime \in Nat
  BY DEF Reliability
<1>2. Allowed(n) \in Nat /\ Allowed(jumps) \in Nat /\ Allowed(n) <= Allowed(jumps)
  BY Types, AllowedFacts DEF Dated
<1> QED BY <1>1, <1>2, Types DEF Dated

(* The world goes on, and an entry stays as it is.                         *)
LEMMA EntryKept ==
    ASSUME UptimeInv, NEW r \in Rig, NEW e \in Reliability, EntryInv(e, r),
           \/ Tick
           \/ \E by \in (-MaxJump..MaxJump) \ {0} : Jump(by)
           \/ \E s \in Rig : Goes(s) \/ ComesBack(s) \/ ProbeAnswers(s)
           \/ UNCHANGED <<clock, skew, jumps, away, first, absent>>
    PROVE  EntryInv(e, r)'
<1>0. e.uptime \in Nat /\ e.seen \in Nat /\ e.online \in BOOLEAN
  BY DEF Reliability
<1> USE Types
<1>1. CASE Tick
  <2>1. clock' = clock + 1 /\ UNCHANGED <<skew, jumps, away, first, absent>>
    BY <1>1 DEF Tick
  <2>2. Until(r) <= Until(r)' /\ Until(r)' \in Nat
    BY <2>1 DEF Until
  <2>3. Allowed(jumps) \in Nat /\ Allowed(jumps)' = Allowed(jumps)
    BY <2>1, AllowedFacts
  <2>4. Covered(e, r)'
    BY <1>0, <2>1, <2>2, <2>3 DEF EntryInv, Covered
  <2>5. ASSUME NEW t \in Nat, NEW n \in Nat, NEW a \in Nat, Dated(e, r, t, n, a)
        PROVE  Dated(e, r, t, n, a)'
    BY <1>0, <2>1, <2>2, <2>5 DEF Dated
  <2> QED BY <2>4, <2>5 DEF EntryInv
<1>2. ASSUME NEW by \in (-MaxJump..MaxJump) \ {0}, Jump(by) PROVE EntryInv(e, r)'
  <2>1. jumps' = jumps + 1 /\ UNCHANGED <<clock, away, first, absent>>
    BY <1>2 DEF Jump
  <2>2. Until(r)' = Until(r)
    BY <2>1 DEF Until
  <2>3. Allowed(jumps) \in Nat /\ Allowed(jumps)' \in Nat /\ Allowed(jumps) <= Allowed(jumps)'
    BY <2>1, AllowedFacts
  <2>4. Covered(e, r)'
    BY <1>0, <2>1, <2>2, <2>3 DEF EntryInv, Covered
  <2>5. ASSUME NEW t \in Nat, NEW n \in Nat, NEW a \in Nat, Dated(e, r, t, n, a)
        PROVE  Dated(e, r, t, n, a)'
    BY <1>0, <2>1, <2>2, <2>5 DEF Dated
  <2> QED BY <2>4, <2>5 DEF EntryInv
<1>3. ASSUME NEW s \in Rig, Goes(s) PROVE EntryInv(e, r)'
  <2>1. /\ UNCHANGED <<clock, skew, jumps, first, absent>> /\ away[s] = 0
        /\ away' = [away EXCEPT ![s] = clock] /\ clock # 0 /\ away \in [Rig -> Nat]
    BY <1>3 DEF Goes, UptimeInv, Type
  <2>2. Until(r)' = Until(r)
    BY <2>1 DEF Until
  <2>3. Covered(e, r)'
    BY <2>1, <2>2 DEF EntryInv, Covered
  <2>4. ASSUME NEW t \in Nat, NEW n \in Nat, NEW a \in Nat, Dated(e, r, t, n, a)
        PROVE  Dated(e, r, t, n, a)'
    BY <2>1, <2>2, <2>4 DEF Dated
  <2> QED BY <2>3, <2>4 DEF EntryInv
<1>4. ASSUME NEW s \in Rig, ComesBack(s) PROVE EntryInv(e, r)'
  <2>1. /\ UNCHANGED <<clock, skew, jumps, first>> /\ away[s] # 0
        /\ away' = [away EXCEPT ![s] = 0] /\ away \in [Rig -> Nat] /\ absent \in [Rig -> Nat]
    BY <1>4 DEF ComesBack, UptimeInv, Type
  <2>2. Allowed(jumps) \in Nat /\ Allowed(jumps)' = Allowed(jumps)
    BY <2>1, AllowedFacts
  <2>3. CASE r # s
    <3>1. away'[r] = away[r] /\ absent'[r] = absent[r]
      BY <1>4, <2>1, <2>3 DEF ComesBack
    <3>2. Until(r)' = Until(r)
      BY <2>1, <3>1 DEF Until
    <3>3. Covered(e, r)'
      BY <2>1, <3>1, <3>2 DEF EntryInv, Covered
    <3>4. ASSUME NEW t \in Nat, NEW n \in Nat, NEW a \in Nat, Dated(e, r, t, n, a)
          PROVE  Dated(e, r, t, n, a)'
      BY <2>1, <3>1, <3>2, <3>4 DEF Dated
    <3> QED BY <3>3, <3>4 DEF EntryInv
  <2>4. CASE r = s
    <3>1. /\ Until(r) = away[r] /\ Until(r)' = clock
          /\ \/ absent'[r] = absent[r]
             \/ absent'[r] = absent[r] + (clock - away[r]) /\ clock - away[r] > MaxGap /\ first[r] # 0
      BY <1>4, <2>1, <2>4 DEF ComesBack, Until
    <3>2. Covered(e, r)'
      BY <1>0, <2>1, <2>2, <3>1 DEF EntryInv, Covered
    <3>3. ASSUME NEW t \in Nat, NEW n \in Nat, NEW a \in Nat, Dated(e, r, t, n, a)
          PROVE  Dated(e, r, t, n, a)'
      BY <1>0, <2>1, <3>1, <3>3 DEF Dated
    <3> QED BY <3>2, <3>3 DEF EntryInv
  <2> QED BY <2>3, <2>4
<1>5. ASSUME NEW s \in Rig, ProbeAnswers(s) PROVE EntryInv(e, r)'
  <2>1. /\ UNCHANGED <<clock, skew, jumps, away, absent>> /\ away[s] = 0
        /\ first' = [first EXCEPT ![s] = IF @ = 0 THEN clock ELSE @] /\ first \in [Rig -> Nat]
    BY <1>5 DEF ProbeAnswers, UptimeInv, Type
  <2>2. Until(r)' = Until(r) /\ Allowed(jumps) \in Nat /\ Allowed(jumps)' = Allowed(jumps)
    BY <2>1, AllowedFacts DEF Until
  <2>3. CASE first'[r] = first[r]
    <3>1. Covered(e, r)'
      BY <2>1, <2>2, <2>3 DEF EntryInv, Covered
    <3>2. ASSUME NEW t \in Nat, NEW n \in Nat, NEW a \in Nat, Dated(e, r, t, n, a)
          PROVE  Dated(e, r, t, n, a)'
      BY <2>1, <2>2, <2>3, <3>2 DEF Dated
    <3> QED BY <3>1, <3>2 DEF EntryInv
  <2>4. CASE r = s /\ first[r] = 0
    <3>1. first'[r] = clock /\ Until(r) = clock
      BY <2>1, <2>4 DEF Until
    <3>2. e.uptime = 0 /\ ~e.online /\ absent[r] = 0
      BY <2>4 DEF EntryInv, Covered
    <3> QED BY <2>1, <2>2, <3>1, <3>2 DEF EntryInv, Covered
  <2> QED BY <2>1, <2>3, <2>4
<1>6. CASE UNCHANGED <<clock, skew, jumps, away, first, absent>>
  BY <1>6 DEF EntryInv, Covered, Dated, Until
<1> QED BY <1>1, <1>2, <1>3, <1>4, <1>5, <1>6

(* A probe that reaches the rig makes an entry that dates from now.        *)
LEMMA EntryAnswered ==
    ASSUME UptimeInv, NEW r \in Rig, ProbeAnswers(r)
    PROVE  ledger'[r] \in Reliability /\ EntryInv(ledger[r], r)'
<1> DEFINE e == ledger[r]
           c == Credit(e, TRUE)
           f == IF first[r] = 0 THEN clock ELSE first[r]
<1>1. /\ UNCHANGED <<clock, skew, jumps, away, absent>> /\ away[r] = 0 /\ first'[r] = f
      /\ ledger'[r] = [uptime |-> e.uptime + c, seen |-> Wall, online |-> TRUE]
  BY DEF ProbeAnswers, Observe, UptimeInv, Type
<1>2. /\ e.uptime \in Nat /\ e.seen \in Nat /\ e.online \in BOOLEAN
      /\ Until(r) = clock /\ Until(r)' = clock /\ Allowed(jumps) \in Nat /\ Allowed(jumps)' = Allowed(jumps)
  BY <1>1, Types, AllowedFacts DEF Reliability, Until
<1>3. Wall = clock + skew /\ Wall \in Nat
  BY Types DEF Wall
<1>4. c \in Nat /\ c <= MaxGap /\ (c # 0 => e.online /\ c = Wall - e.seen)
  BY <1>2, <1>3, Types DEF Credit
<1> HIDE DEF c
<1>5. e.uptime + c + absent[r] <= clock - f + Allowed(jumps)
  <2>1. CASE first[r] = 0
    <3>1. e.uptime = 0 /\ ~e.online /\ absent[r] = 0 /\ c = 0
      BY <1>4, <2>1, Types DEF EntryInv, Covered
    <3> QED BY <1>2, <2>1, <3>1, Types
  <2>2. CASE first[r] # 0 /\ c = 0
    <3>1. e.uptime + absent[r] <= Until(r) - first[r] + Allowed(jumps)
      BY <2>2, Types DEF EntryInv, Covered
    <3> QED BY <1>2, <2>2, <3>1, Types
  <2>3. CASE first[r] # 0 /\ c # 0
    <3>1. PICK t \in Nat, n \in Nat, a \in Nat : Dated(e, r, t, n, a)
      BY <1>4, <2>3, Types DEF EntryInv
    <3>2. /\ t <= clock /\ n <= jumps /\ e.uptime + a <= t - first[r] + Allowed(n)
          /\ absent[r] = a \/ (absent[r] > a + MaxGap /\ absent[r] - a <= clock - t)
      BY <1>2, <3>1 DEF Dated
    <3>3. Allowed(n) \in Nat /\ (n < jumps => Allowed(n) + MaxGap <= Allowed(jumps))
      BY AllowedFacts, Types
    <3>4. CASE n = jumps
      <4>1. c = clock - t
        BY <1>3, <1>4, <2>3, <3>1, <3>4, Types DEF Dated
      <4>2. absent[r] = a
        BY <1>4, <3>2, <4>1, Types
      <4> QED BY <1>2, <2>3, <3>2, <3>3, <3>4, <4>1, <4>2, Types
    <3>5. CASE n < jumps
      BY <1>2, <1>4, <2>3, <3>2, <3>3, <3>5, Types
    <3> QED BY <3>2, <3>4, <3>5, Types
  <2> QED BY <2>1, <2>2, <2>3
<1>6. ledger'[r] \in Reliability
  BY <1>1, <1>2, <1>3, <1>4 DEF Reliability
<1>7. f \in Nat /\ f # 0
  BY Types DEF UptimeInv, Type
<1> HIDE DEF f, e
<1>8. Covered(ledger[r], r)'
  BY <1>1, <1>2, <1>4, <1>5, <1>7, Types DEF Covered
<1>9. Dated(ledger[r], r, clock, jumps, absent[r])'
  BY <1>1, <1>2, <1>3, <1>4, <1>5, <1>7, Types DEF Dated
<1>10. \E t, n, a \in Nat : Dated(ledger[r], r, t, n, a)'
  <2>1. PICK t \in Nat, n \in Nat, a \in Nat : t = clock' /\ n = jumps' /\ a = absent'[r]
    BY <1>1, Types
  <2> QED BY <1>9, <2>1
<1> QED BY <1>6, <1>8, <1>10 DEF EntryInv

(* One that does not makes an entry that earns nothing.                    *)
LEMMA EntryFailed ==
    ASSUME UptimeInv, NEW r \in Rig, ProbeFails(r)
    PROVE  ledger'[r] \in Reliability /\ EntryInv(ledger[r], r)'
<1> DEFINE c == Credit(ledger[r], FALSE)
<1>1. /\ UNCHANGED <<clock, skew, jumps, away, first, absent>>
      /\ ledger'[r] = [uptime |-> ledger[r].uptime + c, seen |-> Wall, online |-> FALSE]
  BY DEF ProbeFails, Observe, UptimeInv, Type
<1>2. c = 0
  BY DEF Credit
<1>3. ledger[r].uptime \in Nat /\ Wall \in Nat
  BY Types DEF Reliability, Wall
<1> HIDE DEF c
<1>4. ledger'[r].uptime = ledger[r].uptime /\ ~ledger'[r].online
  BY <1>1, <1>2, <1>3
<1>5. ledger'[r] \in Reliability
  BY <1>1, <1>2, <1>3 DEF Reliability
<1>6. Until(r)' = Until(r) /\ Allowed(jumps)' = Allowed(jumps)
  BY <1>1 DEF Until
<1>7. Covered(ledger[r], r)'
  BY <1>1, <1>4, <1>6, Types DEF EntryInv, Covered
<1> QED BY <1>4, <1>5, <1>7 DEF EntryInv

LEMMA UptimeInvInit == Init => UptimeInv
<1> SUFFICES ASSUME Init PROVE UptimeInv
  OBVIOUS
<1>1. MaxJumps * MaxJump \in Nat /\ MaxClock \in Nat \ {0} /\ MaxJumps \in Nat
  BY Times, UptimeAssumption
<1>2. Unseen \in Reliability
  BY DEF Unseen, Reliability
<1>3. Type
  <2>1. clock \in 1..MaxClock /\ skew \in Nat /\ jumps \in 0..MaxJumps
    BY <1>1 DEF Init
  <2> QED BY <1>2, <2>1 DEF Init, Type
<1>4. SkewInv
  BY <1>1, UptimeAssumption DEF Init, SkewInv
<1> QED BY <1>3, <1>4 DEF UptimeInv, Init, EntryInv, Covered, Unseen

(* Every step keeps all of it.                                             *)
LEMMA UptimeInvNext == UptimeInv /\ [Next]_vars => UptimeInv'
<1> SUFFICES ASSUME UptimeInv, [Next]_vars PROVE UptimeInv'
  OBVIOUS
<1>0. /\ clock \in 1..MaxClock /\ skew \in Nat /\ jumps \in 0..MaxJumps
      /\ ledger \in [Rig -> Reliability] /\ disk \in [Rig -> Reliability] /\ lastSave \in Nat
      /\ away \in [Rig -> Nat] /\ first \in [Rig -> Nat] /\ absent \in [Rig -> Nat]
      /\ probing \subseteq Rig /\ ticking \in BOOLEAN /\ SkewInv
      /\ {MaxGap, SaveEvery, MaxClock, MaxJumps, MaxJump} \subseteq Nat \ {0}
  BY UptimeAssumption DEF UptimeInv, Type
<1> DEFINE Entries == \A r \in Rig : EntryInv(ledger[r], r)' /\ EntryInv(disk[r], r)'
<1>1. CASE Tick
  <2>1. Entries
    BY <1>1, Types, EntryKept DEF Tick
  <2>2. Type'
    BY <1>0, <1>1 DEF Tick, Type
  <2>3. SkewInv'
    BY <1>0, <1>1 DEF Tick, SkewInv
  <2> QED BY <1>0, <1>1, <2>1, <2>2, <2>3, Types DEF Tick, UptimeInv
<1>2. ASSUME NEW by \in (-MaxJump..MaxJump) \ {0}, Jump(by) PROVE UptimeInv'
  <2>1. Entries
    BY <1>2, Types, EntryKept DEF Jump
  <2>2. jumps' = jumps + 1 /\ skew' = skew + by /\ jumps < MaxJumps /\ by \in Int /\ by >= -MaxJump
    BY <1>0, <1>2 DEF Jump
  <2>3. SkewInv' /\ skew' \in Nat
    <3>1. MaxJumps - (jumps + 1) \in Nat /\ MaxJump \in Nat /\ jumps \in Nat
      BY <1>0, <2>2
    <3>2. (MaxJumps - jumps) * MaxJump = (MaxJumps - (jumps + 1)) * MaxJump + MaxJump
      BY <1>0, <3>1
    <3>3. (MaxJumps - (jumps + 1)) * MaxJump \in Nat
      BY <3>1, Times
    <3>4. skew + by >= (MaxJumps - (jumps + 1)) * MaxJump
      BY <1>0, <2>2, <3>2, <3>3 DEF SkewInv
    <3> QED BY <1>0, <2>2, <3>3, <3>4 DEF SkewInv
  <2>4. Type'
    BY <1>0, <1>2, <2>2, <2>3 DEF Jump, Type
  <2> QED BY <1>0, <1>2, <2>1, <2>3, <2>4, Types DEF Jump, UptimeInv
<1>3. ASSUME NEW s \in Rig, Goes(s) \/ ComesBack(s) PROVE UptimeInv'
  <2>1. Entries
    BY <1>3, Types, EntryKept DEF Goes, ComesBack
  <2>2. Type' /\ \A r \in Rig : away'[r] <= clock'
    <3>1. CASE Goes(s)
      BY <1>0, <3>1, Types DEF Goes, Type
    <3>2. CASE ComesBack(s)
      <4>1. clock - away[s] \in Nat
        BY <1>0, Types
      <4> QED BY <1>0, <3>2, <4>1, Types DEF ComesBack, Type
    <3> QED BY <1>3, <3>1, <3>2
  <2>3. SkewInv'
    BY <1>0, <1>3 DEF Goes, ComesBack, SkewInv
  <2> QED BY <2>1, <2>2, <2>3 DEF UptimeInv
<1>4. ASSUME NEW s \in Rig, ProbeAnswers(s) PROVE UptimeInv'
  <2>1. \A r \in Rig : EntryInv(ledger[r], r)'
    <3> TAKE r \in Rig
    <3>1. CASE r = s
      BY <1>4, <3>1, EntryAnswered
    <3>2. CASE r # s
      <4>1. ledger'[r] = ledger[r]
        BY <1>0, <1>4, <3>2 DEF ProbeAnswers, Observe
      <4> QED BY <1>4, <4>1, Types, EntryKept
    <3> QED BY <3>1, <3>2
  <2>2. \A r \in Rig : EntryInv(disk[r], r)'
    BY <1>4, Types, EntryKept DEF ProbeAnswers
  <2>3. ledger' \in [Rig -> Reliability]
    <3>1. ledger'[s] \in Reliability
      BY <1>4, EntryAnswered
    <3> QED BY <1>0, <1>4, <3>1 DEF ProbeAnswers, Observe
  <2>4. Type'
    <3>1. /\ UNCHANGED <<clock, skew, jumps, disk, lastSave, ticking, away, absent>>
          /\ probing' \subseteq Rig /\ first' \in [Rig -> Nat]
      BY <1>0, <1>4 DEF ProbeAnswers
    <3> QED BY <1>0, <2>3, <3>1 DEF Type
  <2>5. SkewInv' /\ \A r \in Rig : away'[r] <= clock'
    BY <1>0, <1>4, Types DEF ProbeAnswers, SkewInv
  <2> QED BY <2>1, <2>2, <2>4, <2>5 DEF UptimeInv
<1>5. ASSUME NEW s \in Rig, ProbeFails(s) PROVE UptimeInv'
  <2>0. UNCHANGED <<clock, skew, jumps, disk, lastSave, ticking, away, first, absent>>
    BY <1>5 DEF ProbeFails
  <2>1. \A r \in Rig : EntryInv(ledger[r], r)'
    <3> TAKE r \in Rig
    <3>1. CASE r = s
      BY <1>5, <3>1, EntryFailed
    <3>2. CASE r # s
      <4>1. ledger'[r] = ledger[r]
        BY <1>0, <1>5, <3>2 DEF ProbeFails, Observe
      <4> QED BY <2>0, <4>1, Types, EntryKept
    <3> QED BY <3>1, <3>2
  <2>2. \A r \in Rig : EntryInv(disk[r], r)'
    BY <2>0, Types, EntryKept
  <2>3. ledger' \in [Rig -> Reliability]
    <3>1. ledger'[s] \in Reliability
      BY <1>5, EntryFailed
    <3> QED BY <1>0, <1>5, <3>1 DEF ProbeFails, Observe
  <2>4. Type'
    BY <1>0, <1>5, <2>0, <2>3 DEF ProbeFails, Type
  <2>5. SkewInv' /\ \A r \in Rig : away'[r] <= clock'
    BY <1>0, <2>0, Types DEF SkewInv
  <2> QED BY <2>1, <2>2, <2>4, <2>5 DEF UptimeInv
<1>6. ASSUME UNCHANGED <<clock, skew, jumps, away, first, absent>>,
             ledger' \in {ledger, disk, [r \in Rig |-> Unseen]}, disk' \in {ledger, disk},
             lastSave' \in Nat, probing' \subseteq Rig, ticking' \in BOOLEAN
      PROVE  UptimeInv'
  <2>1. ASSUME NEW r \in Rig PROVE EntryInv(ledger[r], r)' /\ EntryInv(disk[r], r)'
    <3>1. ledger'[r] \in {ledger[r], disk[r], Unseen} /\ disk'[r] \in {ledger[r], disk[r]}
      BY <1>6
    <3> QED BY <1>6, <3>1, Types, UnseenCovered, EntryKept
  <2>2. Type'
    BY <1>0, <1>6, UnseenCovered DEF Type
  <2> QED BY <1>0, <1>6, <2>1, <2>2, Types DEF UptimeInv, SkewInv
<1>7. ASSUME NEW rigs \in SUBSET Rig, TickBegins(rigs) PROVE UptimeInv'
  BY <1>0, <1>6, <1>7 DEF TickBegins
<1>8. CASE TickEnds
  <2>1. Wall \in Nat
    BY <1>0 DEF Wall
  <2> QED BY <1>0, <1>6, <1>8, <2>1 DEF TickEnds
<1>9. CASE Restart
  <2>1. disk' \in {ledger, disk} /\ ledger' \in {ledger, disk, [r \in Rig |-> Unseen]}
    BY <1>9 DEF Restart
  <2> QED BY <1>0, <1>6, <1>9, <2>1 DEF Restart
<1>10. CASE UNCHANGED vars
  BY <1>0, <1>6, <1>10 DEF vars
<1> QED BY <1>1, <1>2, <1>3, <1>4, <1>5, <1>7, <1>8, <1>9, <1>10 DEF Next

(* The ledger's entries keep their types, on a clock that is set back too. *)
THEOREM TypeCorrect == Spec => []Type
<1>1. UptimeInv => Type
  BY DEF UptimeInv
<1> QED BY <1>1, UptimeInvInit, UptimeInvNext, PTL DEF Spec

(* UptimeLedger.observe credits no time twice, none before the first probe *)
(* that reached the rig and none of a long absence, over restarts from     *)
(* older files, and a clock that is set gains MAX_GAP_SECONDS at most.     *)
THEOREM UptimeIsEarnedHolds == Spec => []UptimeIsEarned
<1>1. UptimeInv => UptimeIsEarned
  <2> SUFFICES ASSUME UptimeInv, NEW r \in Rig, ledger[r].uptime # 0
               PROVE  ledger[r].uptime + absent[r] <= clock - first[r] + jumps * MaxGap
    BY DEF UptimeIsEarned
  <2>1. ledger[r].uptime + absent[r] <= Until(r) - first[r] + Allowed(jumps)
    BY Types DEF EntryInv, Covered
  <2>2. ledger[r].uptime \in Nat /\ Allowed(jumps) \in Nat
    BY Types, AllowedFacts DEF Reliability
  <2>3. ledger[r].uptime + absent[r] <= clock - first[r] + Allowed(jumps)
    BY <2>1, <2>2, Types
  <2> QED BY <2>3 DEF Allowed
<1> QED BY <1>1, UptimeInvInit, UptimeInvNext, PTL DEF Spec

=============================================================================
