--------------------------- MODULE ControlSocketProofs ---------------------------
(***************************************************************************)
(* Proofs about ControlSocket, for any commands, any depth of the queue    *)
(* and any number of failures: no result is dropped or overtaken, and      *)
(* pings and states stay within the depth.                                 *)
(***************************************************************************)
EXTENDS ControlSocket, SequenceTheorems, FiniteSetTheorems, FunctionTheorems,
        WellFoundedInduction, TLAPS

(* A result is put once, by the command that is done with it.              *)
Finished ==
    /\ \A c \in Command : command[c] = "done" <=> \E i \in 1..Len(finished) : finished[i] = c
    /\ \A i, j \in 1..Len(finished) : finished[i] = finished[j] => i = j

(* What is underway or with the pool is the result of a command that is    *)
(* done ...                                                                *)
Done(m) == m \in Precious => command[m] = "done"
AllDone ==
    /\ \A i \in 1..Len(items) : Done(items[i])
    /\ Done(hand)
    /\ \A i \in 1..Len(got) : Done(got[i])

(* ... and in order: first what the pool has, then the writer's hands,     *)
(* then the queue.                                                         *)
Earlier(c, d) ==
    \E i, j \in 1..Len(finished) : i <= j /\ finished[i] = c /\ finished[j] = d
Before(a, b) == a \in Precious /\ b \in Precious => Earlier(a, b)
ItemsInOrder ==
    /\ \A i, j \in 1..Len(items) : i < j => Before(items[i], items[j])
    /\ \A i \in 1..Len(items) : Before(hand, items[i])
GotInOrder ==
    \A i \in 1..Len(got) :
        /\ \A j \in 1..Len(got) : i < j => Before(got[i], got[j])
        /\ Before(got[i], hand)
        /\ \A j \in 1..Len(items) : Before(got[i], items[j])

(* The room that pings and states take up, the one in the writer's hands   *)
(* included, which may come back.                                          *)
RoomTaken == Count(items, Droppable) + (IF hand \in Droppable THEN 1 ELSE 0)

QueueInv == Type /\ RoomTaken <= MaxDepth + 1
OrderInv == Finished /\ AllDone /\ ItemsInOrder /\ GotInOrder

-----------------------------------------------------------------------------
(* A non-empty set of naturals has its minimum.                            *)
LEMMA MinNat == ASSUME NEW S \in SUBSET Nat, S # {} PROVE Min(S) \in S /\ \A y \in S : Min(S) <= y
<1> DEFINE R == {ss \in Nat \X Nat : ss[1] < ss[2]}
<1>0. OpToRel(<, Nat) = R
  BY Zenon DEF OpToRel
<1>1. IsWellFoundedOn(R, Nat)
  BY <1>0, NatLessThanWellFounded
<1> HIDE DEF R
<1>2. PICK x \in S : \A y \in S : ~(<<y, x>> \in R)
  BY <1>1, WFMin
<1>3. \A y \in S : y < x => <<y, x>> \in R
  BY DEF R
<1>4. \A y \in S : x <= y
  <2> TAKE y \in S
  <2>1. x \in Nat /\ y \in Nat /\ ~(y < x)
    BY <1>2, <1>3
  <2> QED BY <2>1
<1> QED BY <1>4 DEF Min

(* RemoveAt takes out one position and moves up what follows.              *)
LEMMA RemoveAtFacts == ASSUME NEW S, NEW s \in Seq(S), NEW k \in 1..Len(s)
  PROVE  /\ RemoveAt(s, k) \in Seq(S) /\ Len(RemoveAt(s, k)) = Len(s) - 1
         /\ \A j \in 1..Len(s)-1 : RemoveAt(s,k)[j] = IF j < k THEN s[j] ELSE s[j+1]
<1> DEFINE a == SubSeq(s, 1, k-1)
           b == SubSeq(s, k+1, Len(s))
<1>1. a \in Seq(S) /\ Len(a) = k-1 /\ \A j \in 1..k-1 : a[j] = s[j]
  OBVIOUS
<1>2. b \in Seq(S) /\ Len(b) = Len(s)-k /\ \A j \in 1..Len(s)-k : b[j] = s[k+j]
  OBVIOUS
<1>3. RemoveAt(s, k) = a \o b BY DEF RemoveAt
<1> HIDE DEF a, b
<1>4. a \o b \in Seq(S) /\ Len(a \o b) = Len(a) + Len(b) BY <1>1, <1>2, ConcatProperties
<1>5. \A j \in 1..Len(s)-1 : (a \o b)[j] = IF j <= Len(a) THEN a[j] ELSE b[j - Len(a)] BY <1>1, <1>2
<1>6. Len(s) \in Nat OBVIOUS
<1>7. \A j \in 1..Len(s)-1 : (a \o b)[j] = IF j < k THEN s[j] ELSE s[j+1]
  <2> TAKE j \in 1..Len(s)-1
  <2>1. CASE j < k BY <1>1, <1>5, <1>6, <2>1
  <2>2. CASE ~(j < k) 
    <3>1. j - (k-1) \in 1..Len(s)-k BY <1>6, <2>2
    <3>2. b[j - (k-1)] = s[k + (j - (k-1))] BY <1>2, <3>1
    <3>3. k + (j-(k-1)) = j + 1 OBVIOUS
    <3>4. ~(j <= Len(a)) /\ Len(a) = k-1 BY <1>1, <2>2
    <3>5. (a \o b)[j] = b[j - (k-1)] BY <1>5, <3>4
    <3> QED BY <2>2, <3>5, <3>2, <3>3
  <2> QED BY <2>1, <2>2
<1> QED BY <1>1, <1>2, <1>3, <1>4, <1>6, <1>7

(* _drop_oldest_droppable takes out one ping or state, if there is one.    *)
LEMMA DropOldestFacts ==
    ASSUME NEW q \in Seq(Message)
    PROVE  \/ DropOldest(q) = q
           \/ \E k \in 1..Len(q) : q[k] \in Droppable /\ DropOldest(q) = RemoveAt(q, k)
<1> DEFINE I == {i \in 1..Len(q) : q[i] \in Droppable}
<1>1. I \in SUBSET Nat
  OBVIOUS
<1>2. SelectInSeq(q, LAMBDA m : m \in Droppable) = IF I # {} THEN Min(I) ELSE 0
  BY DEF SelectInSeq
<1>3. CASE I = {}
  BY <1>2, <1>3 DEF DropOldest
<1>4. CASE I # {}
  <2>1. Min(I) \in I
    BY <1>1, <1>4, MinNat
  <2>2. Min(I) # 0
    BY <2>1
  <2> HIDE DEF I
  <2>3. DropOldest(q) = RemoveAt(q, Min(I))
    BY <1>2, <1>4, <2>2 DEF DropOldest
  <2> QED BY <2>1, <2>3 DEF I
<1> QED BY <1>3, <1>4

(* r is q without some of its pings and states: the same results, in the   *)
(* same order.                                                             *)
Thinned(q, r) ==
    /\ r \in Seq(Message) /\ Len(r) <= Len(q)
    /\ \A i \in 1..Len(r) : \E k \in 1..Len(q) : q[k] = r[i]
    /\ \A i, j \in 1..Len(r) : i < j => \E k, l \in 1..Len(q) : k < l /\ q[k] = r[i] /\ q[l] = r[j]
    /\ \A k \in 1..Len(q) : q[k] \in Precious => \E i \in 1..Len(r) : r[i] = q[k]

LEMMA ThinnedSame ==
    ASSUME NEW q \in Seq(Message)
    PROVE  Thinned(q, q)
BY DEF Thinned

(* The places that pings and states take up in a queue.                    *)
Places(q) == {i \in 1..Len(q) : q[i] \in Droppable}

LEMMA CountFacts ==
    ASSUME NEW q \in Seq(Message)
    PROVE  /\ IsFiniteSet(Places(q)) /\ Count(q, Droppable) = Cardinality(Places(q))
           /\ Count(q, Droppable) \in Nat /\ Count(q, Droppable) <= Len(q)
<1>1. Len(q) \in Nat /\ DOMAIN q = 1..Len(q)
  OBVIOUS
<1>2. IsFiniteSet(1..Len(q)) /\ Cardinality(1..Len(q)) = Len(q)
  <2>1. IsFiniteSet(1..Len(q)) /\ Cardinality(1..Len(q)) = IF 1 > Len(q) THEN 0 ELSE Len(q) - 1 + 1
    BY <1>1, FS_Interval
  <2> QED BY <1>1, <2>1
<1>3. Places(q) \in SUBSET (1..Len(q))
  BY DEF Places
<1>4. IsFiniteSet(Places(q)) /\ Cardinality(Places(q)) <= Cardinality(1..Len(q))
  BY <1>2, <1>3, FS_Subset
<1>5. Cardinality(Places(q)) \in Nat
  BY <1>4, FS_CardinalityType
<1>6. Count(q, Droppable) = Cardinality(Places(q))
  BY <1>1 DEF Count, Places
<1> QED BY <1>2, <1>4, <1>5, <1>6

(* Places that go one by one to places of a finite set are no more.        *)
LEMMA PlacesMap ==
    ASSUME NEW S, NEW T, IsFiniteSet(T), NEW f \in [S -> T],
           \A a, b \in S : f[a] = f[b] => a = b
    PROVE  Cardinality(S) <= Cardinality(T)
<1>1. f \in Injection(S, T)
  BY Fun_IsInj
<1> QED BY <1>1, FS_Injection

LEMMA DropThins ==
    ASSUME NEW q \in Seq(Message)
    PROVE  Thinned(q, DropOldest(q)) /\ Count(DropOldest(q), Droppable) <= Count(q, Droppable)
<1>1. CASE DropOldest(q) = q
  BY <1>1, ThinnedSame, CountFacts
<1>2. ASSUME NEW k \in 1..Len(q), q[k] \in Droppable, DropOldest(q) = RemoveAt(q, k)
      PROVE  Thinned(q, DropOldest(q)) /\ Count(DropOldest(q), Droppable) <= Count(q, Droppable)
  <2> DEFINE r == RemoveAt(q, k)
             at == [i \in 1..Len(r) |-> IF i < k THEN i ELSE i + 1]
  <2>1. /\ r \in Seq(Message) /\ Len(r) = Len(q) - 1
        /\ \A i \in 1..Len(q)-1 : r[i] = IF i < k THEN q[i] ELSE q[i + 1]
    BY RemoveAtFacts
  <2>2. Len(q) \in Nat /\ Len(r) \in Nat
    BY <2>1
  <2> HIDE DEF r
  <2>3. \A i \in 1..Len(r) : at[i] \in 1..Len(q) /\ q[at[i]] = r[i]
    BY <2>1, <2>2
  <2>4. \A i, j \in 1..Len(r) : i < j => at[i] < at[j]
    BY <2>1, <2>2
  <2>5. \A i, j \in 1..Len(r) : at[i] = at[j] => i = j
    BY <2>1, <2>2
  <2>6. \A l \in 1..Len(q) : l # k => \E i \in 1..Len(r) : at[i] = l
    <3> TAKE l \in 1..Len(q)
    <3>1. CASE l < k
      BY <2>1, <2>2, <3>1
    <3>2. CASE l > k
      <4>1. l - 1 \in 1..Len(r) /\ at[l - 1] = l
        BY <2>1, <2>2, <3>2
      <4> QED BY <4>1
    <3> QED BY <3>1, <3>2
  <2> DEFINE g == [i \in Places(r) |-> at[i]]
  <2>7. at \in [1..Len(r) -> 1..Len(q)]
    BY <2>3
  <2> HIDE DEF at
  <2>8. g \in [Places(r) -> Places(q)]
    BY <2>3 DEF Places
  <2>9. \A a, b \in Places(r) : g[a] = g[b] => a = b
    BY <2>5 DEF Places
  <2>10. Count(r, Droppable) <= Count(q, Droppable)
    <3>1. Cardinality(Places(r)) <= Cardinality(Places(q))
      BY <2>8, <2>9, CountFacts, PlacesMap
    <3> QED BY <2>1, <3>1, CountFacts
  <2>11. \A l \in 1..Len(q) : q[l] \in Precious => \E i \in 1..Len(r) : r[i] = q[l]
    <3>1. \A l \in 1..Len(q) : q[l] \in Precious => l # k
      BY <1>2, QueueAssumption DEF Precious
    <3> QED BY <2>3, <2>6, <3>1
  <2>12. \A i, j \in 1..Len(r) : i < j => \E l, m \in 1..Len(q) : l < m /\ q[l] = r[i] /\ q[m] = r[j]
    BY <2>3, <2>4
  <2>13. \A i \in 1..Len(r) : \E l \in 1..Len(q) : q[l] = r[i]
    BY <2>3
  <2>14. Thinned(q, r)
    <3>1. r \in Seq(Message) /\ Len(r) <= Len(q)
      BY <2>1, <2>2
    <3> QED BY <2>11, <2>12, <2>13, <3>1, Zenon DEF Thinned
  <2> QED BY <1>2, <2>10, <2>14 DEF r
<1> QED BY <1>1, <1>2, DropOldestFacts

(* A message in front of, or behind, a queue takes up one place at most.   *)
LEMMA FrontFacts ==
    ASSUME NEW q \in Seq(Message), NEW m \in Message
    PROVE  /\ <<m>> \o q \in Seq(Message) /\ Len(<<m>> \o q) = Len(q) + 1
           /\ (<<m>> \o q)[1] = m /\ \A i \in 1..Len(q) : (<<m>> \o q)[i + 1] = q[i]
           /\ Count(<<m>> \o q, Droppable) <= Count(q, Droppable) + (IF m \in Droppable THEN 1 ELSE 0)
<1> DEFINE r == <<m>> \o q
<1>1. r \in Seq(Message) /\ Len(r) = Len(q) + 1 /\ r[1] = m /\ Len(q) \in Nat
  OBVIOUS
<1>2. \A i \in 1..Len(q) : r[i + 1] = q[i]
  OBVIOUS
<1> HIDE DEF r
<1> DEFINE g == [i \in Places(r) \ {1} |-> i - 1]
<1>3. \A i \in 2..Len(r) : i - 1 \in 1..Len(q) /\ r[i] = q[i - 1]
  <2> TAKE i \in 2..Len(r)
  <2>1. i - 1 \in 1..Len(q) /\ (i - 1) + 1 = i
    BY <1>1
  <2> QED BY <1>2, <2>1
<1>4. g \in [Places(r) \ {1} -> Places(q)]
  <2>1. \A i \in Places(r) \ {1} : i \in 2..Len(r) /\ r[i] \in Droppable
    BY <1>1 DEF Places
  <2>2. \A i \in Places(r) \ {1} : i - 1 \in Places(q)
    BY <1>3, <2>1 DEF Places
  <2> QED BY <2>2
<1>5. \A a, b \in Places(r) \ {1} : g[a] = g[b] => a = b
  <2>1. Places(r) \subseteq Int
    BY DEF Places
  <2> QED BY <2>1
<1> HIDE DEF g
<1>6. Cardinality(Places(r) \ {1}) <= Cardinality(Places(q))
  BY <1>4, <1>5, CountFacts, PlacesMap
<1>7. Cardinality(Places(r) \ {1}) = IF 1 \in Places(r) THEN Cardinality(Places(r)) - 1
                                     ELSE Cardinality(Places(r))
  BY <1>1, CountFacts, FS_RemoveElement
<1>8. 1 \in Places(r) <=> m \in Droppable
  BY <1>1 DEF Places
<1>9. Count(r, Droppable) = Cardinality(Places(r)) /\ Count(r, Droppable) \in Nat
  BY <1>1, CountFacts
<1>10. Count(q, Droppable) = Cardinality(Places(q)) /\ Count(q, Droppable) \in Nat
  BY CountFacts
<1>11. Count(r, Droppable) <= Count(q, Droppable) + (IF m \in Droppable THEN 1 ELSE 0)
  BY <1>6, <1>7, <1>8, <1>9, <1>10
<1> QED BY <1>1, <1>2, <1>11 DEF r

LEMMA BackFacts ==
    ASSUME NEW q \in Seq(Message), NEW m \in Message
    PROVE  /\ Append(q, m) \in Seq(Message) /\ Len(Append(q, m)) = Len(q) + 1
           /\ Append(q, m)[Len(q) + 1] = m /\ \A i \in 1..Len(q) : Append(q, m)[i] = q[i]
           /\ Count(Append(q, m), Droppable) <= Count(q, Droppable) + (IF m \in Droppable THEN 1 ELSE 0)
<1> DEFINE r == Append(q, m)
           n == Len(q) + 1
<1>1. r \in Seq(Message) /\ Len(r) = n /\ r[n] = m /\ Len(q) \in Nat
  OBVIOUS
<1>2. \A i \in 1..Len(q) : r[i] = q[i]
  OBVIOUS
<1> HIDE DEF r
<1>3. Places(r) \ {n} \in SUBSET Places(q)
  BY <1>1, <1>2 DEF Places
<1>4. n \in Places(r) <=> m \in Droppable
  BY <1>1 DEF Places
<1> HIDE DEF n
<1>5. Cardinality(Places(r) \ {n}) <= Cardinality(Places(q))
  BY <1>3, CountFacts, FS_Subset
<1>6. Cardinality(Places(r) \ {n}) = IF n \in Places(r) THEN Cardinality(Places(r)) - 1
                                     ELSE Cardinality(Places(r))
  BY <1>1, CountFacts, FS_RemoveElement
<1>7. Count(r, Droppable) = Cardinality(Places(r)) /\ Count(r, Droppable) \in Nat
  BY <1>1, CountFacts
<1>8. Count(q, Droppable) = Cardinality(Places(q)) /\ Count(q, Droppable) \in Nat
  BY CountFacts
<1>9. Count(r, Droppable) <= Count(q, Droppable) + (IF m \in Droppable THEN 1 ELSE 0)
  BY <1>4, <1>5, <1>6, <1>7, <1>8
<1> QED BY <1>1, <1>2, <1>9 DEF r, n

(* The writer takes a message out of its place.                            *)
LEMMA TailFacts ==
    ASSUME NEW q \in Seq(Message), q # <<>>
    PROVE  /\ Tail(q) \in Seq(Message) /\ Head(q) = q[1] /\ q[1] \in Message /\ Len(q) \in Nat \ {0}
           /\ Len(Tail(q)) = Len(q) - 1 /\ \A i \in 1..Len(Tail(q)) : Tail(q)[i] = q[i + 1]
           /\ Count(Tail(q), Droppable) + (IF Head(q) \in Droppable THEN 1 ELSE 0) <= Count(q, Droppable)
<1> DEFINE r == Tail(q)
<1>1. r \in Seq(Message) /\ Len(r) = Len(q) - 1 /\ Head(q) = q[1] /\ q[1] \in Message
      /\ Len(q) \in Nat \ {0} /\ Len(r) \in Nat
  OBVIOUS
<1>2. \A i \in 1..Len(r) : r[i] = q[i + 1]
  OBVIOUS
<1> HIDE DEF r
<1> DEFINE g == [i \in Places(r) |-> i + 1]
<1>3. \A i \in Places(r) : i \in Int /\ i + 1 \in Places(q) \ {1}
  BY <1>1, <1>2 DEF Places
<1>4. g \in [Places(r) -> Places(q) \ {1}]
  BY <1>3
<1>5. \A a, b \in Places(r) : g[a] = g[b] => a = b
  BY <1>3
<1> HIDE DEF g
<1>6. IsFiniteSet(Places(q) \ {1}) /\ Cardinality(Places(q) \ {1}) =
          IF 1 \in Places(q) THEN Cardinality(Places(q)) - 1 ELSE Cardinality(Places(q))
  BY CountFacts, FS_RemoveElement
<1>7. Cardinality(Places(r)) <= Cardinality(Places(q) \ {1})
  BY <1>4, <1>5, <1>6, PlacesMap
<1>8. 1 \in Places(q) <=> Head(q) \in Droppable
  BY <1>1 DEF Places
<1>9. Count(r, Droppable) = Cardinality(Places(r)) /\ Count(r, Droppable) \in Nat
  BY <1>1, CountFacts
<1>10. Count(q, Droppable) = Cardinality(Places(q)) /\ Count(q, Droppable) \in Nat
  BY CountFacts
<1>11. Count(r, Droppable) + (IF Head(q) \in Droppable THEN 1 ELSE 0) <= Count(q, Droppable)
  BY <1>6, <1>7, <1>8, <1>9, <1>10
<1> QED BY <1>1, <1>2, <1>11 DEF r

(* put: a message that is not precious goes into room that is there, and   *)
(* what is put goes before or behind the results of the queue as they were.*)
LEMMA PutFacts ==
    ASSUME NEW q \in Seq(Message), NEW m \in Message, NEW front \in BOOLEAN
    PROVE  \E r : /\ Thinned(q, r) /\ Count(r, Droppable) <= Count(q, Droppable)
                  /\ \/ m \notin Precious /\ Put(q, m, front) = r
                     \/ /\ m \notin Precious => Len(r) < MaxDepth
                        /\ Put(q, m, front) = IF front THEN <<m>> \o r ELSE Append(r, m)
<1> DEFINE room == IF Len(q) >= MaxDepth THEN DropOldest(q) ELSE q
<1>1. Thinned(q, room) /\ Count(room, Droppable) <= Count(q, Droppable)
  BY ThinnedSame, DropThins, CountFacts
<1>2. Put(q, m, front) = IF m \notin Precious /\ Len(room) >= MaxDepth THEN room
                         ELSE IF front THEN <<m>> \o room ELSE Append(room, m)
  BY DEF Put
<1>3. Len(room) \in Nat /\ MaxDepth \in Nat
  BY <1>1, QueueAssumption DEF Thinned
<1> HIDE DEF room
<1>4. CASE m \notin Precious /\ Len(room) >= MaxDepth
  BY <1>1, <1>2, <1>4
<1>5. CASE ~(m \notin Precious /\ Len(room) >= MaxDepth)
  <2>1. m \notin Precious => Len(room) < MaxDepth
    BY <1>3, <1>5
  <2>2. Put(q, m, front) = IF front THEN <<m>> \o room ELSE Append(room, m)
    BY <1>2, <1>5
  <2> QED BY <1>1, <2>1, <2>2
<1> QED BY <1>4, <1>5

-----------------------------------------------------------------------------
(* Pings and states stay within the depth.  The one in the writer's hands  *)
(* has to be counted with the queue: a failed send puts it back, and the   *)
(* queue may have filled up meanwhile.                                     *)
LEMMA PutKeepsRoom ==
    ASSUME QueueInv, NEW m \in Message, NEW front \in BOOLEAN
    PROVE  /\ Put(items, m, front) \in Seq(Message)
           /\ Count(Put(items, m, front), Droppable) + (IF hand \in Droppable THEN 1 ELSE 0) <= MaxDepth + 1
<1> DEFINE h == IF hand \in Droppable THEN 1 ELSE 0
           p == Put(items, m, front)
<1>0. MaxDepth \in Nat /\ h \in {0, 1}
  BY QueueAssumption
<1>1. items \in Seq(Message) /\ Count(items, Droppable) \in Nat /\ Count(items, Droppable) + h <= MaxDepth + 1
  BY CountFacts DEF QueueInv, Type, RoomTaken
<1>2. PICK r : /\ Thinned(items, r) /\ Count(r, Droppable) <= Count(items, Droppable)
               /\ \/ m \notin Precious /\ p = r
                  \/ /\ m \notin Precious => Len(r) < MaxDepth
                     /\ p = IF front THEN <<m>> \o r ELSE Append(r, m)
  BY <1>1, PutFacts
<1>3. r \in Seq(Message) /\ Count(r, Droppable) \in Nat /\ Count(r, Droppable) <= Len(r) /\ Len(r) \in Nat
  BY <1>2, CountFacts DEF Thinned
<1> HIDE DEF h, p
<1>4. CASE p = r
  BY <1>0, <1>1, <1>2, <1>3, <1>4 DEF h, p
<1>5. CASE p = IF front THEN <<m>> \o r ELSE Append(r, m)
  <2>1. /\ p \in Seq(Message) /\ Count(p, Droppable) \in Nat
        /\ Count(p, Droppable) <= Count(r, Droppable) + (IF m \in Droppable THEN 1 ELSE 0)
    BY <1>3, <1>5, FrontFacts, BackFacts, CountFacts
  <2>2. CASE m \in Precious
    <3>1. m \notin Droppable
      BY <2>2, QueueAssumption DEF Precious
    <3> QED BY <1>0, <1>1, <1>2, <1>3, <2>1, <3>1 DEF h, p
  <2>3. CASE m \notin Precious
    BY <1>0, <1>1, <1>2, <1>3, <1>4, <2>1, <2>3 DEF h, p
  <2> QED BY <2>2, <2>3
<1> QED BY <1>2, <1>4, <1>5

LEMMA ReceiveFacts ==
    ASSUME QueueInv, Receive(hand)
    PROVE  got' \in Seq(Command)
<1>1. CASE hand \in Command
  BY <1>1 DEF Receive, Precious, QueueInv, Type
<1>2. CASE hand \notin Command
  BY <1>2 DEF Receive, Precious, QueueInv, Type
<1> QED BY <1>1, <1>2

(* Nothing is queued to begin with.                                        *)
LEMMA QueueInvInit == Init => QueueInv
<1> SUFFICES ASSUME Init PROVE QueueInv
  OBVIOUS
<1>1. Type
  <2>1. 0 \in 0..MaxPuts /\ 0 \in 0..MaxFailures
    BY QueueAssumption
  <2>2. items \in Seq(Message) /\ finished \in Seq(Command) /\ got \in Seq(Command)
    BY DEF Init
  <2> QED BY <2>1, <2>2, Zenon DEF Init, Type
<1>2. Count(items, Droppable) = 0
  <2>1. {i \in DOMAIN items : items[i] \in Droppable} = {}
    BY DEF Init
  <2> QED BY <2>1, FS_EmptySet DEF Count
<1> QED BY <1>1, <1>2, QueueAssumption DEF QueueInv, RoomTaken, Init, Message

(* Every step keeps the types, and the depth.                              *)
LEMMA QueueInvNext == QueueInv /\ [Next]_vars => QueueInv'
<1> SUFFICES ASSUME QueueInv, [Next]_vars PROVE QueueInv'
  OBVIOUS
<1> USE QueueAssumption DEF Fault, poolVars
<1>0. Count(items, Droppable) \in Nat
  BY CountFacts DEF QueueInv, Type
<1>1. CASE Connect \/ Refused \/ ConnectFails \/ LinkFails \/ Forgets
  <2> USE DEF Connect, Refused, ConnectFails, LinkFails, Forgets
  <2>1. items' = items /\ hand' = hand /\ command' = command /\ finished' = finished
        /\ got' = got /\ lost' = lost
    BY <1>1
  <2>2. known' \in BOOLEAN /\ need' \in BOOLEAN
    BY <1>1, Zenon DEF QueueInv, Type
  <2>3. session' \in BOOLEAN /\ link' \in {"live", "closed", "broken", "silent"}
    BY <1>1 DEF QueueInv, Type
  <2>4. puts' \in 0..MaxPuts /\ failures' \in 0..MaxFailures
    BY <1>1 DEF QueueInv, Type
  <2> QED BY <2>1, <2>2, <2>3, <2>4 DEF QueueInv, Type, RoomTaken
<1>2. ASSUME NEW c \in Command, ReadCommand(c) PROVE QueueInv'
  BY <1>2 DEF ReadCommand, QueueInv, Type, RoomTaken
<1>3. ASSUME NEW c \in Command, Execute(c) PROVE QueueInv'
  <2>1. RoomTaken' <= MaxDepth + 1 /\ items' \in Seq(Message)
    BY <1>3, PutKeepsRoom DEF Execute, RoomTaken, Message, Precious
  <2>2. finished' \in Seq(Command)
    BY <1>3 DEF Execute, QueueInv, Type
  <2> QED BY <1>3, <2>1, <2>2 DEF Execute, QueueInv, Type
<1>4. CASE Ping \/ State
  <2>1. RoomTaken' <= MaxDepth + 1 /\ items' \in Seq(Message)
    BY <1>4, PutKeepsRoom DEF Ping, State, RoomTaken, Message, Droppable
  <2>2. puts' \in 0..MaxPuts
    <3>1. puts < MaxPuts /\ puts' = puts + 1
      BY <1>4, Zenon DEF Ping, State
    <3>2. puts \in 0..MaxPuts
      BY DEF QueueInv, Type
    <3> QED BY <3>1, <3>2
  <2>3. UNCHANGED <<hand, session, link, known, need, command, failures, finished, got, lost>>
    BY <1>4 DEF Ping, State
  <2> QED BY <2>1, <2>2, <2>3 DEF QueueInv, Type
<1>5. CASE ReaderRaises \/ PingerRaises \/ Send \/ SendUnseen
  <2>1. hand' = None /\ items' = items
    BY <1>5 DEF ReaderRaises, PingerRaises, Send, SendUnseen, Unseen
  <2>2. RoomTaken' <= MaxDepth + 1
    BY <1>0, <2>1 DEF RoomTaken, QueueInv, Message
  <2>3. got' \in Seq(Command) /\ lost' \subseteq Command
    <3>1. Receive(hand) => got' \in Seq(Command)
      BY ReceiveFacts
    <3>2. Lose(hand) => lost' \subseteq Command
      BY DEF Lose, QueueInv, Type, Precious
    <3> QED BY <1>5, <3>1, <3>2 DEF ReaderRaises, PingerRaises, Send, SendUnseen, Unseen, QueueInv, Type
  <2> QED BY <1>5, <2>1, <2>2, <2>3
          DEF ReaderRaises, PingerRaises, Send, SendUnseen, SessionEnds, QueueInv, Type
<1>6. CASE Get
  <2>1. items \in Seq(Message) /\ items # <<>> /\ hand = None
    BY <1>6 DEF Get, QueueInv, Type
  <2>2. /\ items' \in Seq(Message) /\ hand' \in Message
        /\ Count(items', Droppable) + (IF hand' \in Droppable THEN 1 ELSE 0) <= Count(items, Droppable)
    BY <1>6, <2>1, TailFacts DEF Get
  <2>3. Count(items', Droppable) \in Nat
    BY <2>2, CountFacts
  <2>4. Count(items, Droppable) <= MaxDepth + 1
    BY <1>0, <2>1 DEF QueueInv, RoomTaken, Message
  <2>5. RoomTaken' <= MaxDepth + 1
    BY <1>0, <2>2, <2>3, <2>4 DEF RoomTaken
  <2> QED BY <1>6, <2>2, <2>5 DEF Get, QueueInv, Type
<1>7. CASE WriterRaises
  <2>1. items \in Seq(Message) /\ hand \in Message /\ items' = <<hand>> \o items /\ hand' = None
    BY <1>7 DEF WriterRaises, Requeue, QueueInv, Type
  <2>2. /\ items' \in Seq(Message)
        /\ Count(items', Droppable) <= Count(items, Droppable) + (IF hand \in Droppable THEN 1 ELSE 0)
    BY <2>1, FrontFacts
  <2>3. Count(items', Droppable) \in Nat
    BY <2>2, CountFacts
  <2>4. RoomTaken' <= MaxDepth + 1
    BY <1>0, <2>1, <2>2, <2>3 DEF RoomTaken, QueueInv, Message
  <2>5. got' \in Seq(Command)
    BY <1>7, ReceiveFacts DEF WriterRaises, QueueInv, Type
  <2> QED BY <1>7, <2>2, <2>4, <2>5 DEF WriterRaises, SessionEnds, QueueInv, Type
<1>8. CASE ProcessEnds
  <2>1. items' = <<>> /\ hand' = None
    BY <1>8 DEF ProcessEnds
  <2>2. Count(items', Droppable) = 0
    <3>1. {i \in DOMAIN items' : items'[i] \in Droppable} = {}
      BY <2>1
    <3> QED BY <3>1, FS_EmptySet DEF Count
  <2>3. RoomTaken' <= MaxDepth + 1
    BY <2>1, <2>2 DEF RoomTaken, Message
  <2>4. known' \in BOOLEAN /\ need' \in BOOLEAN /\ session' \in BOOLEAN
    BY <1>8, Zenon DEF ProcessEnds, QueueInv, Type
  <2>5. /\ command' \in [Command -> {"unsent", "running", "done", "gone"}]
        /\ lost' \subseteq Command
    BY <1>8 DEF ProcessEnds, QueueInv, Type, Precious
  <2>6. puts' \in 0..MaxPuts /\ failures' \in 0..MaxFailures
    BY <1>8 DEF ProcessEnds, QueueInv, Type
  <2> QED BY <1>8, <2>1, <2>3, <2>4, <2>5, <2>6 DEF ProcessEnds, QueueInv, Type
<1>9. CASE UNCHANGED vars
  BY <1>9 DEF vars, QueueInv, Type, RoomTaken
<1> QED BY <1>1, <1>2, <1>3, <1>4, <1>5, <1>6, <1>7, <1>8, <1>9 DEF Next

(* Every variable keeps its type.                                          *)
THEOREM TypeCorrect == Spec => []Type
<1>1. QueueInv => Type
  BY DEF QueueInv
<1> QED BY <1>1, QueueInvInit, QueueInvNext, PTL DEF Spec

(* OutboundQueue holds no more pings and states than its depth, and one    *)
(* that a failed send put back.                                            *)
THEOREM QueueBoundedHolds == Spec => []QueueBounded
<1>1. QueueInv => QueueBounded
  <2> SUFFICES ASSUME QueueInv PROVE QueueBounded
    OBVIOUS
  <2>1. Count(items, Droppable) \in Nat
    BY CountFacts DEF QueueInv, Type
  <2> QED BY <2>1, QueueAssumption DEF QueueInv, RoomTaken, QueueBounded
<1> QED BY <1>1, QueueInvInit, QueueInvNext, PTL DEF Spec

-----------------------------------------------------------------------------
(* put, as its results see it: none is dropped, and one that is put comes  *)
(* after the others (only pings go to the front).                          *)
ResultsStay(q, m, p) ==
    /\ p \in Seq(Message)
    /\ \A k \in 1..Len(q) : q[k] \in Precious => \E i \in 1..Len(p) : p[i] = q[k]
    /\ m \in Precious => \E i \in 1..Len(p) : p[i] = m
    /\ \A i \in 1..Len(p) : p[i] = m \/ \E k \in 1..Len(q) : q[k] = p[i]
    /\ \A i, j \in 1..Len(p) : i < j /\ p[i] \in Precious /\ p[j] \in Precious =>
           \/ \E k, l \in 1..Len(q) : k < l /\ q[k] = p[i] /\ q[l] = p[j]
           \/ p[j] = m /\ \E k \in 1..Len(q) : q[k] = p[i]

LEMMA PutResults ==
    ASSUME NEW q \in Seq(Message), NEW m \in Message, NEW front \in BOOLEAN,
           front => m \notin Precious, NEW p, p = Put(q, m, front)
    PROVE  ResultsStay(q, m, p)
<1>1. PICK r : /\ Thinned(q, r)
               /\ \/ m \notin Precious /\ p = r
                  \/ p = IF front THEN <<m>> \o r ELSE Append(r, m)
  BY PutFacts
<1>2. /\ r \in Seq(Message) /\ Len(r) \in Nat
      /\ \A i \in 1..Len(r) : \E k \in 1..Len(q) : q[k] = r[i]
      /\ \A i, j \in 1..Len(r) : i < j => \E k, l \in 1..Len(q) : k < l /\ q[k] = r[i] /\ q[l] = r[j]
      /\ \A k \in 1..Len(q) : q[k] \in Precious => \E i \in 1..Len(r) : r[i] = q[k]
  BY <1>1 DEF Thinned
<1>3. CASE m \notin Precious /\ p = r
  BY <1>2, <1>3 DEF ResultsStay
<1>4. CASE front /\ p = <<m>> \o r
  <2>1. /\ p \in Seq(Message) /\ Len(p) = Len(r) + 1 /\ p[1] = m
        /\ \A i \in 1..Len(r) : p[i + 1] = r[i]
    <3>1. /\ <<m>> \o r \in Seq(Message) /\ Len(<<m>> \o r) = Len(r) + 1 /\ (<<m>> \o r)[1] = m
          /\ \A i \in 1..Len(r) : (<<m>> \o r)[i + 1] = r[i]
      BY <1>2, FrontFacts
    <3> QED BY <1>4, <3>1, Zenon
  <2>2. \A i \in 1..Len(r) : i + 1 \in 1..Len(p)
    BY <1>2, <2>1
  <2>3. \A i \in 1..Len(p) : i = 1 \/ (i - 1 \in 1..Len(r) /\ p[i] = r[i - 1])
    <3> TAKE i \in 1..Len(p)
    <3>1. CASE i # 1
      <4>1. i - 1 \in 1..Len(r) /\ (i - 1) + 1 = i
        BY <1>2, <2>1, <3>1
      <4> QED BY <2>1, <4>1
    <3> QED BY <3>1
  <2>4. m \notin Precious
    BY <1>4
  <2>5. ASSUME NEW i \in 1..Len(p), NEW j \in 1..Len(p), i < j, p[i] \in Precious
        PROVE  \E k, l \in 1..Len(q) : k < l /\ q[k] = p[i] /\ q[l] = p[j]
    <3>1. i - 1 \in 1..Len(r) /\ p[i] = r[i - 1] /\ j - 1 \in 1..Len(r) /\ p[j] = r[j - 1] /\ i - 1 < j - 1
      BY <1>2, <2>1, <2>3, <2>4, <2>5
    <3>2. PICK a \in 1..Len(r), b \in 1..Len(r) : a < b /\ p[i] = r[a] /\ p[j] = r[b]
      BY <3>1, Zenon
    <3> QED BY <1>2, <3>2, SMTT(30)
  <2>6. ASSUME NEW k \in 1..Len(q), q[k] \in Precious PROVE \E i \in 1..Len(p) : p[i] = q[k]
    <3>1. PICK i \in 1..Len(r) : r[i] = q[k]
      BY <1>2, <2>6
    <3>2. i + 1 \in 1..Len(p) /\ p[i + 1] = q[k]
      BY <2>1, <2>2, <3>1
    <3> QED BY <3>2
  <2>7. ASSUME NEW i \in 1..Len(p) PROVE p[i] = m \/ \E k \in 1..Len(q) : q[k] = p[i]
    <3>1. CASE i = 1
      BY <2>1, <3>1
    <3>2. CASE i - 1 \in 1..Len(r) /\ p[i] = r[i - 1]
      <4>1. PICK a \in 1..Len(r) : p[i] = r[a]
        BY <3>2, Zenon
      <4> QED BY <1>2, <4>1
    <3> QED BY <2>3, <3>1, <3>2
  <2> QED BY <2>1, <2>4, <2>5, <2>6, <2>7, ZenonT(30) DEF ResultsStay
<1>5. CASE ~front /\ p = Append(r, m)
  <2>1. /\ p \in Seq(Message) /\ Len(p) = Len(r) + 1 /\ p[Len(r) + 1] = m
        /\ \A i \in 1..Len(r) : p[i] = r[i]
    BY <1>2, <1>5, BackFacts
  <2>2. /\ \A i \in 1..Len(r) : i \in 1..Len(p)
        /\ Len(r) + 1 \in 1..Len(p)
        /\ \A i \in 1..Len(p) : i = Len(r) + 1 \/ i \in 1..Len(r)
    BY <1>2, <2>1
  <2>3. ASSUME NEW i \in 1..Len(p), NEW j \in 1..Len(p), i < j
        PROVE  \/ \E k, l \in 1..Len(q) : k < l /\ q[k] = p[i] /\ q[l] = p[j]
               \/ p[j] = m /\ \E k \in 1..Len(q) : q[k] = p[i]
    <3>1. i \in 1..Len(r) /\ p[i] = r[i]
      BY <1>2, <2>1, <2>3
    <3>2. CASE j \in 1..Len(r)
      <4>1. p[j] = r[j]
        BY <2>1, <3>2
      <4> QED BY <1>2, <2>3, <3>1, <3>2, <4>1
    <3>3. CASE j = Len(r) + 1
      BY <1>2, <2>1, <3>1, <3>3
    <3> QED BY <2>2, <3>2, <3>3
  <2>4. \A k \in 1..Len(q) : q[k] \in Precious => \E i \in 1..Len(p) : p[i] = q[k]
    BY <1>2, <2>1, <2>2
  <2>5. \A i \in 1..Len(p) : p[i] = m \/ \E k \in 1..Len(q) : q[k] = p[i]
    BY <1>2, <2>1, <2>2
  <2> QED BY <2>1, <2>2, <2>3, <2>4, <2>5, Zenon DEF ResultsStay
<1> QED BY <1>1, <1>3, <1>4, <1>5

(* No result is dropped: where one is goes on from the queue to the        *)
(* writer's hands and from there to the pool, back to the queue or away.   *)
Queued(c) == \E i \in 1..Len(items) : items[i] = c
With(c) == \E i \in 1..Len(got) : got[i] = c
Kept == \A c \in Command : command[c] = "done" => Queued(c) \/ hand = c \/ With(c) \/ c \in lost

LEMMA KeptMeans == Type => (ResultsKept <=> Kept)
<1> SUFFICES ASSUME Type PROVE ResultsKept <=> Kept
  OBVIOUS
<1>1. DOMAIN items = 1..Len(items) /\ DOMAIN got = 1..Len(got)
  BY DEF Type
<1>2. \A c : c \in ToSet(items) <=> Queued(c)
  BY <1>1, Zenon DEF ToSet, Queued
<1>3. \A c : c \in ToSet(got) <=> With(c)
  BY <1>1, Zenon DEF ToSet, With
<1> QED BY <1>2, <1>3, Zenon DEF ResultsKept, Kept

LEMMA ReceiveKeeps ==
    ASSUME QueueInv, Receive(hand), NEW c \in Command, With(c) \/ hand = c
    PROVE  With(c)'
<1>0. got \in Seq(Command) /\ Len(got) \in Nat
  BY DEF QueueInv, Type
<1>1. CASE hand \in Command
  <2>1. got' = Append(got, hand)
    BY <1>1 DEF Receive, Precious
  <2>2. /\ Len(got') = Len(got) + 1 /\ got'[Len(got) + 1] = hand
        /\ \A i \in 1..Len(got) : got'[i] = got[i]
    BY <1>0, <1>1, <2>1
  <2>3. Len(got) + 1 \in 1..Len(got') /\ \A i \in 1..Len(got) : i \in 1..Len(got')
    BY <1>0, <2>2
  <2> QED BY <2>2, <2>3 DEF With
<1>2. CASE hand \notin Command
  BY <1>2 DEF Receive, Precious, With
<1> QED BY <1>1, <1>2

LEMMA KeptStep == QueueInv /\ Kept /\ [Next]_vars => Kept'
<1> SUFFICES ASSUME QueueInv, Kept, [Next]_vars, NEW c \in Command, command'[c] = "done"
             PROVE  Queued(c)' \/ hand' = c \/ With(c)' \/ c \in lost'
  BY DEF Kept
<1> USE DEF Fault, poolVars
<1>0. /\ items \in Seq(Message) /\ hand \in Message \cup {None} /\ None \notin Command
      /\ command \in [Command -> {"unsent", "running", "done", "gone"}]
  BY QueueAssumption DEF QueueInv, Type, Message, Precious
<1>a. command[c] = "done" => Queued(c) \/ hand = c \/ With(c) \/ c \in lost
  BY DEF Kept
<1>1. CASE UNCHANGED <<items, hand, got, lost, command>>
  BY <1>1, <1>a DEF Queued, With
<1>2. ASSUME NEW d \in Command, ReadCommand(d)
      PROVE  Queued(c)' \/ hand' = c \/ With(c)' \/ c \in lost'
  BY <1>0, <1>2, <1>a DEF ReadCommand, Queued, With
<1>3. ASSUME NEW d \in Command, Execute(d)
      PROVE  Queued(c)' \/ hand' = c \/ With(c)' \/ c \in lost'
  <2>1. d \in Message /\ d \in Precious
    BY DEF Message, Precious
  <2>2. PICK front \in BOOLEAN : ~front /\ items' = Put(items, d, front)
    BY <1>3, Zenon DEF Execute
  <2>3. /\ \A k \in 1..Len(items) : items[k] \in Precious => \E i \in 1..Len(items') : items'[i] = items[k]
        /\ \E i \in 1..Len(items') : items'[i] = d
    <3>1. ResultsStay(items, d, items')
      BY <1>0, <2>1, <2>2, PutResults
    <3> QED BY <2>1, <3>1, Zenon DEF ResultsStay
  <2>4. CASE c = d
    BY <2>3, <2>4 DEF Queued
  <2>5. CASE c # d
    <3>1. command[c] = "done"
      BY <1>0, <1>3, <2>5 DEF Execute
    <3>2. Queued(c) => Queued(c)'
      BY <2>3 DEF Queued, Precious
    <3> QED BY <1>3, <1>a, <3>1, <3>2 DEF Execute, With
  <2> QED BY <2>4, <2>5
<1>4. CASE Ping \/ State
  <2>1. PICK m \in Droppable, front \in BOOLEAN : items' = Put(items, m, front)
    BY <1>4, Zenon DEF Ping, State, Droppable
  <2>2. m \in Message /\ m \notin Precious
    BY QueueAssumption DEF Message, Precious
  <2>3. \A k \in 1..Len(items) : items[k] \in Precious => \E i \in 1..Len(items') : items'[i] = items[k]
    <3>1. ResultsStay(items, m, items')
      BY <1>0, <2>1, <2>2, PutResults
    <3> QED BY <3>1, Zenon DEF ResultsStay
  <2>4. Queued(c) => Queued(c)'
    BY <2>3 DEF Queued, Precious
  <2>5. UNCHANGED <<hand, got, lost, command>>
    BY <1>4, Zenon DEF Ping, State
  <2> QED BY <1>a, <2>4, <2>5 DEF With
<1>5. CASE ReaderRaises \/ PingerRaises \/ Send \/ SendUnseen
  <2>1. UNCHANGED <<items, command>>
    BY <1>5 DEF ReaderRaises, PingerRaises, Send, SendUnseen
  <2>2. (Receive(hand) /\ UNCHANGED lost) \/ (Lose(hand) /\ UNCHANGED got)
    BY <1>5 DEF ReaderRaises, PingerRaises, Send, SendUnseen, Unseen
  <2>3. Queued(c) => Queued(c)'
    BY <2>1 DEF Queued
  <2>4. hand = c \/ With(c) \/ c \in lost => With(c)' \/ c \in lost'
    BY <2>2, ReceiveKeeps DEF Lose, Precious, With
  <2> QED BY <1>a, <2>1, <2>3, <2>4
<1>6. CASE Get
  <2>1. items # <<>> /\ hand = None /\ hand' = Head(items) /\ items' = Tail(items)
        /\ UNCHANGED <<got, lost, command>>
    BY <1>6 DEF Get
  <2>2. /\ Head(items) = items[1] /\ Len(items) \in Nat \ {0}
        /\ Len(items') = Len(items) - 1 /\ \A i \in 1..Len(items') : items'[i] = items[i + 1]
    BY <1>0, <2>1, TailFacts
  <2>3. Queued(c) => Queued(c)' \/ hand' = c
    <3> SUFFICES ASSUME NEW i \in 1..Len(items), items[i] = c PROVE Queued(c)' \/ hand' = c
      BY DEF Queued
    <3>1. CASE i = 1
      BY <2>1, <2>2, <3>1
    <3>2. CASE i # 1
      <4>1. i - 1 \in 1..Len(items') /\ (i - 1) + 1 = i
        BY <2>2, <3>2
      <4>2. items'[i - 1] = c
        BY <2>2, <4>1
      <4> QED BY <4>1, <4>2 DEF Queued
    <3> QED BY <3>1, <3>2
  <2> QED BY <1>0, <1>a, <2>1, <2>3 DEF With
<1>7. CASE WriterRaises
  <2>1. /\ items' = <<hand>> \o items /\ hand \in Message /\ UNCHANGED <<lost, command>>
        /\ Receive(hand) \/ UNCHANGED got
    BY <1>0, <1>7 DEF WriterRaises, Requeue
  <2>2. /\ Len(items') = Len(items) + 1 /\ items'[1] = hand
        /\ \A i \in 1..Len(items) : items'[i + 1] = items[i]
    BY <1>0, <2>1, FrontFacts
  <2>3. 1 \in 1..Len(items') /\ \A i \in 1..Len(items) : i + 1 \in 1..Len(items')
    BY <1>0, <2>2
  <2>4. Queued(c) \/ hand = c => Queued(c)'
    BY <2>2, <2>3 DEF Queued
  <2>5. With(c) => With(c)'
    BY <2>1, ReceiveKeeps DEF With
  <2> QED BY <1>a, <2>1, <2>4, <2>5
<1>8. CASE ProcessEnds
  <2>1. command[c] = "done" /\ UNCHANGED got
    BY <1>0, <1>8 DEF ProcessEnds
  <2>2. Queued(c) => c \in ToSet(items)
    BY <1>0 DEF Queued, ToSet
  <2>3. lost \subseteq lost' /\ (c \in ToSet(items) \/ hand = c => c \in lost')
    BY <1>8 DEF ProcessEnds, Precious
  <2> QED BY <1>a, <2>1, <2>2, <2>3 DEF With
<1> QED
  BY <1>1, <1>2, <1>3, <1>4, <1>5, <1>6, <1>7, <1>8
     DEF Next, Connect, Refused, ConnectFails, LinkFails, Forgets, vars

(* Each finished command's result is queued, with the writer, with the     *)
(* pool, or was lost on a connection or a process that failed.             *)
THEOREM ResultsKeptHolds == Spec => []ResultsKept
<1>1. Init => Kept
  BY DEF Init, Kept
<1>2. QueueInv /\ Kept => ResultsKept
  BY KeptMeans DEF QueueInv
<1> QED BY <1>1, <1>2, QueueInvInit, QueueInvNext, KeptStep, PTL DEF Spec

-----------------------------------------------------------------------------
(* Nor is one overtaken.  A result that has its place keeps it: finished   *)
(* grows at its end only.                                                  *)
LEMMA EarlierGrows ==
    ASSUME Type, NEW c \in Command, finished' = Append(finished, c)
    PROVE  /\ \A a, b : Earlier(a, b) => Earlier(a, b)'
           /\ Earlier(c, c)'
           /\ \A a : Earlier(a, a) => Earlier(a, c)'
<1>1. finished \in Seq(Command) /\ Len(finished) \in Nat
  BY DEF Type
<1>2. /\ Len(finished') = Len(finished) + 1 /\ finished'[Len(finished) + 1] = c
      /\ \A i \in 1..Len(finished) : finished'[i] = finished[i]
  BY <1>1
<1>3. /\ Len(finished) + 1 \in 1..Len(finished')
      /\ \A i \in 1..Len(finished) : i \in 1..Len(finished') /\ i <= Len(finished) + 1
      /\ Len(finished) + 1 <= Len(finished) + 1
  BY <1>1, <1>2
<1>4. ASSUME NEW a, NEW b, Earlier(a, b) PROVE Earlier(a, b)'
  <2>1. PICK i \in 1..Len(finished), j \in 1..Len(finished) :
            i <= j /\ finished[i] = a /\ finished[j] = b
    BY <1>4 DEF Earlier
  <2>2. i \in 1..Len(finished') /\ j \in 1..Len(finished') /\ finished'[i] = a /\ finished'[j] = b
    BY <1>2, <1>3, <2>1
  <2> QED BY <2>1, <2>2 DEF Earlier
<1>5. Earlier(c, c)'
  BY <1>2, <1>3 DEF Earlier
<1>6. ASSUME NEW a, Earlier(a, a) PROVE Earlier(a, c)'
  <2>1. PICK i \in 1..Len(finished) : finished[i] = a
    BY <1>6 DEF Earlier
  <2>2. i \in 1..Len(finished') /\ finished'[i] = a /\ i <= Len(finished) + 1
    BY <1>2, <1>3, <2>1
  <2> QED BY <1>2, <1>3, <2>2 DEF Earlier
<1> QED BY <1>4, <1>5, <1>6

(* What is done has a place.                                               *)
LEMMA DoneHasPlace ==
    ASSUME Type, Finished, NEW m \in Precious, Done(m)
    PROVE  Earlier(m, m)
<1>1. PICK i \in 1..Len(finished) : finished[i] = m
  BY DEF Done, Finished, Precious
<1>2. i <= i
  BY <1>1
<1> QED BY <1>1, <1>2 DEF Earlier

(* The order through a put, ...                                            *)
LEMMA PutInOrder ==
    ASSUME QueueInv, OrderInv, NEW m \in Message, NEW front \in BOOLEAN, front => m \notin Precious,
           items' = Put(items, m, front), hand' = hand, got' = got,
           m \in Precious => finished' = Append(finished, m),
           m \notin Precious => finished' = finished
    PROVE  ItemsInOrder' /\ GotInOrder'
<1>0. items \in Seq(Message) /\ hand \in Message \cup {None} /\ got \in Seq(Command) /\ Type
  BY DEF QueueInv, Type
<1>1. ResultsStay(items, m, items')
  BY <1>0, PutResults
<1>2. \A a, b : Earlier(a, b) => Earlier(a, b)'
  BY <1>0, EarlierGrows DEF Earlier, Precious
<1>3. \A a \in Precious : m \in Precious /\ Done(a) => Earlier(a, m)'
  BY <1>0, DoneHasPlace, EarlierGrows DEF OrderInv, Precious
<1>4. ASSUME NEW i \in 1..Len(items'), NEW j \in 1..Len(items'), i < j,
             items'[i] \in Precious, items'[j] \in Precious
      PROVE  Earlier(items[i], items[j])'
  <2>1. ASSUME NEW k \in 1..Len(items), NEW l \in 1..Len(items),
               k < l, items[k] = items'[i], items[l] = items'[j]
        PROVE  Earlier(items[i], items[j])'
    <3>1. Earlier(items[k], items[l])
      BY <1>4, <2>1 DEF OrderInv, ItemsInOrder, Before
    <3> QED BY <1>2, <2>1, <3>1
  <2>2. ASSUME NEW k \in 1..Len(items), items[k] = items'[i], items'[j] = m
        PROVE  Earlier(items[i], items[j])'
    <3>1. Done(items[k])
      BY DEF OrderInv, AllDone
    <3> QED BY <1>3, <1>4, <2>2, <3>1
  <2> QED BY <1>1, <1>4, <2>1, <2>2 DEF ResultsStay
<1>5. ASSUME NEW a \in Precious, Done(a), \A i \in 1..Len(items) : Before(a, items[i]),
             NEW j \in 1..Len(items'), items'[j] \in Precious
      PROVE  Earlier(a, items[j])'
  <2>1. CASE items'[j] = m
    BY <1>3, <1>5, <2>1
  <2>2. ASSUME NEW k \in 1..Len(items), items[k] = items'[j]
        PROVE  Earlier(a, items[j])'
    BY <1>2, <1>5, <2>2 DEF Before
  <2> QED BY <1>1, <1>5, <2>1, <2>2 DEF ResultsStay
<1>6. ItemsInOrder'
  <2>1. \A j \in 1..Len(items') : Before(hand, items[j])'
    BY <1>5 DEF OrderInv, ItemsInOrder, AllDone, Before
  <2> QED BY <1>4, <2>1 DEF ItemsInOrder, Before
<1>7. ASSUME NEW i \in 1..Len(got') PROVE
        /\ \A j \in 1..Len(got') : i < j => Before(got[i], got[j])'
        /\ Before(got[i], hand)'
        /\ \A j \in 1..Len(items') : Before(got[i], items[j])'
  <2>1. \A j \in 1..Len(got') : i < j => Before(got[i], got[j])'
    BY <1>2, <1>7 DEF OrderInv, GotInOrder, Before
  <2>2. Before(got[i], hand)'
    BY <1>2, <1>7 DEF OrderInv, GotInOrder, Before
  <2>3. \A j \in 1..Len(items') : Before(got[i], items[j])'
    BY <1>5, <1>7 DEF OrderInv, GotInOrder, AllDone, Before
  <2> QED BY <2>1, <2>2, <2>3
<1> QED BY <1>6, <1>7 DEF GotInOrder

(* ... when the pool gets what was in the writer's hands, or it is put     *)
(* back, or both, ...                                                      *)
LEMMA SentInOrder ==
    ASSUME QueueInv, OrderInv, hand' = None, UNCHANGED <<command, finished>>,
           items' = items \/ (hand # None /\ items' = <<hand>> \o items),
           Receive(hand) \/ got' = got
    PROVE  OrderInv'
<1>0. /\ items \in Seq(Message) /\ hand \in Message \cup {None} /\ got \in Seq(Command)
      /\ None \notin Precious /\ Type /\ Len(got) \in Nat /\ Len(items) \in Nat
  BY QueueAssumption DEF QueueInv, Type, Message
<1>1. \A a, b : Earlier(a, b) <=> Earlier(a, b)'
  BY DEF Earlier
<1>2. \A m : Done(m) <=> Done(m)'
  BY DEF Done
<1>3. \A i \in 1..Len(got') :
          \/ got'[i] = hand /\ hand \in Precious /\ i = Len(got')
          \/ i \in 1..Len(got) /\ got'[i] = got[i]
  <2>1. CASE hand \in Precious /\ Receive(hand)
    <3>1. got' = Append(got, hand)
      BY <2>1 DEF Receive
    <3> QED BY <1>0, <2>1, <3>1 DEF Precious
  <2>2. CASE got' = got
    BY <2>2
  <2> QED BY <2>1, <2>2 DEF Receive
<1>4. /\ items' \in Seq(Message)
      /\ \A i \in 1..Len(items') :
             \/ items'[i] = hand /\ i = 1
             \/ \E k \in 1..Len(items) : items'[i] = items[k] /\ (k = i - 1 \/ (items' = items /\ k = i))
  <2>1. CASE items' = items
    BY <1>0, <2>1
  <2>2. CASE hand # None /\ items' = <<hand>> \o items
    <3>1. /\ items' \in Seq(Message) /\ Len(items') = Len(items) + 1 /\ items'[1] = hand
          /\ \A i \in 1..Len(items) : items'[i + 1] = items[i]
      BY <1>0, <2>2, FrontFacts
    <3>2. ASSUME NEW i \in 1..Len(items'), i # 1
          PROVE  i - 1 \in 1..Len(items) /\ items'[i] = items[i - 1]
      <4>1. i - 1 \in 1..Len(items) /\ (i - 1) + 1 = i
        BY <1>0, <3>1, <3>2
      <4> QED BY <3>1, <4>1
    <3> QED BY <3>1, <3>2
  <2> QED BY <2>1, <2>2
<1>5. AllDone'
  <2>1. \A i \in 1..Len(items') : Done(items[i])'
    BY <1>2, <1>4 DEF OrderInv, AllDone
  <2>2. \A i \in 1..Len(got') : Done(got[i])'
    BY <1>2, <1>3 DEF OrderInv, AllDone
  <2>3. Done(hand)'
    BY <1>0 DEF Done
  <2> QED BY <2>1, <2>2, <2>3 DEF AllDone
<1>6. hand \in Precious => Earlier(hand, hand)
  BY <1>0, DoneHasPlace DEF OrderInv, AllDone
<1>7. ItemsInOrder'
  <2>1. ASSUME NEW i \in 1..Len(items'), NEW j \in 1..Len(items'), i < j PROVE Before(items[i], items[j])'
    <3>1. PICK l \in 1..Len(items) : items'[j] = items[l] /\ (l = j - 1 \/ (items' = items /\ l = j))
      BY <1>4, <2>1
    <3>2. CASE items'[i] = hand /\ i = 1
      BY <1>1, <3>1, <3>2 DEF OrderInv, ItemsInOrder, Before
    <3>3. ASSUME NEW k \in 1..Len(items), items'[i] = items[k], k = i - 1 \/ (items' = items /\ k = i)
          PROVE  Before(items[i], items[j])'
      <4>1. CASE items' = items
        BY <1>1, <2>1, <4>1 DEF OrderInv, ItemsInOrder, Before
      <4>2. CASE k = i - 1 /\ l = j - 1
        <5>1. k < l
          BY <2>1, <4>2
        <5> QED BY <1>1, <3>1, <3>3, <5>1 DEF OrderInv, ItemsInOrder, Before
      <4> QED BY <3>1, <3>3, <4>1, <4>2
    <3> QED BY <1>4, <3>2, <3>3
  <2>2. \A i \in 1..Len(items') : Before(hand, items[i])'
    BY <1>0 DEF Before
  <2> QED BY <2>1, <2>2 DEF ItemsInOrder
<1>8. GotInOrder'
  <2>1. ASSUME NEW i \in 1..Len(got'), NEW j \in 1..Len(got'), i < j PROVE Before(got[i], got[j])'
    <3>1. i \in 1..Len(got) /\ got'[i] = got[i]
      BY <1>3, <2>1
    <3>2. CASE got'[j] = hand
      BY <1>1, <3>1, <3>2 DEF OrderInv, GotInOrder, Before
    <3>3. CASE j \in 1..Len(got) /\ got'[j] = got[j]
      BY <1>1, <2>1, <3>1, <3>3 DEF OrderInv, GotInOrder, Before
    <3> QED BY <1>3, <3>2, <3>3
  <2>2. ASSUME NEW i \in 1..Len(got'), NEW j \in 1..Len(items') PROVE Before(got[i], items[j])'
    <3>1. CASE got'[i] = hand
      <4>1. Before(hand, items'[j])
        BY <1>4, <1>6 DEF OrderInv, ItemsInOrder, Before
      <4> QED BY <1>1, <3>1, <4>1 DEF Before
    <3>2. CASE i \in 1..Len(got) /\ got'[i] = got[i]
      <4>1. Before(got[i], items'[j])
        BY <1>4, <3>2 DEF OrderInv, GotInOrder, Before
      <4> QED BY <1>1, <3>2, <4>1 DEF Before
    <3> QED BY <1>3, <3>1, <3>2
  <2>3. \A i \in 1..Len(got') : Before(got[i], hand)'
    BY <1>0 DEF Before
  <2> QED BY <2>1, <2>2, <2>3 DEF GotInOrder
<1>9. Finished'
  BY DEF OrderInv, Finished
<1> QED BY <1>5, <1>7, <1>8, <1>9 DEF OrderInv

(* ... and when the writer takes the next message.                         *)
LEMMA TakenInOrder ==
    ASSUME QueueInv, OrderInv, Get
    PROVE  OrderInv'
<1>0. /\ items \in Seq(Message) /\ items # <<>> /\ hand' = Head(items) /\ items' = Tail(items)
      /\ UNCHANGED <<got, command, finished>>
  BY DEF Get, QueueInv, Type
<1>1. /\ hand' = items[1] /\ Len(items) \in Nat \ {0}
      /\ Len(items') = Len(items) - 1 /\ \A i \in 1..Len(items') : items'[i] = items[i + 1]
  BY <1>0, TailFacts
<1>2. /\ 1 \in 1..Len(items)
      /\ \A i \in 1..Len(items') : i + 1 \in 1..Len(items) /\ 1 < i + 1
      /\ \A i, j \in 1..Len(items') : i < j => i + 1 < j + 1
  BY <1>1
<1>3. \A a, b : Earlier(a, b) <=> Earlier(a, b)'
  BY <1>0 DEF Earlier
<1>4. Finished'
  BY <1>0 DEF OrderInv, Finished
<1>5. AllDone'
  BY <1>0, <1>1, <1>2 DEF OrderInv, AllDone, Done
<1>6. ItemsInOrder'
  <2>1. \A i, j \in 1..Len(items') : i < j => Before(items[i], items[j])'
    <3> SUFFICES ASSUME NEW i \in 1..Len(items'), NEW j \in 1..Len(items'), i < j
                 PROVE  Before(items[i], items[j])'
      OBVIOUS
    <3>1. Before(items[i + 1], items[j + 1])
      BY <1>2 DEF OrderInv, ItemsInOrder
    <3>2. items'[i] = items[i + 1] /\ items'[j] = items[j + 1]
      BY <1>1
    <3> QED BY <1>3, <3>1, <3>2 DEF Before
  <2>2. \A i \in 1..Len(items') : Before(hand, items[i])'
    <3> SUFFICES ASSUME NEW i \in 1..Len(items') PROVE Before(hand, items[i])'
      OBVIOUS
    <3>1. Before(items[1], items[i + 1])
      BY <1>2 DEF OrderInv, ItemsInOrder
    <3> QED BY <1>1, <1>3, <3>1 DEF Before
  <2> QED BY <2>1, <2>2 DEF ItemsInOrder
<1>7. GotInOrder'
  <2> SUFFICES ASSUME NEW i \in 1..Len(got)
               PROVE  /\ \A j \in 1..Len(got) : i < j => Before(got[i], got[j])'
                      /\ Before(got[i], hand)'
                      /\ \A j \in 1..Len(items') : Before(got[i], items[j])'
    BY <1>0 DEF GotInOrder
  <2>1. \A j \in 1..Len(got) : i < j => Before(got[i], got[j])'
    BY <1>0, <1>3 DEF OrderInv, GotInOrder, Before
  <2>2. Before(got[i], hand)'
    BY <1>0, <1>1, <1>2, <1>3 DEF OrderInv, GotInOrder, Before
  <2>3. ASSUME NEW j \in 1..Len(items') PROVE Before(got[i], items[j])'
    <3>1. Before(got[i], items[j + 1])
      BY <1>2 DEF OrderInv, GotInOrder
    <3> QED BY <1>0, <1>1, <1>3, <3>1 DEF Before
  <2> QED BY <2>1, <2>2, <2>3
<1> QED BY <1>4, <1>5, <1>6, <1>7 DEF OrderInv

(* A result is put once.                                                   *)
LEMMA FinishedOnce ==
    ASSUME QueueInv, Finished, NEW c \in Command, Execute(c)
    PROVE  Finished'
<1>1. finished \in Seq(Command) /\ Len(finished) \in Nat /\ finished' = Append(finished, c)
  BY DEF Execute, QueueInv, Type
<1>2. command \in [Command -> {"unsent", "running", "done", "gone"}] /\ command[c] = "running"
      /\ command' = [command EXCEPT ![c] = "done"]
  BY DEF Execute, QueueInv, Type
<1>3. /\ Len(finished') = Len(finished) + 1 /\ finished'[Len(finished) + 1] = c
      /\ \A i \in 1..Len(finished) : finished'[i] = finished[i]
  BY <1>1
<1>4. /\ \A i \in 1..Len(finished') : i \in 1..Len(finished) \/ i = Len(finished) + 1
      /\ \A i \in 1..Len(finished) : i \in 1..Len(finished')
      /\ Len(finished) + 1 \in 1..Len(finished')
  BY <1>1, <1>3
<1>5. \A i \in 1..Len(finished) : finished[i] # c
  BY <1>2 DEF Finished
<1>6. ASSUME NEW d \in Command
      PROVE  command'[d] = "done" <=> \E i \in 1..Len(finished') : finished'[i] = d
  <2>1. CASE d = c
    BY <1>2, <1>3, <1>4, <2>1
  <2>2. CASE d # c
    <3>1. command'[d] = "done" <=> \E i \in 1..Len(finished) : finished[i] = d
      BY <1>2, <2>2 DEF Finished
    <3> QED BY <1>3, <1>4, <2>2, <3>1
  <2> QED BY <2>1, <2>2
<1>7. \A i, j \in 1..Len(finished') : finished'[i] = finished'[j] => i = j
  BY <1>3, <1>4, <1>5 DEF Finished
<1> QED BY <1>6, <1>7 DEF Finished

(* Every step keeps the order.                                             *)
LEMMA OrderStep == QueueInv /\ OrderInv /\ [Next]_vars => OrderInv'
<1> SUFFICES ASSUME QueueInv, OrderInv, [Next]_vars PROVE OrderInv'
  OBVIOUS
<1> USE DEF Fault, poolVars
<1>0. /\ items \in Seq(Message) /\ hand \in Message \cup {None} /\ None \notin Command
      /\ command \in [Command -> {"unsent", "running", "done", "gone"}] /\ got \in Seq(Command)
  BY QueueAssumption DEF QueueInv, Type, Message, Precious
<1>1. ASSUME UNCHANGED <<items, hand, got, finished>>,
             \A c \in Command : command'[c] = "done" <=> command[c] = "done"
      PROVE  OrderInv'
  <2>1. Finished' /\ AllDone'
    BY <1>1 DEF OrderInv, Finished, AllDone, Done, Precious
  <2>2. ItemsInOrder' /\ GotInOrder'
    BY <1>1 DEF OrderInv, ItemsInOrder, GotInOrder, Before, Earlier
  <2> QED BY <2>1, <2>2 DEF OrderInv
<1>2. ASSUME NEW c \in Command, ReadCommand(c) PROVE OrderInv'
  BY <1>0, <1>1, <1>2 DEF ReadCommand
<1>3. ASSUME NEW c \in Command, Execute(c) PROVE OrderInv'
  <2>1. c \in Message /\ c \in Precious
    BY DEF Message, Precious
  <2>2. PICK front \in BOOLEAN : ~front /\ items' = Put(items, c, front)
    BY <1>3, Zenon DEF Execute
  <2>3. finished' = Append(finished, c) /\ hand' = hand /\ got' = got
    BY <1>3 DEF Execute
  <2>4. ItemsInOrder' /\ GotInOrder'
    BY <2>1, <2>2, <2>3, PutInOrder
  <2>5. Finished'
    BY <1>3, FinishedOnce DEF OrderInv
  <2>6. AllDone'
    <3>1. ResultsStay(items, c, items')
      BY <1>0, <2>1, <2>2, PutResults
    <3>2. \A m : Done(m) => Done(m)'
      BY <1>0, <1>3 DEF Execute, Done, Precious
    <3>3. Done(c)'
      BY <1>0, <1>3 DEF Execute, Done, Precious
    <3>4. \A i \in 1..Len(items') : Done(items[i])'
      BY <3>1, <3>2, <3>3 DEF ResultsStay, OrderInv, AllDone
    <3> QED BY <2>3, <3>2, <3>4 DEF OrderInv, AllDone
  <2> QED BY <2>4, <2>5, <2>6 DEF OrderInv
<1>4. CASE Ping \/ State
  <2>1. PICK m \in Droppable, front \in BOOLEAN : items' = Put(items, m, front)
    BY <1>4, Zenon DEF Ping, State, Droppable
  <2>2. m \in Message /\ m \notin Precious
    BY QueueAssumption DEF Message, Precious
  <2>3. UNCHANGED <<hand, got, finished, command>>
    BY <1>4, Zenon DEF Ping, State
  <2>4. ItemsInOrder' /\ GotInOrder'
    BY <2>1, <2>2, <2>3, PutInOrder
  <2>5. AllDone'
    <3>1. ResultsStay(items, m, items')
      BY <1>0, <2>1, <2>2, PutResults
    <3>2. \A i \in 1..Len(items') : Done(items[i])'
      BY <2>2, <2>3, <3>1 DEF ResultsStay, OrderInv, AllDone, Done
    <3> QED BY <2>3, <3>2 DEF OrderInv, AllDone, Done
  <2>6. Finished'
    BY <2>3 DEF OrderInv, Finished
  <2> QED BY <2>4, <2>5, <2>6 DEF OrderInv
<1>5. CASE ReaderRaises \/ PingerRaises \/ Send \/ SendUnseen
  <2>1. UNCHANGED <<items, command, finished>> /\ hand' = None /\ (Receive(hand) \/ got' = got)
    BY <1>5 DEF ReaderRaises, PingerRaises, Send, SendUnseen, Unseen
  <2> QED BY <2>1, SentInOrder
<1>6. CASE Get
  BY <1>6, TakenInOrder
<1>7. CASE WriterRaises
  <2>1. /\ UNCHANGED <<command, finished>> /\ hand' = None /\ (Receive(hand) \/ got' = got)
        /\ hand # None /\ items' = <<hand>> \o items
    BY <1>7 DEF WriterRaises, Requeue
  <2> QED BY <2>1, SentInOrder
<1>8. CASE ProcessEnds
  <2>1. /\ items' = <<>> /\ hand' = None /\ UNCHANGED <<finished, got>>
        /\ \A c \in Command : command'[c] = "done" <=> command[c] = "done"
    BY <1>0, <1>8 DEF ProcessEnds
  <2>2. Finished' /\ AllDone'
    BY <1>0, <2>1 DEF OrderInv, Finished, AllDone, Done, Precious
  <2>3. ItemsInOrder' /\ GotInOrder'
    BY <1>0, <2>1 DEF OrderInv, ItemsInOrder, GotInOrder, Before, Earlier, Precious
  <2> QED BY <2>2, <2>3 DEF OrderInv
<1> QED
  BY <1>1, <1>2, <1>3, <1>4, <1>5, <1>6, <1>7, <1>8
     DEF Next, Connect, Refused, ConnectFails, LinkFails, Forgets, vars

(* Once a result has one place, the earlier one has the lower position.    *)
LEMMA OrderMeans == Type /\ OrderInv => ResultsInOrder
<1> SUFFICES ASSUME Type, OrderInv, NEW i \in DOMAIN got, NEW j \in DOMAIN got, i < j
             PROVE  Position(got[i]) <= Position(got[j])
  BY DEF ResultsInOrder
<1>1. i \in 1..Len(got) /\ j \in 1..Len(got) /\ got[i] \in Precious /\ got[j] \in Precious
  BY DEF Type, Precious
<1>2. Earlier(got[i], got[j])
  BY <1>1 DEF OrderInv, GotInOrder, Before
<1>3. PICK k \in 1..Len(finished), l \in 1..Len(finished) :
          k <= l /\ finished[k] = got[i] /\ finished[l] = got[j]
  BY <1>2 DEF Earlier
<1>4. DOMAIN finished = 1..Len(finished)
  BY DEF Type
<1>5. \A n \in 1..Len(finished) : Position(finished[n]) = n
  <2> TAKE n \in 1..Len(finished)
  <2>1. \A m \in DOMAIN finished : finished[m] = finished[n] => m = n
    BY <1>4 DEF OrderInv, Finished
  <2>2. Position(finished[n]) \in DOMAIN finished /\ finished[Position(finished[n])] = finished[n]
    BY <1>4, Zenon DEF Position
  <2> QED BY <2>1, <2>2
<1> QED BY <1>3, <1>5

(* The pool gets results in the order in which they were put.              *)
THEOREM ResultsInOrderHolds == Spec => []ResultsInOrder
<1>1. Init => OrderInv
  BY QueueAssumption DEF Init, OrderInv, Finished, AllDone, ItemsInOrder, GotInOrder, Done, Precious, Message
<1>2. QueueInv /\ OrderInv => ResultsInOrder
  BY OrderMeans DEF QueueInv
<1> QED BY <1>1, <1>2, QueueInvInit, QueueInvNext, OrderStep, PTL DEF Spec

=============================================================================
