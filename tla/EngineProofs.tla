----------------------------- MODULE EngineProofs ----------------------------
(***************************************************************************)
(* Safety of the trading engine for every feed.  First, what the operators *)
(* of OrderBook return and preserve, for every book; then one inductive    *)
(* invariant, IInv, and the properties of EngineProperties that follow     *)
(* from it.                                                                *)
(***************************************************************************)
EXTENDS EngineProperties, SequenceTheorems, WellFoundedInduction, TLAPS

-----------------------------------------------------------------------------
(***************************************************************************)
(* Sequences and sets of integers.                                         *)
(***************************************************************************)

\* RemoveAt drops one position and keeps the order of the others.
LEMMA RemoveAtProperties ==
  ASSUME NEW S, NEW s \in Seq(S), NEW i \in 1 .. Len(s)
  PROVE  /\ RemoveAt(s, i) \in Seq(S)
         /\ Len(RemoveAt(s, i)) = Len(s) - 1
         /\ \A j \in 1 .. Len(s) - 1 :
               RemoveAt(s, i)[j] = IF j < i THEN s[j] ELSE s[j + 1]
<1> DEFINE a == SubSeq(s, 1, i - 1)
           b == SubSeq(s, i + 1, Len(s))
<1>0. Len(s) \in Nat
  BY LenProperties
<1>1. /\ a \in Seq(S)
      /\ Len(a) = i - 1
      /\ \A j \in 1 .. i - 1 : a[j] = s[j]
  BY <1>0, SubSeqProperties
<1>2. /\ b \in Seq(S)
      /\ Len(b) = Len(s) - i
      /\ \A j \in 1 .. Len(s) - i : b[j] = s[i + j]
  BY <1>0, SubSeqProperties
<1> HIDE DEF a, b
<1>3. /\ a \o b \in Seq(S)
      /\ Len(a \o b) = Len(a) + Len(b)
      /\ \A j \in 1 .. Len(a) + Len(b) :
            (a \o b)[j] = IF j <= Len(a) THEN a[j] ELSE b[j - Len(a)]
  BY <1>1, <1>2, ConcatProperties
<1>4. RemoveAt(s, i) = a \o b
  BY DEF RemoveAt, a, b
<1>5. Len(a) + Len(b) = Len(s) - 1
  BY <1>0, <1>1, <1>2
<1>6. ASSUME NEW j \in 1 .. Len(s) - 1
      PROVE  (a \o b)[j] = IF j < i THEN s[j] ELSE s[j + 1]
  <2>1. CASE j < i
    BY <2>1, <1>0, <1>1, <1>3, <1>5
  <2>2. CASE ~(j < i)
    <3>1. j - Len(a) \in 1 .. Len(s) - i
      BY <2>2, <1>0, <1>1
    <3>2. i + (j - Len(a)) = j + 1
      BY <1>0, <1>1
    <3> QED
      BY <2>2, <3>1, <3>2, <1>0, <1>1, <1>2, <1>3, <1>5
  <2> QED
    BY <2>1, <2>2
<1> QED
  BY <1>3, <1>4, <1>5, <1>6

\* The relation whose well-foundedness the library proves is the order of Nat.
LEMMA LessThanRelation ==
  \A x, y \in Nat : x < y => <<x, y>> \in OpToRel(<, Nat)
BY Zenon DEF OpToRel

\* A nonempty set of naturals has a least element.
LEMMA LeastNatural ==
  ASSUME NEW T \in SUBSET Nat, T # {}
  PROVE  \E t \in T : \A u \in T : t <= u
<1>1. PICK t \in T : \A u \in T : <<u, t>> \notin OpToRel(<, Nat)
  BY NatLessThanWellFounded, WFMin
<1>2. \A u \in T : ~(u < t)
  BY <1>1, LessThanRelation, Zenon
<1>3. \A u \in T : t <= u
  BY <1>2
<1> QED
  BY <1>3

\* A nonempty set of integers with a lower bound has a least element.
LEMMA MinExists ==
  ASSUME NEW S \in SUBSET Int, S # {}, NEW lo \in Int, \A x \in S : lo <= x
  PROVE  Min(S) \in S /\ \A x \in S : Min(S) <= x
<1> DEFINE T == {x - lo : x \in S}
<1>1. T \subseteq Nat /\ T # {}
  <2>1. ASSUME NEW x \in S PROVE x - lo \in Nat
    OBVIOUS
  <2> QED
    BY <2>1
<1>2. PICK t \in T : \A u \in T : t <= u
  BY <1>1, LeastNatural
<1>3. PICK x \in S : t = x - lo
  BY <1>2
<1>4. \A y \in S : x <= y
  BY <1>2, <1>3
<1> QED
  BY <1>4 DEF Min

\* A nonempty set of integers with an upper bound has a greatest element.
LEMMA MaxExists ==
  ASSUME NEW S \in SUBSET Int, S # {}, NEW hi \in Int, \A x \in S : x <= hi
  PROVE  Max(S) \in S /\ \A x \in S : x <= Max(S)
<1> DEFINE T == {hi - x : x \in S}
<1>1. T \subseteq Nat /\ T # {}
  <2>1. ASSUME NEW x \in S PROVE hi - x \in Nat
    OBVIOUS
  <2> QED
    BY <2>1
<1>2. PICK t \in T : \A u \in T : t <= u
  BY <1>1, LeastNatural
<1>3. PICK x \in S : t = hi - x
  BY <1>2
<1>4. \A y \in S : y <= x
  BY <1>2, <1>3
<1> QED
  BY <1>4 DEF Max

-----------------------------------------------------------------------------
(***************************************************************************)
(* Maps.                                                                   *)
(***************************************************************************)

\* Dropping an entry from a map.
LEMMA RestrictProperties ==
  ASSUME NEW K, NEW V, NEW m, IsMap(m, K, V), NEW D, D \subseteq DOMAIN m
  PROVE  /\ IsMap(Restrict(m, D), K, V)
         /\ DOMAIN Restrict(m, D) = D
         /\ \A x \in D : Restrict(m, D)[x] = m[x]
BY DEF IsMap, Restrict

-----------------------------------------------------------------------------
(***************************************************************************)
(* One side of a book.                                                     *)
(***************************************************************************)
IsLevels(levels) == IsMap(levels, Int, Seq(OrderId))
IsLookup(lookup) == IsMap(lookup, OrderId, Location)

\* The queue that push_back extends, and what it becomes.
LEMMA PushBackQueue ==
  ASSUME NEW levels, IsLevels(levels), NEW p \in Int, NEW id \in OrderId
  PROVE  /\ QueueAt(levels, p) \in Seq(OrderId)
         /\ Append(QueueAt(levels, p), id) \in Seq(OrderId)
         /\ Len(Append(QueueAt(levels, p), id)) = Len(QueueAt(levels, p)) + 1
         /\ Append(QueueAt(levels, p), id)[Len(QueueAt(levels, p)) + 1] = id
         /\ \A i \in 1 .. Len(QueueAt(levels, p)) :
              Append(QueueAt(levels, p), id)[i] = QueueAt(levels, p)[i]
<1>1. QueueAt(levels, p) \in Seq(OrderId)
  BY DEF QueueAt, IsLevels, IsMap
<1> QED
  BY <1>1, AppendProperties

\* push_back on a level keeps the side in agreement with the lookup table that
\* add extends with the same entry.
LEMMA PushBackAgrees ==
  ASSUME NEW levels, NEW lookup, NEW side \in Side, NEW p \in Int,
         NEW id \in OrderId,
         IsLevels(levels), IsLookup(lookup), id \notin DOMAIN lookup,
         SideAgrees(levels, side, lookup)
  PROVE  /\ IsLevels(PushBack(levels, p, id))
         /\ DOMAIN PushBack(levels, p, id) = DOMAIN levels \cup {p}
         /\ SideAgrees(PushBack(levels, p, id), side,
                       Put(lookup, id, [side |-> side, price |-> p]))
<1> DEFINE old == QueueAt(levels, p)
           new == Append(old, id)
           entry == [side |-> side, price |-> p]
           levels2 == PushBack(levels, p, id)
           lookup2 == Put(lookup, id, entry)
<1>1. /\ old \in Seq(OrderId)
      /\ new \in Seq(OrderId)
      /\ Len(new) = Len(old) + 1
      /\ new[Len(old) + 1] = id
      /\ \A i \in 1 .. Len(old) : new[i] = old[i]
  BY PushBackQueue
<1>2. /\ IsLevels(levels2)
      /\ DOMAIN levels2 = DOMAIN levels \cup {p}
      /\ levels2[p] = new
      /\ \A x \in DOMAIN levels : x # p => levels2[x] = levels[x]
  <2>1. levels2 = Put(levels, p, new)
    BY DEF PushBack
  <2> HIDE DEF new, levels2
  <2> QED
    BY <1>1, <2>1 DEF Put, IsMap, IsLevels
<1>3. /\ DOMAIN lookup2 = DOMAIN lookup \cup {id}
      /\ lookup2[id] = entry
      /\ \A x \in DOMAIN lookup : lookup2[x] = lookup[x]
  <2> HIDE DEF entry
  <2> QED
    BY DEF Put
<1>4. /\ Len(old) \in Nat
      /\ DOMAIN new = 1 .. Len(old) + 1
      /\ DOMAIN old = 1 .. Len(old)
  BY <1>1, LenProperties
<1>5. \A i \in 1 .. Len(old) :
         /\ old[i] \in DOMAIN lookup
         /\ lookup[old[i]] = entry
         /\ \A j \in 1 .. Len(old) : old[i] = old[j] => i = j
  <2>1. CASE p \in DOMAIN levels
    BY <2>1, <1>4 DEF SideAgrees, QueueAt
  <2>2. CASE p \notin DOMAIN levels
    <3>1. Len(old) = 0
      BY <2>2, EmptySeq DEF QueueAt
    <3> QED
      BY <3>1
  <2> QED
    BY <2>1, <2>2
<1> HIDE DEF old, new, entry, levels2, lookup2
<1>6. ASSUME NEW q \in DOMAIN levels2
      PROVE  /\ levels2[q] # <<>>
             /\ \A i \in DOMAIN levels2[q] :
                  /\ levels2[q][i] \in DOMAIN lookup2
                  /\ lookup2[levels2[q][i]] = [side |-> side, price |-> q]
                  /\ \A j \in DOMAIN levels2[q] :
                        levels2[q][i] = levels2[q][j] => i = j
  <2>1. CASE q = p
    <3>1. new # <<>>
      BY <1>1, <1>4, EmptySeq
    <3>2. ASSUME NEW i \in 1 .. Len(old) + 1
          PROVE  /\ new[i] \in DOMAIN lookup2
                 /\ lookup2[new[i]] = entry
                 /\ \A j \in 1 .. Len(old) + 1 : new[i] = new[j] => i = j
      <4>1. CASE i = Len(old) + 1
        BY <4>1, <1>1, <1>3, <1>4, <1>5
      <4>2. CASE i # Len(old) + 1
        <5>1. i \in 1 .. Len(old)
          BY <4>2, <1>4
        <5> QED
          BY <5>1, <1>1, <1>3, <1>4, <1>5
      <4> QED
        BY <4>1, <4>2
    <3> QED
      BY <2>1, <3>1, <3>2, <1>2, <1>4 DEF entry
  <2>2. CASE q # p
    <3>1. q \in DOMAIN levels /\ levels2[q] = levels[q]
      BY <2>2, <1>2
    <3> QED
      BY <3>1, <1>3 DEF SideAgrees
  <2> QED
    BY <2>1, <2>2
<1>7. ASSUME NEW x \in DOMAIN lookup2, lookup2[x].side = side
      PROVE  /\ lookup2[x].price \in DOMAIN levels2
             /\ \E i \in DOMAIN levels2[lookup2[x].price] :
                  levels2[lookup2[x].price][i] = x
  <2>1. CASE x = id
    <3>1. lookup2[x].price = p
      BY <2>1, <1>3 DEF entry
    <3>2. Len(old) + 1 \in DOMAIN new
      BY <1>4
    <3> QED
      BY <2>1, <3>1, <3>2, <1>1, <1>2
  <2>2. CASE x # id
    <3>1. x \in DOMAIN lookup /\ lookup2[x] = lookup[x]
      BY <2>2, <1>3
    <3>2. lookup[x].price \in DOMAIN levels
      BY <3>1, <1>7 DEF SideAgrees
    <3>3. PICK i \in DOMAIN levels[lookup[x].price] :
                 levels[lookup[x].price][i] = x
      BY <3>1, <1>7 DEF SideAgrees
    <3>4. CASE lookup[x].price = p
      <4>1. old = levels[p]
        BY <3>2, <3>4 DEF old, QueueAt
      <4>2. i \in 1 .. Len(old) /\ old[i] = x
        BY <4>1, <3>3, <3>4, <1>4
      <4>3. i \in DOMAIN new /\ new[i] = x
        BY <4>2, <1>1, <1>4
      <4> QED
        BY <3>1, <3>2, <3>4, <4>3, <1>2
    <3>5. CASE lookup[x].price # p
      BY <3>1, <3>2, <3>3, <3>5, <1>2
    <3> QED
      BY <3>4, <3>5
  <2> QED
    BY <2>1, <2>2
<1>8. SideAgrees(levels2, side, lookup2)
  BY <1>6, <1>7 DEF SideAgrees
<1> QED
  BY <1>2, <1>8 DEF levels2, lookup2, entry

\* push_back leaves the other side in agreement with the lookup table that add
\* extends.
LEMMA PutOtherSideAgrees ==
  ASSUME NEW levels, NEW lookup, NEW side \in Side, NEW entry \in Location,
         NEW id \in OrderId,
         IsLookup(lookup), id \notin DOMAIN lookup, entry.side # side,
         SideAgrees(levels, side, lookup)
  PROVE  SideAgrees(levels, side, Put(lookup, id, entry))
<1> DEFINE lookup2 == Put(lookup, id, entry)
<1>1. /\ DOMAIN lookup2 = DOMAIN lookup \cup {id}
      /\ lookup2[id] = entry
      /\ \A x \in DOMAIN lookup : lookup2[x] = lookup[x]
  BY DEF Put
<1> HIDE DEF lookup2
<1>2. SideAgrees(levels, side, lookup2)
  BY <1>1 DEF SideAgrees
<1> QED
  BY <1>2 DEF lookup2

\* What erasing an id's node leaves of its queue.
LEMMA ErasedQueue ==
  ASSUME NEW queue \in Seq(OrderId), NEW id,
         \E i \in DOMAIN queue : queue[i] = id,
         \A i, j \in DOMAIN queue : queue[i] = queue[j] => i = j
  PROVE  LET rest == RemoveAt(queue, PositionOf(queue, id))
         IN  /\ rest \in Seq(OrderId)
             /\ \A i \in DOMAIN rest : rest[i] # id
             /\ \A i \in DOMAIN rest : \E j \in DOMAIN queue : rest[i] = queue[j]
             /\ \A j \in DOMAIN queue :
                  queue[j] # id => \E i \in DOMAIN rest : rest[i] = queue[j]
             /\ \A i, j \in DOMAIN rest : rest[i] = rest[j] => i = j
<1> DEFINE k == PositionOf(queue, id)
           rest == RemoveAt(queue, k)
<1>1. k \in DOMAIN queue /\ queue[k] = id
  BY DEF PositionOf
<1>2. DOMAIN queue = 1 .. Len(queue) /\ Len(queue) \in Nat
  BY LenProperties
<1>3. /\ rest \in Seq(OrderId)
      /\ Len(rest) = Len(queue) - 1
      /\ \A j \in 1 .. Len(queue) - 1 :
            rest[j] = IF j < k THEN queue[j] ELSE queue[j + 1]
  <2> HIDE DEF k
  <2> QED
    BY <1>1, <1>2, RemoveAtProperties
<1>4. DOMAIN rest = 1 .. Len(queue) - 1
  BY <1>3, LenProperties
<1> HIDE DEF k, rest
<1>5. ASSUME NEW i \in DOMAIN rest
      PROVE  rest[i] # id /\ \E j \in DOMAIN queue : rest[i] = queue[j]
  <2>1. CASE i < k
    <3>1. i \in DOMAIN queue /\ i # k /\ rest[i] = queue[i]
      BY <2>1, <1>1, <1>2, <1>3, <1>4
    <3>2. queue[i] # id
      BY <3>1, <1>1
    <3> QED
      BY <3>1, <3>2
  <2>2. CASE ~(i < k)
    <3>1. i + 1 \in DOMAIN queue /\ i + 1 # k
      BY <2>2, <1>1, <1>2, <1>4
    <3>2. rest[i] = queue[i + 1]
      BY <2>2, <1>3, <1>4
    <3>3. queue[i + 1] # id
      BY <3>1, <1>1
    <3> QED
      BY <3>1, <3>2, <3>3
  <2> QED
    BY <2>1, <2>2
<1>6. ASSUME NEW j \in DOMAIN queue, queue[j] # id
      PROVE  \E i \in DOMAIN rest : rest[i] = queue[j]
  <2>1. CASE j < k
    <3>1. j \in DOMAIN rest /\ rest[j] = queue[j]
      BY <2>1, <1>1, <1>2, <1>3, <1>4
    <3> QED
      BY <3>1
  <2>2. CASE ~(j < k)
    <3>1. j # k
      BY <1>1, <1>6
    <3>2. j - 1 \in DOMAIN rest /\ ~(j - 1 < k) /\ (j - 1) + 1 = j
      BY <2>2, <3>1, <1>1, <1>2, <1>4
    <3>3. rest[j - 1] = queue[j]
      BY <3>2, <1>3, <1>4
    <3> QED
      BY <3>2, <3>3
  <2> QED
    BY <2>1, <2>2
<1>7. ASSUME NEW i \in DOMAIN rest, NEW j \in DOMAIN rest, rest[i] = rest[j]
      PROVE  i = j
  <2> DEFINE Old(n) == IF n < k THEN n ELSE n + 1
  <2>1. Old(i) \in DOMAIN queue /\ Old(j) \in DOMAIN queue
    BY <1>1, <1>2, <1>4
  <2>2. rest[i] = queue[Old(i)] /\ rest[j] = queue[Old(j)]
    BY <1>3, <1>4
  <2>3. Old(i) = Old(j)
    BY <2>1, <2>2, <1>7
  <2> QED
    BY <2>3, <1>1, <1>2, <1>4
<1> QED
  BY <1>3, <1>5, <1>6, <1>7 DEF rest, k

\* queue.erase, with the removal of an emptied level, keeps the side in
\* agreement with the lookup table that remove reduces by the same id.
LEMMA EraseAgrees ==
  ASSUME NEW levels, NEW lookup, NEW side \in Side, NEW id \in DOMAIN lookup,
         IsLevels(levels), lookup[id].side = side,
         SideAgrees(levels, side, lookup)
  PROVE  /\ IsLevels(Erase(levels, lookup[id].price, id))
         /\ DOMAIN Erase(levels, lookup[id].price, id) \subseteq DOMAIN levels
         /\ SideAgrees(Erase(levels, lookup[id].price, id), side,
                       Restrict(lookup, DOMAIN lookup \ {id}))
<1> DEFINE p == lookup[id].price
           queue == levels[p]
           rest == RemoveAt(queue, PositionOf(queue, id))
           levels2 == Erase(levels, p, id)
           lookup2 == Restrict(lookup, DOMAIN lookup \ {id})
<1>1. /\ p \in DOMAIN levels
      /\ \E i \in DOMAIN queue : queue[i] = id
      /\ \A i, j \in DOMAIN queue : queue[i] = queue[j] => i = j
  BY DEF SideAgrees
<1>2. queue \in Seq(OrderId)
  BY <1>1 DEF IsLevels, IsMap
<1>3. /\ rest \in Seq(OrderId)
      /\ \A i \in DOMAIN rest : rest[i] # id
      /\ \A i \in DOMAIN rest : \E j \in DOMAIN queue : rest[i] = queue[j]
      /\ \A j \in DOMAIN queue :
            queue[j] # id => \E i \in DOMAIN rest : rest[i] = queue[j]
      /\ \A i, j \in DOMAIN rest : rest[i] = rest[j] => i = j
  <2> HIDE DEF queue
  <2> QED
    BY <1>1, <1>2, ErasedQueue
<1>4. /\ DOMAIN lookup2 = DOMAIN lookup \ {id}
      /\ \A x \in DOMAIN lookup2 : lookup2[x] = lookup[x]
  BY DEF Restrict
<1>5. /\ IsLevels(levels2)
      /\ DOMAIN levels2 \subseteq DOMAIN levels
      /\ rest = <<>> => p \notin DOMAIN levels2
      /\ rest # <<>> => p \in DOMAIN levels2 /\ levels2[p] = rest
      /\ \A q \in DOMAIN levels : q # p => q \in DOMAIN levels2
                                           /\ levels2[q] = levels[q]
  <2>1. CASE rest = <<>>
    <3>1. levels2 = Restrict(levels, DOMAIN levels \ {p})
      BY <2>1 DEF Erase
    <3> HIDE DEF rest, queue, p, levels2
    <3> QED
      BY <2>1, <3>1, <1>1 DEF Restrict, IsLevels, IsMap
  <2>2. CASE rest # <<>>
    <3>1. levels2 = [levels EXCEPT ![p] = rest]
      BY <2>2 DEF Erase
    <3> HIDE DEF rest, queue, p, levels2
    <3> QED
      BY <2>2, <3>1, <1>1, <1>3 DEF IsLevels, IsMap
  <2> QED
    BY <2>1, <2>2
<1> HIDE DEF p, queue, rest, levels2, lookup2
<1>6. ASSUME NEW q \in DOMAIN levels2
      PROVE  /\ levels2[q] # <<>>
             /\ \A i \in DOMAIN levels2[q] :
                  /\ levels2[q][i] \in DOMAIN lookup2
                  /\ lookup2[levels2[q][i]] = [side |-> side, price |-> q]
                  /\ \A j \in DOMAIN levels2[q] :
                        levels2[q][i] = levels2[q][j] => i = j
  <2>1. CASE q = p
    <3>1. levels2[q] = rest /\ rest # <<>>
      BY <2>1, <1>5
    <3>2. ASSUME NEW i \in DOMAIN rest
          PROVE  /\ rest[i] \in DOMAIN lookup2
                 /\ lookup2[rest[i]] = [side |-> side, price |-> p]
      <4>1. PICK j \in DOMAIN queue : rest[i] = queue[j]
        BY <1>3
      <4>2. queue[j] \in DOMAIN lookup /\ lookup[queue[j]] = [side |-> side, price |-> p]
        BY <1>1 DEF SideAgrees, queue
      <4> QED
        BY <4>1, <4>2, <1>3, <1>4
    <3> QED
      BY <2>1, <3>1, <3>2, <1>3
  <2>2. CASE q # p
    <3>1. q \in DOMAIN levels /\ levels2[q] = levels[q]
      BY <2>2, <1>5
    <3>2. ASSUME NEW i \in DOMAIN levels[q]
          PROVE  levels[q][i] # id
      <4>1. lookup[levels[q][i]] = [side |-> side, price |-> q]
        BY <3>1 DEF SideAgrees
      <4> QED
        BY <4>1, <2>2 DEF p
    <3> QED
      BY <3>1, <3>2, <1>4 DEF SideAgrees
  <2> QED
    BY <2>1, <2>2
<1>7. ASSUME NEW x \in DOMAIN lookup2, lookup2[x].side = side
      PROVE  /\ lookup2[x].price \in DOMAIN levels2
             /\ \E i \in DOMAIN levels2[lookup2[x].price] :
                  levels2[lookup2[x].price][i] = x
  <2>1. x \in DOMAIN lookup /\ x # id /\ lookup2[x] = lookup[x]
    BY <1>4
  <2>2. lookup[x].price \in DOMAIN levels
    BY <2>1, <1>7 DEF SideAgrees
  <2>3. PICK i \in DOMAIN levels[lookup[x].price] :
               levels[lookup[x].price][i] = x
    BY <2>1, <1>7 DEF SideAgrees
  <2>4. CASE lookup[x].price = p
    <3>1. i \in DOMAIN queue /\ queue[i] = x
      BY <2>3, <2>4 DEF queue
    <3>2. PICK j \in DOMAIN rest : rest[j] = x
      BY <3>1, <2>1, <1>3
    <3>3. rest # <<>>
      BY <3>2, <1>3, EmptySeq
    <3> QED
      BY <2>1, <2>4, <3>2, <3>3, <1>5
  <2>5. CASE lookup[x].price # p
    BY <2>1, <2>2, <2>3, <2>5, <1>5
  <2> QED
    BY <2>4, <2>5
<1>8. SideAgrees(levels2, side, lookup2)
  BY <1>6, <1>7 DEF SideAgrees
<1> QED
  BY <1>5, <1>8 DEF levels2, lookup2, p

\* remove leaves the other side in agreement with the reduced lookup table.
LEMMA EraseOtherSideAgrees ==
  ASSUME NEW levels, NEW lookup, NEW side \in Side, NEW id \in DOMAIN lookup,
         lookup[id].side # side,
         SideAgrees(levels, side, lookup)
  PROVE  SideAgrees(levels, side, Restrict(lookup, DOMAIN lookup \ {id}))
<1> DEFINE lookup2 == Restrict(lookup, DOMAIN lookup \ {id})
<1>1. /\ DOMAIN lookup2 = DOMAIN lookup \ {id}
      /\ \A x \in DOMAIN lookup2 : lookup2[x] = lookup[x]
  BY DEF Restrict
<1>2. ASSUME NEW p \in DOMAIN levels, NEW i \in DOMAIN levels[p]
      PROVE  levels[p][i] # id
  <2>1. lookup[levels[p][i]] = [side |-> side, price |-> p]
    BY DEF SideAgrees
  <2> QED
    BY <2>1
<1> HIDE DEF lookup2
<1>3. SideAgrees(levels, side, lookup2)
  BY <1>1, <1>2 DEF SideAgrees
<1> QED
  BY <1>3 DEF lookup2

-----------------------------------------------------------------------------
(***************************************************************************)
(* Whole books.                                                            *)
(***************************************************************************)

\* The prices of a book's levels are bounded (there are finitely many): what
\* makes a best bid and a best ask exist.
HasBounds(levels) ==
  \E lo, hi \in Int : \A p \in DOMAIN levels : lo <= p /\ p <= hi

BookBounded(b) == HasBounds(b.bids) /\ HasBounds(b.asks)

GoodBook(b, ords) == IsBook(b) /\ BookBounded(b) /\ BookAgrees(b, ords)

\* One more level, or fewer, and the prices are still bounded.
LEMMA BoundsKept ==
  ASSUME NEW levels, NEW levels2, NEW p \in Int, IsLevels(levels),
         HasBounds(levels), DOMAIN levels2 \subseteq DOMAIN levels \cup {p}
  PROVE  HasBounds(levels2)
<1>1. PICK lo \in Int, hi \in Int : \A q \in DOMAIN levels : lo <= q /\ q <= hi
  BY DEF HasBounds
<1> DEFINE lo2 == IF p < lo THEN p ELSE lo
           hi2 == IF hi < p THEN p ELSE hi
<1>2. lo2 \in Int /\ hi2 \in Int
  OBVIOUS
<1>3. \A q \in DOMAIN levels2 : lo2 <= q /\ q <= hi2
  BY <1>1 DEF IsLevels, IsMap
<1> QED
  BY <1>2, <1>3 DEF HasBounds

\* A new book.
LEMMA EmptyBookGood ==
  ASSUME NEW ords
  PROVE  GoodBook(EmptyBook, ords) /\ DOMAIN EmptyBook.lookup = {}
<1>1. DOMAIN NoEntries = {}
  BY DEF NoEntries
<1>2. IsBook(EmptyBook)
  BY DEF IsBook, IsMap, EmptyBook, NoEntries
<1>3. BookBounded(EmptyBook)
  BY <1>1 DEF BookBounded, HasBounds, EmptyBook
<1>4. BookAgrees(EmptyBook, ords)
  BY <1>1 DEF BookAgrees, SideAgrees, EmptyBook
<1> QED
  BY <1>1, <1>2, <1>3, <1>4 DEF GoodBook, EmptyBook

\* add: the book stays well formed, holds one more id, and has at most one new
\* level, on the order's side at its price.
LEMMA BookAddGood ==
  ASSUME NEW b, NEW ords, IsMap(ords, OrderId, Order), NEW id \in DOMAIN ords,
         GoodBook(b, ords), id \notin DOMAIN b.lookup
  PROVE  LET b2 == BookAdd(b, id, ords[id])
         IN  /\ GoodBook(b2, ords)
             /\ DOMAIN b2.lookup = DOMAIN b.lookup \cup {id}
             /\ DOMAIN b2.bids = IF ords[id].side = "Buy"
                                 THEN DOMAIN b.bids \cup {ords[id].price}
                                 ELSE DOMAIN b.bids
             /\ DOMAIN b2.asks = IF ords[id].side = "Sell"
                                 THEN DOMAIN b.asks \cup {ords[id].price}
                                 ELSE DOMAIN b.asks
<1> DEFINE b2 == BookAdd(b, id, ords[id])
           p == ords[id].price
           entry == [side |-> ords[id].side, price |-> p]
           lookup2 == Put(b.lookup, id, entry)
<1>1. ords[id] \in Order /\ id \in OrderId
  BY DEF IsMap
<1>2. p \in Int /\ ords[id].side \in Side /\ entry \in Location
  BY <1>1 DEF Order, Location
<1>3. IsLevels(b.bids) /\ IsLevels(b.asks) /\ IsLookup(b.lookup)
  BY DEF GoodBook, IsBook, IsLevels, IsLookup
<1>4. SideAgrees(b.bids, "Buy", b.lookup) /\ SideAgrees(b.asks, "Sell", b.lookup)
  BY DEF GoodBook, BookAgrees
<1>5. /\ IsLookup(lookup2)
      /\ DOMAIN lookup2 = DOMAIN b.lookup \cup {id}
      /\ lookup2[id] = entry
      /\ \A x \in DOMAIN b.lookup : lookup2[x] = b.lookup[x]
  <2> HIDE DEF entry
  <2> QED
    BY <1>1, <1>2, <1>3 DEF Put, IsLookup, IsMap
<1>6. b2.lookup = lookup2
  BY DEF BookAdd
<1>7. /\ IsLevels(b2.bids)
      /\ DOMAIN b2.bids = IF ords[id].side = "Buy" THEN DOMAIN b.bids \cup {p}
                                                   ELSE DOMAIN b.bids
      /\ SideAgrees(b2.bids, "Buy", lookup2)
  <2>1. CASE ords[id].side = "Buy"
    <3>1. b2.bids = PushBack(b.bids, p, id)
      BY <2>1 DEF BookAdd
    <3> QED
      BY <2>1, <3>1, <1>1, <1>2, <1>3, <1>4, PushBackAgrees DEF Side
  <2>2. CASE ords[id].side # "Buy"
    <3>1. b2.bids = b.bids
      BY <2>2 DEF BookAdd
    <3>2. SideAgrees(b.bids, "Buy", lookup2)
      BY <2>2, <1>1, <1>2, <1>3, <1>4, PutOtherSideAgrees DEF Side
    <3> QED
      BY <2>2, <3>1, <3>2, <1>3
  <2> QED
    BY <2>1, <2>2
<1>8. /\ IsLevels(b2.asks)
      /\ DOMAIN b2.asks = IF ords[id].side = "Sell" THEN DOMAIN b.asks \cup {p}
                                                    ELSE DOMAIN b.asks
      /\ SideAgrees(b2.asks, "Sell", lookup2)
  <2>1. CASE ords[id].side = "Sell"
    <3>1. b2.asks = PushBack(b.asks, p, id)
      BY <2>1 DEF BookAdd
    <3> QED
      BY <2>1, <3>1, <1>1, <1>2, <1>3, <1>4, PushBackAgrees DEF Side
  <2>2. CASE ords[id].side # "Sell"
    <3>1. b2.asks = b.asks
      BY <2>2 DEF BookAdd
    <3>2. SideAgrees(b.asks, "Sell", lookup2)
      BY <2>2, <1>1, <1>2, <1>3, <1>4, PutOtherSideAgrees DEF Side
    <3> QED
      BY <2>2, <3>1, <3>2, <1>3
  <2> QED
    BY <2>1, <2>2
<1>9. b2 = [bids |-> b2.bids, asks |-> b2.asks, lookup |-> b2.lookup]
  BY DEF BookAdd
<1> HIDE DEF b2, lookup2
<1>10. IsBook(b2)
  BY <1>5, <1>6, <1>7, <1>8, <1>9 DEF IsBook, IsLevels, IsLookup
<1>11. BookBounded(b2)
  BY <1>2, <1>3, <1>7, <1>8, BoundsKept DEF BookBounded, GoodBook
<1>12. BookAgrees(b2, ords)
  <2>1. ASSUME NEW x \in DOMAIN lookup2
        PROVE  /\ x \in DOMAIN ords
               /\ lookup2[x] = [side |-> ords[x].side, price |-> ords[x].price]
    BY <1>5 DEF GoodBook, BookAgrees, entry
  <2> QED
    BY <2>1, <1>6, <1>7, <1>8 DEF BookAgrees
<1> QED
  BY <1>5, <1>6, <1>7, <1>8, <1>10, <1>11, <1>12 DEF GoodBook, b2, p

\* remove: the book stays well formed, holds one id less, and has no new level.
LEMMA BookRemoveGood ==
  ASSUME NEW b, NEW ords, GoodBook(b, ords), NEW id \in DOMAIN b.lookup
  PROVE  LET b2 == BookRemove(b, id)
         IN  /\ GoodBook(b2, ords)
             /\ DOMAIN b2.lookup = DOMAIN b.lookup \ {id}
             /\ DOMAIN b2.bids \subseteq DOMAIN b.bids
             /\ DOMAIN b2.asks \subseteq DOMAIN b.asks
<1> DEFINE b2 == BookRemove(b, id)
           p == b.lookup[id].price
           lookup2 == Restrict(b.lookup, DOMAIN b.lookup \ {id})
<1>1. IsLevels(b.bids) /\ IsLevels(b.asks) /\ IsLookup(b.lookup)
  BY DEF GoodBook, IsBook, IsLevels, IsLookup
<1>2. b.lookup[id] \in Location
  BY <1>1 DEF IsLookup, IsMap
<1>3. b.lookup[id].side \in {"Buy", "Sell"} /\ p \in Int
  BY <1>2 DEF Location, Side
<1>4. SideAgrees(b.bids, "Buy", b.lookup) /\ SideAgrees(b.asks, "Sell", b.lookup)
  BY DEF GoodBook, BookAgrees
<1>5. /\ IsLookup(lookup2)
      /\ DOMAIN lookup2 = DOMAIN b.lookup \ {id}
      /\ \A x \in DOMAIN lookup2 : lookup2[x] = b.lookup[x]
  BY <1>1 DEF IsLookup, IsMap, Restrict
<1>6. b2.lookup = lookup2
  BY DEF BookRemove
<1>7. /\ IsLevels(b2.bids)
      /\ DOMAIN b2.bids \subseteq DOMAIN b.bids
      /\ SideAgrees(b2.bids, "Buy", lookup2)
  <2>1. CASE b.lookup[id].side = "Buy"
    <3>1. b2.bids = Erase(b.bids, p, id)
      BY <2>1 DEF BookRemove
    <3> QED
      BY <2>1, <3>1, <1>1, <1>4, EraseAgrees DEF Side
  <2>2. CASE b.lookup[id].side # "Buy"
    <3>1. b2.bids = b.bids
      BY <2>2 DEF BookRemove
    <3>2. SideAgrees(b.bids, "Buy", lookup2)
      BY <2>2, <1>4, EraseOtherSideAgrees DEF Side
    <3> QED
      BY <3>1, <3>2, <1>1
  <2> QED
    BY <2>1, <2>2
<1>8. /\ IsLevels(b2.asks)
      /\ DOMAIN b2.asks \subseteq DOMAIN b.asks
      /\ SideAgrees(b2.asks, "Sell", lookup2)
  <2>1. CASE b.lookup[id].side = "Sell"
    <3>1. b2.asks = Erase(b.asks, p, id)
      BY <2>1 DEF BookRemove
    <3> QED
      BY <2>1, <3>1, <1>1, <1>4, EraseAgrees DEF Side
  <2>2. CASE b.lookup[id].side # "Sell"
    <3>1. b2.asks = b.asks
      BY <2>2 DEF BookRemove
    <3>2. SideAgrees(b.asks, "Sell", lookup2)
      BY <2>2, <1>4, EraseOtherSideAgrees DEF Side
    <3> QED
      BY <3>1, <3>2, <1>1
  <2> QED
    BY <2>1, <2>2
<1>9. b2 = [bids |-> b2.bids, asks |-> b2.asks, lookup |-> b2.lookup]
  BY DEF BookRemove
<1> HIDE DEF b2, lookup2
<1>10. IsBook(b2)
  BY <1>5, <1>6, <1>7, <1>8, <1>9 DEF IsBook, IsLevels, IsLookup
<1>11. BookBounded(b2)
  BY <1>1, <1>3, <1>7, <1>8, BoundsKept DEF BookBounded, GoodBook
<1>12. BookAgrees(b2, ords)
  BY <1>5, <1>6, <1>7, <1>8 DEF BookAgrees, GoodBook
<1> QED
  BY <1>5, <1>6, <1>7, <1>8, <1>10, <1>11, <1>12 DEF GoodBook, b2

\* A book depends on the orders only through the sides and prices of its own.
LEMMA OrdersMayChange ==
  ASSUME NEW b, NEW ords, NEW ords2, GoodBook(b, ords),
         \A id \in DOMAIN b.lookup :
            /\ id \in DOMAIN ords2
            /\ ords2[id].side = ords[id].side
            /\ ords2[id].price = ords[id].price
  PROVE  GoodBook(b, ords2)
<1>1. BookAgrees(b, ords2)
  BY DEF GoodBook, BookAgrees
<1> QED
  BY <1>1 DEF GoodBook

\* best_ask is nullopt only for a side with no levels; otherwise it is the id
\* of an order of the book that sells at the lowest level, first in its queue.
LEMMA BestAskProperties ==
  ASSUME NEW b, NEW ords, GoodBook(b, ords)
  PROVE  /\ BestAsk(b) = NoOrder => DOMAIN b.asks = {}
         /\ BestAsk(b) # NoOrder =>
              /\ BestAsk(b) \in DOMAIN b.lookup
              /\ ords[BestAsk(b)].side = "Sell"
              /\ \A p \in DOMAIN b.asks : ords[BestAsk(b)].price <= p
              /\ ords[BestAsk(b)].price \in DOMAIN b.asks
              /\ BestAsk(b) = b.asks[ords[BestAsk(b)].price][1]
<1>1. IsLevels(b.asks) /\ IsLookup(b.lookup)
  BY DEF GoodBook, IsBook, IsLevels, IsLookup
<1>2. CASE DOMAIN b.asks = {}
  BY <1>2 DEF BestAsk
<1>3. CASE DOMAIN b.asks # {}
  <2> DEFINE p == Min(DOMAIN b.asks)
             queue == b.asks[p]
  <2>1. DOMAIN b.asks \in SUBSET Int
    BY <1>1 DEF IsLevels, IsMap
  <2>2. PICK lo \in Int, hi \in Int :
               \A q \in DOMAIN b.asks : lo <= q /\ q <= hi
    BY DEF GoodBook, BookBounded, HasBounds
  <2>3. p \in DOMAIN b.asks /\ \A q \in DOMAIN b.asks : p <= q
    BY <1>3, <2>1, <2>2, MinExists
  <2> HIDE DEF p
  <2>4. queue \in Seq(OrderId) /\ queue # <<>>
    BY <1>1, <2>3 DEF IsLevels, IsMap, GoodBook, BookAgrees, SideAgrees
  <2>5. BestAsk(b) = Head(queue)
    BY <1>3, <2>4 DEF BestAsk, FrontOf, p
  <2>6. 1 \in DOMAIN queue /\ Head(queue) = queue[1]
    BY <2>4, EmptySeq, LenProperties, HeadTailProperties
  <2>7. /\ queue[1] \in DOMAIN b.lookup
        /\ b.lookup[queue[1]] = [side |-> "Sell", price |-> p]
    <3>1. SideAgrees(b.asks, "Sell", b.lookup)
      BY DEF GoodBook, BookAgrees
    <3> QED
      BY <2>3, <2>6, <3>1 DEF SideAgrees
  <2>8. queue[1] # NoOrder
    <3>1. DOMAIN b.lookup \subseteq OrderId
      BY <1>1 DEF IsLookup, IsMap
    <3> QED
      BY <2>7, <3>1 DEF OrderId, NoOrder
  <2>9. ords[queue[1]].side = "Sell" /\ ords[queue[1]].price = p
    <3> HIDE DEF queue
    <3>1. b.lookup[queue[1]] = [side |-> ords[queue[1]].side,
                                price |-> ords[queue[1]].price]
      BY <2>7 DEF GoodBook, BookAgrees
    <3>2. /\ b.lookup[queue[1]].side = ords[queue[1]].side
          /\ b.lookup[queue[1]].price = ords[queue[1]].price
      BY <3>1
    <3>3. b.lookup[queue[1]].side = "Sell" /\ b.lookup[queue[1]].price = p
      BY <2>7
    <3> QED
      BY <3>2, <3>3
  <2> QED
    BY <2>3, <2>5, <2>6, <2>7, <2>8, <2>9
<1> QED
  BY <1>2, <1>3

\* best_bid likewise: the first order of the book to buy at the highest level.
LEMMA BestBidProperties ==
  ASSUME NEW b, NEW ords, GoodBook(b, ords)
  PROVE  /\ BestBid(b) = NoOrder => DOMAIN b.bids = {}
         /\ BestBid(b) # NoOrder =>
              /\ BestBid(b) \in DOMAIN b.lookup
              /\ ords[BestBid(b)].side = "Buy"
              /\ \A p \in DOMAIN b.bids : p <= ords[BestBid(b)].price
              /\ ords[BestBid(b)].price \in DOMAIN b.bids
              /\ BestBid(b) = b.bids[ords[BestBid(b)].price][1]
<1>1. IsLevels(b.bids) /\ IsLookup(b.lookup)
  BY DEF GoodBook, IsBook, IsLevels, IsLookup
<1>2. CASE DOMAIN b.bids = {}
  BY <1>2 DEF BestBid
<1>3. CASE DOMAIN b.bids # {}
  <2> DEFINE p == Max(DOMAIN b.bids)
             queue == b.bids[p]
  <2>1. DOMAIN b.bids \in SUBSET Int
    BY <1>1 DEF IsLevels, IsMap
  <2>2. PICK lo \in Int, hi \in Int :
               \A q \in DOMAIN b.bids : lo <= q /\ q <= hi
    BY DEF GoodBook, BookBounded, HasBounds
  <2>3. p \in DOMAIN b.bids /\ \A q \in DOMAIN b.bids : q <= p
    BY <1>3, <2>1, <2>2, MaxExists
  <2> HIDE DEF p
  <2>4. queue \in Seq(OrderId) /\ queue # <<>>
    BY <1>1, <2>3 DEF IsLevels, IsMap, GoodBook, BookAgrees, SideAgrees
  <2>5. BestBid(b) = Head(queue)
    BY <1>3, <2>4 DEF BestBid, FrontOf, p
  <2>6. 1 \in DOMAIN queue /\ Head(queue) = queue[1]
    BY <2>4, EmptySeq, LenProperties, HeadTailProperties
  <2>7. /\ queue[1] \in DOMAIN b.lookup
        /\ b.lookup[queue[1]] = [side |-> "Buy", price |-> p]
    <3>1. SideAgrees(b.bids, "Buy", b.lookup)
      BY DEF GoodBook, BookAgrees
    <3> QED
      BY <2>3, <2>6, <3>1 DEF SideAgrees
  <2>8. queue[1] # NoOrder
    <3>1. DOMAIN b.lookup \subseteq OrderId
      BY <1>1 DEF IsLookup, IsMap
    <3> QED
      BY <2>7, <3>1 DEF OrderId, NoOrder
  <2>9. ords[queue[1]].side = "Buy" /\ ords[queue[1]].price = p
    <3> HIDE DEF queue
    <3>1. b.lookup[queue[1]] = [side |-> ords[queue[1]].side,
                                price |-> ords[queue[1]].price]
      BY <2>7 DEF GoodBook, BookAgrees
    <3>2. /\ b.lookup[queue[1]].side = ords[queue[1]].side
          /\ b.lookup[queue[1]].price = ords[queue[1]].price
      BY <3>1
    <3>3. b.lookup[queue[1]].side = "Buy" /\ b.lookup[queue[1]].price = p
      BY <2>7
    <3> QED
      BY <3>2, <3>3
  <2> QED
    BY <2>3, <2>5, <2>6, <2>7, <2>8, <2>9
<1> QED
  BY <1>2, <1>3

-----------------------------------------------------------------------------
(***************************************************************************)
(* The inductive invariant.  To the properties it adds what a turn of the  *)
(* matching loop relies on: the event under way is an Add of a known order *)
(* that is in no book and was not cancelled, and its market exists.        *)
(***************************************************************************)
MatchUnderWay ==
  /\ eventLog # <<>>
  /\ Event.payload.type = "Add"
  /\ Event.symbol \in DOMAIN books
  /\ incomingId \in DOMAIN orders
  /\ incoming.state # "CancelPending"
  /\ \A s \in DOMAIN books : incomingId \notin Booked(s)

BooksGood ==
  \A s \in DOMAIN books : GoodBook(books[s], orders) /\ Uncrossed(books[s])

BooksApart ==
  \A s, t \in DOMAIN books : s # t => Booked(s) \cap Booked(t) = {}

IInv ==
  /\ TypeOK
  /\ LogIsDense
  /\ OrdersConsistent
  /\ BooksGood
  /\ BooksApart
  /\ StaleOnlyOutOfBand
  /\ pc = "matching" => MatchUnderWay

-----------------------------------------------------------------------------
(***************************************************************************)
(* Steps.  What is proved of a step holds whoever calls process, and       *)
(* whatever event it is given: a feed, a simulator or a replayed log.      *)
(***************************************************************************)

\* The events of some types that process accepts.
Offered(types) ==
  {e \in MarketEvent :
     ~Refuses(e) /\ IsValid(e) /\ e.payload.type \in types}

DuplicateRejected == \E e \in Offered({"Add"}) : RejectDuplicateAdd(e)
MatchBegins == \E e \in Offered({"Add"}) : BeginMatch(e)
CancelRejected == \E e \in Offered({"Cancel"}) : RejectCancel(e)
CancelMissesBook == \E e \in Offered({"Cancel"}) : CancelNotInBook(e)
BookedCancelled == \E e \in Offered({"Cancel"}) : CancelBooked(e)
ExecuteRejected == \E e \in Offered({"Execute"}) : RejectExecute(e)
OrderExecuted == \E e \in Offered({"Execute"}) : ExecuteOrder(e)
DataTaken == \E e \in Offered({"Trade", "Quote"}) : MarketData(e)

\* A step of the engine: a call of process for any event, up to its return or
\* to match, or a turn of matching.
Step ==
  \/ Refuse
  \/ DuplicateRejected \/ MatchBegins
  \/ CancelRejected \/ CancelMissesBook \/ BookedCancelled
  \/ ExecuteRejected \/ OrderExecuted
  \/ DataTaken
  \/ Match

\* A run of the engine in the hands of any caller.
Run == Init /\ [][Step]_vars

\* process(event) is a step for every event there is.
LEMMA ProcessIsStep == ASSUME NEW e \in MarketEvent, Process(e) PROVE Step
<1>1. CASE Refuse
  BY <1>1 DEF Step
<1>2. ASSUME Accept(e), NEW types, e.payload.type \in types
      PROVE  e \in Offered(types)
  BY <1>2 DEF Accept, Refuses, Offered
<1>3. CASE RejectDuplicateAdd(e)
  BY <1>3, <1>2 DEF RejectDuplicateAdd, DuplicateRejected, Step
<1>4. CASE BeginMatch(e)
  BY <1>4, <1>2 DEF BeginMatch, MatchBegins, Step
<1>5. CASE RejectCancel(e)
  BY <1>5, <1>2 DEF RejectCancel, CancelRejected, Step
<1>6. CASE CancelNotInBook(e)
  BY <1>6, <1>2 DEF CancelNotInBook, CancelMissesBook, Step
<1>7. CASE CancelBooked(e)
  BY <1>7, <1>2 DEF CancelBooked, BookedCancelled, Step
<1>8. CASE RejectExecute(e)
  BY <1>8, <1>2 DEF RejectExecute, ExecuteRejected, Step
<1>9. CASE ExecuteOrder(e)
  BY <1>9, <1>2 DEF ExecuteOrder, OrderExecuted, Step
<1>10. CASE MarketData(e)
  BY <1>10, <1>2 DEF MarketData, DataTaken, Step
<1> QED
  BY <1>1, <1>3, <1>4, <1>5, <1>6, <1>7, <1>8, <1>9, <1>10
     DEF Process, Take

LEMMA NextIsStep == [Next]_vars => [Step]_vars
<1>1. ASSUME NEW e \in Due, Take(e) PROVE Step
  <2>1. e \in MarketEvent
    BY <1>1, FeedAssumption DEF Due
  <2> QED
    BY <1>1, <2>1, ProcessIsStep DEF Process
<1> QED
  BY <1>1 DEF Next, Step

\* A feed makes a run.
LEMMA SpecIsRun == Spec => Run
BY NextIsStep, PTL DEF Spec, Run

-----------------------------------------------------------------------------
(***************************************************************************)
(* Events.                                                                 *)
(***************************************************************************)

\* What is_valid and the types of the feed say of an event on offer.
LEMMA OfferedEvent ==
  ASSUME NEW types, NEW e \in Offered(types)
  PROVE  /\ e \in MarketEvent
         /\ e.sequence_number = nextExpected
         /\ IsValid(e)
         /\ e.symbol \in Symbols
         /\ e.payload.type \in types
<1>1. e \in MarketEvent /\ e.sequence_number = nextExpected
      /\ IsValid(e) /\ e.payload.type \in types
  BY DEF Offered, Refuses
<1>2. e.symbol \in Symbols
  BY <1>1 DEF MarketEvent, IsValid
<1> QED
  BY <1>1, <1>2

\* A valid Add event carries the fields of a proper new order.
LEMMA AddFields ==
  ASSUME NEW e \in MarketEvent, IsValid(e), e.payload.type = "Add"
  PROVE  /\ e.payload.order_id \in OrderId
         /\ e.payload.side \in Side
         /\ e.payload.price \in Int /\ e.payload.price > 0
         /\ e.payload.quantity \in Int /\ e.payload.quantity > 0
<1>1. e.payload \in AddOrderEvent
  BY DEF MarketEvent, TradeEvent, QuoteEvent, AddOrderEvent,
         CancelOrderEvent, ExecuteOrderEvent
<1>2. IsValidPayload(e.payload)
  BY DEF IsValid
<1>3. /\ e.payload.order_id > 0 /\ e.payload.side \in Side
      /\ e.payload.price > 0 /\ e.payload.quantity > 0
  BY <1>2 DEF IsValidPayload
<1> QED
  BY <1>1, <1>3 DEF AddOrderEvent, OrderId

\* Cancel and Execute events carry an id and an integer quantity.
LEMMA ExecuteFields ==
  ASSUME NEW e \in MarketEvent, IsValid(e), e.payload.type = "Execute"
  PROVE  e.payload.quantity \in Int
<1>1. e.payload \in ExecuteOrderEvent
  BY DEF MarketEvent, TradeEvent, QuoteEvent, AddOrderEvent,
         CancelOrderEvent, ExecuteOrderEvent
<1> QED
  BY <1>1 DEF ExecuteOrderEvent

\* Accepting an event extends the log by it.
LEMMA AcceptExtendsLog ==
  ASSUME TypeOK, LogIsDense, NEW types, NEW e \in Offered(types), Accept(e)
  PROVE  /\ nextExpected' \in Nat
         /\ eventLog' \in Seq(MarketEvent)
         /\ LogIsDense'
         /\ Len(eventLog') = Len(eventLog) + 1
         /\ eventLog'[Len(eventLog) + 1] = e
         /\ \A i \in DOMAIN eventLog : /\ i \in DOMAIN eventLog'
                                       /\ eventLog'[i] = eventLog[i]
         /\ Len(eventLog) + 1 \in DOMAIN eventLog'
<1>1. /\ e \in MarketEvent
      /\ e.sequence_number = nextExpected
      /\ IsValid(e)
  BY OfferedEvent DEF TypeOK
<1>2. eventLog \in Seq(MarketEvent) /\ Len(eventLog) \in Nat
      /\ DOMAIN eventLog = 1 .. Len(eventLog)
  BY LenProperties DEF TypeOK
<1>3. eventLog' = Append(eventLog, e) /\ nextExpected' = nextExpected + 1
  BY DEF Accept
<1>4. /\ eventLog' \in Seq(MarketEvent)
      /\ Len(eventLog') = Len(eventLog) + 1
      /\ eventLog'[Len(eventLog) + 1] = e
      /\ \A i \in 1 .. Len(eventLog) : eventLog'[i] = eventLog[i]
  BY <1>1, <1>2, <1>3, AppendProperties
<1>5. DOMAIN eventLog' = 1 .. Len(eventLog) + 1
  BY <1>2, <1>4, LenProperties
<1>6. nextExpected = Len(eventLog) + 1
  BY DEF LogIsDense
<1>7. nextExpected' = Len(eventLog') + 1
  BY <1>2, <1>3, <1>4, <1>6
<1>8. ASSUME NEW i \in DOMAIN eventLog'
      PROVE  eventLog'[i].sequence_number = i /\ IsValid(eventLog'[i])
  <2>1. CASE i = Len(eventLog) + 1
    BY <2>1, <1>1, <1>4, <1>6
  <2>2. CASE i # Len(eventLog) + 1
    <3>1. i \in DOMAIN eventLog /\ eventLog'[i] = eventLog[i]
      BY <2>2, <1>2, <1>4, <1>5
    <3> QED
      BY <3>1 DEF LogIsDense
  <2> QED
    BY <2>1, <2>2
<1>9. LogIsDense'
  BY <1>7, <1>8 DEF LogIsDense, IsValid, IsValidPayload
<1>10. nextExpected' \in Nat
  BY <1>3 DEF TypeOK
<1> QED
  BY <1>2, <1>4, <1>5, <1>9, <1>10

-----------------------------------------------------------------------------
(***************************************************************************)
(* Orders.                                                                 *)
(***************************************************************************)

\* A new order is consistent.
LEMMA NewOrderGood ==
  ASSUME NEW side \in Side, NEW price \in Int, price > 0,
         NEW quantity \in Int, quantity > 0
  PROVE  LET o == NewOrder(side, price, quantity)
         IN  /\ o \in Order /\ Consistent(o)
             /\ o.side = side /\ o.price = price /\ o.state = "New"
BY DEF NewOrder, Order, OrderState, Consistent

\* A fill that apply_fill grants keeps an order consistent and its terms fixed,
\* and completes it exactly when it takes all that remains.
LEMMA FillGood ==
  ASSUME NEW o \in Order, Consistent(o), NEW q \in Int, CanFill(o, q)
  PROVE  LET f == Fill(o, q)
         IN  /\ f \in Order /\ Consistent(f)
             /\ f.side = o.side /\ f.price = o.price
             /\ f.state \in {"PartiallyFilled", "Filled"}
             /\ f.state # "Filled" => f.remaining > 0
<1> DEFINE f == Fill(o, q)
<1> DEFINE st == IF q = o.remaining THEN "Filled" ELSE "PartiallyFilled"
<1>1. /\ f.side = o.side /\ f.price = o.price /\ f.quantity = o.quantity
      /\ f.filled = o.filled + q /\ f.remaining = o.remaining - q
      /\ f.state = st
      /\ f = [side |-> f.side, price |-> f.price, quantity |-> f.quantity,
              filled |-> f.filled, remaining |-> f.remaining, state |-> f.state]
  <2>1. f = [o EXCEPT !.filled = o.filled + q, !.remaining = o.remaining - q,
                      !.state = st]
    BY DEF Fill
  <2> HIDE DEF f, st
  <2> QED
    BY <2>1 DEF Order
<1>2. /\ o.side \in Side /\ o.price \in Int /\ o.quantity \in Int
      /\ o.filled \in Int /\ o.remaining \in Int
  BY DEF Order
<1>3. q > 0 /\ q <= o.remaining
  BY DEF CanFill
<1> HIDE DEF f
<1>4. f.state \in {"PartiallyFilled", "Filled"}
  BY <1>1 DEF st
<1>5. f \in Order
  BY <1>1, <1>2, <1>4 DEF Order, OrderState
<1>6. f.state = "Filled" <=> f.remaining = 0
  BY <1>1, <1>2
<1>7. /\ f.filled > 0 /\ f.remaining >= 0
      /\ f.filled + f.remaining = f.quantity
      /\ f.quantity > 0 /\ f.price > 0
  BY <1>1, <1>2, <1>3 DEF Consistent
<1>8. Consistent(f)
  BY <1>2, <1>4, <1>5, <1>6, <1>7 DEF Consistent, Order
<1> QED
  BY <1>1, <1>4, <1>5, <1>6, <1>7, <1>8, <1>2 DEF f

\* A cancel that can_transition grants likewise.
LEMMA CancelGood ==
  ASSUME NEW o \in Order, Consistent(o), CanTransition(o.state, "CancelPending")
  PROVE  LET c == Transition(o, "CancelPending")
         IN  /\ c \in Order /\ Consistent(c)
             /\ c.side = o.side /\ c.price = o.price
             /\ o.state # "CancelPending"
BY DEF CanTransition, Transition, Order, OrderState, Consistent

\* The table after execute: one order filled, all else as it was.
LEMMA ExecuteGood ==
  ASSUME NEW ords, IsMap(ords, OrderId, Order),
         \A x \in DOMAIN ords : Consistent(ords[x]),
         NEW id, NEW q \in Int, CanExecute(ords, id, q)
  PROVE  LET ords2 == Execute(ords, id, q)
         IN  /\ IsMap(ords2, OrderId, Order)
             /\ \A x \in DOMAIN ords2 : Consistent(ords2[x])
             /\ DOMAIN ords2 = DOMAIN ords
             /\ ords2[id] = Fill(ords[id], q)
             /\ \A x \in DOMAIN ords : x # id => ords2[x] = ords[x]
             /\ \A x \in DOMAIN ords : /\ ords2[x].side = ords[x].side
                                       /\ ords2[x].price = ords[x].price
<1> DEFINE ords2 == Execute(ords, id, q)
<1>1. id \in DOMAIN ords /\ CanFill(ords[id], q)
  BY DEF CanExecute
<1>2. ords[id] \in Order /\ Consistent(ords[id])
  BY <1>1 DEF IsMap
<1>3. /\ DOMAIN ords2 = DOMAIN ords
      /\ ords2[id] = Fill(ords[id], q)
      /\ \A x \in DOMAIN ords : x # id => ords2[x] = ords[x]
      /\ ords2 = [x \in DOMAIN ords |-> ords2[x]]
  BY <1>1 DEF Execute, IsMap
<1>4. /\ Fill(ords[id], q) \in Order
      /\ Consistent(Fill(ords[id], q))
      /\ Fill(ords[id], q).side = ords[id].side
      /\ Fill(ords[id], q).price = ords[id].price
  BY <1>1, <1>2, FillGood
<1> HIDE DEF ords2
<1>5. IsMap(ords2, OrderId, Order)
  BY <1>3, <1>4 DEF IsMap
<1> QED
  BY <1>3, <1>4, <1>5 DEF ords2

\* The table after a cancel: one order closed, all else as it was.
LEMMA CancelTableGood ==
  ASSUME NEW ords, IsMap(ords, OrderId, Order),
         \A x \in DOMAIN ords : Consistent(ords[x]),
         NEW id, CanCancel(ords, id)
  PROVE  LET ords2 == Cancel(ords, id)
         IN  /\ IsMap(ords2, OrderId, Order)
             /\ \A x \in DOMAIN ords2 : Consistent(ords2[x])
             /\ DOMAIN ords2 = DOMAIN ords
             /\ \A x \in DOMAIN ords : x # id => ords2[x] = ords[x]
             /\ \A x \in DOMAIN ords : /\ ords2[x].side = ords[x].side
                                       /\ ords2[x].price = ords[x].price
<1> DEFINE ords2 == Cancel(ords, id)
           closed == Transition(ords[id], "CancelPending")
<1>1. id \in DOMAIN ords /\ CanTransition(ords[id].state, "CancelPending")
  BY DEF CanCancel
<1>2. ords[id] \in Order /\ Consistent(ords[id])
  BY <1>1 DEF IsMap
<1>3. /\ DOMAIN ords2 = DOMAIN ords
      /\ ords2[id] = closed
      /\ \A x \in DOMAIN ords : x # id => ords2[x] = ords[x]
      /\ ords2 = [x \in DOMAIN ords |-> ords2[x]]
  BY <1>1 DEF Cancel, IsMap
<1>4. /\ closed \in Order /\ Consistent(closed)
      /\ closed.side = ords[id].side /\ closed.price = ords[id].price
  BY <1>1, <1>2, CancelGood
<1> HIDE DEF ords2, closed
<1>5. IsMap(ords2, OrderId, Order)
  BY <1>3, <1>4 DEF IsMap
<1> QED
  BY <1>3, <1>4, <1>5 DEF ords2

-----------------------------------------------------------------------------
(***************************************************************************)
(* Calls of process that do not enter match.                               *)
(***************************************************************************)

\* The log only grows, so what it says of an order stays said.
LEMMA TouchedKept ==
  ASSUME TypeOK, LogIsDense, NEW types, NEW e \in Offered(types), Accept(e),
         NEW id, NEW s, TouchedOutOfBand(id, s)
  PROVE  TouchedOutOfBand(id, s)'
<1>1. PICK i \in DOMAIN eventLog :
             \/ Logged(i, "Execute", id)
             \/ Logged(i, "Cancel", id) /\ eventLog[i].symbol # s
  BY DEF TouchedOutOfBand
<1>2. i \in DOMAIN eventLog' /\ eventLog'[i] = eventLog[i]
  BY AcceptExtendsLog
<1> QED
  BY <1>1, <1>2 DEF TouchedOutOfBand, Logged

\* A refused event changes nothing that the invariant is about.
LEMMA RefuseKeeps == ASSUME IInv, Refuse PROVE IInv'
<1>1. /\ nextExpected' = nextExpected /\ eventLog' = eventLog
      /\ orders' = orders /\ books' = books /\ executions' = executions
      /\ pc' = pc /\ trades' = trades /\ pc = "idle" /\ returned' = FALSE
  BY DEF Refuse
<1>2. TypeOK' /\ LogIsDense'
  BY <1>1 DEF IInv, TypeOK, LogIsDense
<1>3. OrdersConsistent' /\ BooksGood' /\ BooksApart'
  BY <1>1 DEF IInv, OrdersConsistent, BooksGood, BooksApart, Booked
<1>4. StaleOnlyOutOfBand'
  BY <1>1 DEF IInv, StaleOnlyOutOfBand, TouchedOutOfBand, Logged, Booked
<1> QED
  BY <1>1, <1>2, <1>3, <1>4 DEF IInv

\* An event that is logged and then changes nothing.
LEMMA LogOnlyKeeps ==
  ASSUME IInv, NEW types, NEW e \in Offered(types), Accept(e),
         pc' = "idle", returned' \in BOOLEAN,
         UNCHANGED <<orders, books, executions, trades>>
  PROVE  IInv'
<1>1. TypeOK /\ LogIsDense
  BY DEF IInv
<1>2. nextExpected' \in Nat /\ eventLog' \in Seq(MarketEvent) /\ LogIsDense'
  BY <1>1, AcceptExtendsLog
<1>3. TypeOK'
  BY <1>1, <1>2 DEF TypeOK
<1>4. OrdersConsistent' /\ BooksGood' /\ BooksApart'
  BY DEF IInv, OrdersConsistent, BooksGood, BooksApart, Booked
<1>5. ASSUME NEW s \in DOMAIN books, NEW id \in Booked(s),
             ~Executable(orders[id])
      PROVE  TouchedOutOfBand(id, s)'
  <2>1. TouchedOutOfBand(id, s)
    BY <1>5 DEF IInv, StaleOnlyOutOfBand
  <2> QED
    BY <1>1, <2>1, TouchedKept
<1>6. StaleOnlyOutOfBand'
  BY <1>5 DEF StaleOnlyOutOfBand, Booked
<1> QED
  BY <1>2, <1>3, <1>4, <1>6 DEF IInv

\* Whatever the books, an order table with the same sides and prices keeps
\* them well formed.
LEMMA BooksKept ==
  ASSUME BooksGood, BooksApart, books' = books,
         DOMAIN orders' = DOMAIN orders,
         \A x \in DOMAIN orders : /\ orders'[x].side = orders[x].side
                                  /\ orders'[x].price = orders[x].price
  PROVE  BooksGood' /\ BooksApart'
<1>1. ASSUME NEW s \in DOMAIN books
      PROVE  GoodBook(books[s], orders')
  <2>1. GoodBook(books[s], orders)
    BY DEF BooksGood
  <2>2. \A id \in DOMAIN books[s].lookup : id \in DOMAIN orders
    BY <2>1 DEF GoodBook, BookAgrees
  <2> QED
    BY <2>1, <2>2, OrdersMayChange
<1> QED
  BY <1>1 DEF BooksGood, BooksApart, Booked

\* An Execute event fills an order wherever it is.
LEMMA ExecuteOrderKeeps == ASSUME IInv, OrderExecuted PROVE IInv'
<1>1. PICK e \in Offered({"Execute"}) :
        /\ Accept(e)
        /\ CanExecute(orders, e.payload.order_id, e.payload.quantity)
        /\ orders' = Execute(orders, e.payload.order_id, e.payload.quantity)
        /\ Return(TRUE)
        /\ UNCHANGED <<books, executions, trades>>
  BY DEF OrderExecuted, ExecuteOrder
<1> DEFINE id == e.payload.order_id
           q == e.payload.quantity
<1>2. TypeOK /\ LogIsDense /\ OrdersConsistent /\ BooksGood /\ BooksApart
  BY DEF IInv
<1>3. /\ nextExpected' \in Nat /\ eventLog' \in Seq(MarketEvent) /\ LogIsDense'
      /\ Len(eventLog) + 1 \in DOMAIN eventLog'
      /\ eventLog'[Len(eventLog) + 1] = e
  BY <1>1, <1>2, AcceptExtendsLog
<1>4. e.payload.type = "Execute" /\ q \in Int
  BY <1>2, OfferedEvent, ExecuteFields DEF TypeOK
<1>5. /\ IsMap(orders', OrderId, Order)
      /\ \A x \in DOMAIN orders' : Consistent(orders'[x])
      /\ DOMAIN orders' = DOMAIN orders
      /\ \A x \in DOMAIN orders : x # id => orders'[x] = orders[x]
      /\ \A x \in DOMAIN orders : /\ orders'[x].side = orders[x].side
                                  /\ orders'[x].price = orders[x].price
  BY <1>1, <1>2, <1>4, ExecuteGood DEF TypeOK, OrdersConsistent
<1>6. TypeOK'
  BY <1>1, <1>2, <1>3, <1>5 DEF TypeOK, Return
<1>7. OrdersConsistent'
  BY <1>5 DEF OrdersConsistent
<1>8. BooksGood' /\ BooksApart'
  BY <1>1, <1>2, <1>5, BooksKept
<1>9. ASSUME NEW s \in DOMAIN books, NEW x \in Booked(s),
             ~Executable(orders'[x])
      PROVE  TouchedOutOfBand(x, s)'
  <2>1. CASE x = id
    BY <2>1, <1>3, <1>4 DEF TouchedOutOfBand, Logged
  <2>2. CASE x # id
    <3>1. x \in DOMAIN orders
      BY <1>2 DEF BooksGood, GoodBook, BookAgrees, Booked
    <3>2. TouchedOutOfBand(x, s)
      BY <2>2, <3>1, <1>5, <1>9 DEF IInv, StaleOnlyOutOfBand
    <3> QED
      BY <3>2, <1>1, <1>2, TouchedKept
  <2> QED
    BY <2>1, <2>2
<1>10. StaleOnlyOutOfBand'
  BY <1>1, <1>9 DEF StaleOnlyOutOfBand, Booked
<1> QED
  BY <1>1, <1>3, <1>6, <1>7, <1>8, <1>10 DEF IInv, Return

\* A Cancel that names a market whose book does not hold the order: if another
\* book holds it, the log now says so.
LEMMA CancelNotInBookKeeps == ASSUME IInv, CancelMissesBook PROVE IInv'
<1>1. PICK e \in Offered({"Cancel"}) :
        /\ Accept(e)
        /\ e.symbol \in DOMAIN books
        /\ CanCancel(orders, e.payload.order_id)
        /\ ~CanRemove(books[e.symbol], e.payload.order_id)
        /\ orders' = Cancel(orders, e.payload.order_id)
        /\ Return(FALSE)
        /\ UNCHANGED <<books, executions, trades>>
  BY DEF CancelMissesBook, CancelNotInBook
<1> DEFINE id == e.payload.order_id
<1>2. TypeOK /\ LogIsDense /\ OrdersConsistent /\ BooksGood /\ BooksApart
  BY DEF IInv
<1>3. /\ nextExpected' \in Nat /\ eventLog' \in Seq(MarketEvent) /\ LogIsDense'
      /\ Len(eventLog) + 1 \in DOMAIN eventLog'
      /\ eventLog'[Len(eventLog) + 1] = e
  BY <1>1, <1>2, AcceptExtendsLog
<1>4. e.payload.type = "Cancel"
  BY <1>2, OfferedEvent DEF TypeOK
<1>5. /\ IsMap(orders', OrderId, Order)
      /\ \A x \in DOMAIN orders' : Consistent(orders'[x])
      /\ DOMAIN orders' = DOMAIN orders
      /\ \A x \in DOMAIN orders : x # id => orders'[x] = orders[x]
      /\ \A x \in DOMAIN orders : /\ orders'[x].side = orders[x].side
                                  /\ orders'[x].price = orders[x].price
  BY <1>1, <1>2, CancelTableGood DEF TypeOK, OrdersConsistent
<1>6. TypeOK'
  BY <1>1, <1>2, <1>3, <1>5 DEF TypeOK, Return
<1>7. OrdersConsistent'
  BY <1>5 DEF OrdersConsistent
<1>8. BooksGood' /\ BooksApart'
  BY <1>1, <1>2, <1>5, BooksKept
<1>9. ASSUME NEW s \in DOMAIN books, NEW x \in Booked(s),
             ~Executable(orders'[x])
      PROVE  TouchedOutOfBand(x, s)'
  <2>1. CASE x = id
    <3>1. e.symbol # s
      BY <1>1, <2>1 DEF CanRemove, BookContains, Booked
    <3> QED
      BY <2>1, <3>1, <1>3, <1>4 DEF TouchedOutOfBand, Logged
  <2>2. CASE x # id
    <3>1. x \in DOMAIN orders
      BY <1>2 DEF BooksGood, GoodBook, BookAgrees, Booked
    <3>2. TouchedOutOfBand(x, s)
      BY <2>2, <3>1, <1>5, <1>9 DEF IInv, StaleOnlyOutOfBand
    <3> QED
      BY <3>2, <1>1, <1>2, TouchedKept
  <2> QED
    BY <2>1, <2>2
<1>10. StaleOnlyOutOfBand'
  BY <1>1, <1>9 DEF StaleOnlyOutOfBand, Booked
<1> QED
  BY <1>1, <1>3, <1>6, <1>7, <1>8, <1>10 DEF IInv, Return

\* One book replaced by what remove leaves of it, with an order table of the
\* same sides and prices.
LEMMA BooksAfterRemove ==
  ASSUME TypeOK, BooksGood, BooksApart,
         NEW s \in DOMAIN books, NEW id \in Booked(s),
         books' = [books EXCEPT ![s] = BookRemove(@, id)],
         DOMAIN orders' = DOMAIN orders,
         \A x \in DOMAIN orders : /\ orders'[x].side = orders[x].side
                                  /\ orders'[x].price = orders[x].price
  PROVE  /\ BooksGood' /\ BooksApart'
         /\ DOMAIN books' = DOMAIN books
         /\ books' = [t \in DOMAIN books' |-> books'[t]]
         /\ \A t \in DOMAIN books : IsBook(books'[t])
         /\ DOMAIN books'[s].lookup = Booked(s) \ {id}
         /\ \A t \in DOMAIN books : t # s => books'[t] = books[t]
<1>1. /\ DOMAIN books' = DOMAIN books
      /\ books'[s] = BookRemove(books[s], id)
      /\ \A t \in DOMAIN books : t # s => books'[t] = books[t]
      /\ books' = [t \in DOMAIN books' |-> books'[t]]
  BY DEF TypeOK
<1>2. ASSUME NEW t \in DOMAIN books
      PROVE  GoodBook(books[t], orders')
  <2>1. GoodBook(books[t], orders)
    BY DEF BooksGood
  <2>2. \A x \in DOMAIN books[t].lookup : x \in DOMAIN orders
    BY <2>1 DEF GoodBook, BookAgrees
  <2> QED
    BY <2>1, <2>2, OrdersMayChange
<1>3. /\ GoodBook(books'[s], orders')
      /\ DOMAIN books'[s].lookup = DOMAIN books[s].lookup \ {id}
      /\ DOMAIN books'[s].bids \subseteq DOMAIN books[s].bids
      /\ DOMAIN books'[s].asks \subseteq DOMAIN books[s].asks
  BY <1>1, <1>2, BookRemoveGood DEF Booked
<1>4. Uncrossed(books'[s])
  BY <1>3 DEF BooksGood, Uncrossed
<1>5. BooksGood'
  BY <1>1, <1>2, <1>3, <1>4 DEF BooksGood
<1>6. BooksApart'
  BY <1>1, <1>3 DEF BooksApart, Booked
<1> QED
  BY <1>1, <1>3, <1>5, <1>6 DEF BooksGood, GoodBook, Booked

\* A Cancel of an order that its book holds takes it out of that book.
LEMMA CancelBookedKeeps == ASSUME IInv, BookedCancelled PROVE IInv'
<1>1. PICK e \in Offered({"Cancel"}) :
        /\ Accept(e)
        /\ e.symbol \in DOMAIN books
        /\ CanCancel(orders, e.payload.order_id)
        /\ CanRemove(books[e.symbol], e.payload.order_id)
        /\ orders' = Cancel(orders, e.payload.order_id)
        /\ books' = [books EXCEPT ![e.symbol] =
                                    BookRemove(@, e.payload.order_id)]
        /\ Return(TRUE)
        /\ UNCHANGED <<executions, trades>>
  BY DEF BookedCancelled, CancelBooked
<1> DEFINE id == e.payload.order_id
<1>2. TypeOK /\ LogIsDense /\ OrdersConsistent /\ BooksGood /\ BooksApart
  BY DEF IInv
<1>3. nextExpected' \in Nat /\ eventLog' \in Seq(MarketEvent) /\ LogIsDense'
  BY <1>1, <1>2, AcceptExtendsLog
<1>4. /\ IsMap(orders', OrderId, Order)
      /\ \A x \in DOMAIN orders' : Consistent(orders'[x])
      /\ DOMAIN orders' = DOMAIN orders
      /\ \A x \in DOMAIN orders : x # id => orders'[x] = orders[x]
      /\ \A x \in DOMAIN orders : /\ orders'[x].side = orders[x].side
                                  /\ orders'[x].price = orders[x].price
  BY <1>1, <1>2, CancelTableGood DEF TypeOK, OrdersConsistent
<1>5. id \in Booked(e.symbol)
  BY <1>1 DEF CanRemove, BookContains, Booked
<1>6. /\ BooksGood' /\ BooksApart'
      /\ DOMAIN books' = DOMAIN books
      /\ books' = [t \in DOMAIN books' |-> books'[t]]
      /\ \A t \in DOMAIN books : IsBook(books'[t])
      /\ DOMAIN books'[e.symbol].lookup = Booked(e.symbol) \ {id}
      /\ \A t \in DOMAIN books : t # e.symbol => books'[t] = books[t]
  BY <1>1, <1>2, <1>4, <1>5, BooksAfterRemove
<1>7. TypeOK'
  BY <1>1, <1>2, <1>3, <1>4, <1>6 DEF TypeOK, Return
<1>8. OrdersConsistent'
  BY <1>4 DEF OrdersConsistent
<1>9. ASSUME NEW s \in DOMAIN books', NEW x \in DOMAIN books'[s].lookup,
             ~Executable(orders'[x])
      PROVE  TouchedOutOfBand(x, s)'
  <2>1. s \in DOMAIN books /\ x \in Booked(s) /\ x # id
    <3>1. CASE s = e.symbol
      BY <3>1, <1>1, <1>6
    <3>2. CASE s # e.symbol
      <4>1. s \in DOMAIN books /\ x \in Booked(s)
        BY <3>2, <1>6 DEF Booked
      <4>2. Booked(s) \cap Booked(e.symbol) = {}
        BY <3>2, <4>1, <1>1, <1>2 DEF BooksApart
      <4> QED
        BY <4>1, <4>2, <1>5
    <3> QED
      BY <3>1, <3>2
  <2>2. x \in DOMAIN orders
    BY <2>1, <1>2 DEF BooksGood, GoodBook, BookAgrees, Booked
  <2>3. TouchedOutOfBand(x, s)
    BY <2>1, <2>2, <1>4, <1>9 DEF IInv, StaleOnlyOutOfBand
  <2> QED
    BY <2>3, <1>1, <1>2, TouchedKept
<1>10. StaleOnlyOutOfBand'
  BY <1>9 DEF StaleOnlyOutOfBand, Booked
<1> QED
  BY <1>1, <1>3, <1>6, <1>7, <1>8, <1>10 DEF IInv, Return

\* An accepted Add of a new id: one more order, in no book, and its market.
LEMMA BeginMatchKeeps == ASSUME IInv, MatchBegins PROVE IInv'
<1>1. PICK e \in Offered({"Add"}) :
        /\ Accept(e)
        /\ e.payload.order_id \notin DOMAIN orders
        /\ orders' = Put(orders, e.payload.order_id,
                         NewOrder(e.payload.side, e.payload.price,
                                  e.payload.quantity))
        /\ books' = GetOrCreate(e.symbol)
        /\ pc' = "matching"
        /\ trades' = <<>>
        /\ returned' = FALSE
        /\ UNCHANGED executions
  BY DEF MatchBegins, BeginMatch
<1> DEFINE id == e.payload.order_id
           new == NewOrder(e.payload.side, e.payload.price, e.payload.quantity)
<1>2. TypeOK /\ LogIsDense /\ OrdersConsistent /\ BooksGood /\ BooksApart
  BY DEF IInv
<1>3. /\ nextExpected' \in Nat /\ eventLog' \in Seq(MarketEvent) /\ LogIsDense'
      /\ Len(eventLog') = Len(eventLog) + 1
      /\ eventLog'[Len(eventLog) + 1] = e
      /\ Len(eventLog) + 1 \in DOMAIN eventLog'
  BY <1>1, <1>2, AcceptExtendsLog
<1>4. e \in MarketEvent /\ IsValid(e) /\ e.payload.type = "Add"
      /\ e.symbol \in Symbols
  BY <1>2, OfferedEvent DEF TypeOK
<1>5. /\ id \in OrderId
      /\ new \in Order /\ Consistent(new) /\ new.state = "New"
  BY <1>4, AddFields, NewOrderGood
<1> HIDE DEF new
<1>6. /\ IsMap(orders', OrderId, Order)
      /\ DOMAIN orders' = DOMAIN orders \cup {id}
      /\ orders'[id] = new
      /\ \A x \in DOMAIN orders : orders'[x] = orders[x]
  <2>1. orders' = Put(orders, id, new)
    BY <1>1 DEF new
  <2>2. id \notin DOMAIN orders /\ IsMap(orders, OrderId, Order)
    BY <1>1, <1>2 DEF TypeOK
  <2> QED
    BY <2>1, <2>2, <1>5 DEF Put, IsMap
<1>7. /\ DOMAIN books' = DOMAIN books \cup {e.symbol}
      /\ books' = [t \in DOMAIN books' |-> books'[t]]
      /\ \A t \in DOMAIN books : books'[t] = books[t]
      /\ e.symbol \notin DOMAIN books => books'[e.symbol] = EmptyBook
  <2>1. CASE e.symbol \in DOMAIN books
    BY <2>1, <1>1, <1>2 DEF GetOrCreate, TypeOK
  <2>2. CASE e.symbol \notin DOMAIN books
    BY <2>2, <1>1 DEF GetOrCreate, Put
  <2> QED
    BY <2>1, <2>2
<1>8. ASSUME NEW t \in DOMAIN books'
      PROVE  /\ GoodBook(books'[t], orders') /\ Uncrossed(books'[t])
             /\ id \notin DOMAIN books'[t].lookup
             /\ t \notin DOMAIN books => DOMAIN books'[t].lookup = {}
  <2>1. CASE t \in DOMAIN books
    <3>1. GoodBook(books[t], orders) /\ Uncrossed(books[t])
      BY <2>1, <1>2 DEF BooksGood
    <3>2. \A x \in DOMAIN books[t].lookup : x \in DOMAIN orders
      BY <3>1 DEF GoodBook, BookAgrees
    <3>3. GoodBook(books[t], orders')
      BY <3>1, <3>2, <1>6, OrdersMayChange
    <3> QED
      BY <2>1, <3>1, <3>2, <3>3, <1>1, <1>7
  <2>2. CASE t \notin DOMAIN books
    <3>1. books'[t] = EmptyBook
      BY <2>2, <1>7
    <3>2. Uncrossed(EmptyBook)
      BY DEF Uncrossed, EmptyBook, NoEntries
    <3> QED
      BY <2>2, <3>1, <3>2, EmptyBookGood
  <2> QED
    BY <2>1, <2>2
<1>9. TypeOK'
  <2>1. DOMAIN books' \subseteq Symbols
    BY <1>2, <1>4, <1>7 DEF TypeOK
  <2>2. \A t \in DOMAIN books' : IsBook(books'[t])
    BY <1>8 DEF GoodBook
  <2>3. trades' \in Seq(TradeRecord)
    BY <1>1
  <2> QED
    BY <2>1, <2>2, <2>3, <1>1, <1>2, <1>3, <1>6, <1>7 DEF TypeOK
<1>10. OrdersConsistent'
  BY <1>2, <1>5, <1>6 DEF OrdersConsistent
<1>11. BooksGood'
  BY <1>8 DEF BooksGood
<1>12. BooksApart'
  BY <1>2, <1>7, <1>8 DEF BooksApart, Booked
<1>13. ASSUME NEW s \in DOMAIN books', NEW x \in DOMAIN books'[s].lookup,
              ~Executable(orders'[x])
       PROVE  TouchedOutOfBand(x, s)'
  <2>1. s \in DOMAIN books /\ x \in Booked(s)
    BY <1>7, <1>8 DEF Booked
  <2>2. x \in DOMAIN orders
    BY <2>1, <1>2 DEF BooksGood, GoodBook, BookAgrees, Booked
  <2>3. TouchedOutOfBand(x, s)
    BY <2>1, <2>2, <1>6, <1>13 DEF IInv, StaleOnlyOutOfBand
  <2> QED
    BY <2>3, <1>1, <1>2, TouchedKept
<1>14. StaleOnlyOutOfBand'
  BY <1>13 DEF StaleOnlyOutOfBand, Booked
<1>15. MatchUnderWay'
  <2>1. Event' = e
    BY <1>3 DEF Event, Last
  <2>2. incomingId' = id /\ incoming' = new
    BY <2>1, <1>6 DEF incomingId, incoming
  <2>3. eventLog' # <<>>
    BY <1>3, EmptySeq
  <2> QED
    BY <2>1, <2>2, <2>3, <1>4, <1>5, <1>6, <1>7, <1>8 DEF MatchUnderWay, Booked
<1> QED
  BY <1>3, <1>9, <1>10, <1>11, <1>12, <1>14, <1>15 DEF IInv

-----------------------------------------------------------------------------
(***************************************************************************)
(* Turns of the matching loop.                                             *)
(***************************************************************************)

\* What a turn has in hand: the incoming order, and, if it may match, a resting
\* order of the same book on the other side, which is not the incoming one.
LEMMA MatchFacts ==
  ASSUME IInv, pc = "matching"
  PROVE  /\ Event \in MarketEvent /\ Event.symbol \in DOMAIN books
         /\ incomingId \in DOMAIN orders
         /\ incoming \in Order /\ Consistent(incoming)
         /\ incoming.state # "CancelPending"
         /\ \A s \in DOMAIN books : incomingId \notin Booked(s)
         /\ GoodBook(book, orders) /\ Uncrossed(book)
         /\ MayMatch =>
              /\ restingId \in Booked(Event.symbol)
              /\ restingId \in DOMAIN orders
              /\ restingId # incomingId
              /\ resting \in Order /\ Consistent(resting)
              /\ incoming.remaining > 0
         /\ ~MayMatch /\ incoming.remaining > 0 =>
              /\ incoming.side = "Buy" =>
                   \A p \in DOMAIN book.asks : incoming.price < p
              /\ incoming.side = "Sell" =>
                   \A p \in DOMAIN book.bids : p < incoming.price
<1>1. TypeOK /\ OrdersConsistent /\ BooksGood /\ MatchUnderWay
  BY DEF IInv
<1>2. Event \in MarketEvent
  <2>1. eventLog \in Seq(MarketEvent) /\ eventLog # <<>>
    BY <1>1 DEF TypeOK, MatchUnderWay
  <2>2. Len(eventLog) \in DOMAIN eventLog
    BY <2>1, EmptySeq, LenProperties
  <2> QED
    BY <2>1, <2>2, ElementOfSeq, LenProperties DEF Event, Last
<1>3. /\ incomingId \in DOMAIN orders /\ Event.symbol \in DOMAIN books
      /\ incoming.state # "CancelPending"
      /\ \A s \in DOMAIN books : incomingId \notin Booked(s)
  BY <1>1 DEF MatchUnderWay
<1>4. incoming \in Order /\ Consistent(incoming)
  BY <1>1, <1>3 DEF TypeOK, IsMap, OrdersConsistent, incoming
<1>5. GoodBook(book, orders) /\ Uncrossed(book)
  BY <1>1, <1>3 DEF BooksGood, book
<1>6. /\ BestAsk(book) = NoOrder => DOMAIN book.asks = {}
      /\ BestAsk(book) # NoOrder =>
           /\ BestAsk(book) \in DOMAIN book.lookup
           /\ \A p \in DOMAIN book.asks : orders[BestAsk(book)].price <= p
  BY <1>5, BestAskProperties
<1>7. /\ BestBid(book) = NoOrder => DOMAIN book.bids = {}
      /\ BestBid(book) # NoOrder =>
           /\ BestBid(book) \in DOMAIN book.lookup
           /\ \A p \in DOMAIN book.bids : p <= orders[BestBid(book)].price
  BY <1>5, BestBidProperties
<1>8. restingId # NoOrder =>
        /\ restingId \in Booked(Event.symbol)
        /\ restingId \in DOMAIN orders
        /\ resting \in Order /\ Consistent(resting)
  <2>1. SUFFICES ASSUME restingId # NoOrder
                 PROVE  /\ restingId \in Booked(Event.symbol)
                        /\ restingId \in DOMAIN orders
                        /\ resting \in Order /\ Consistent(resting)
    OBVIOUS
  <2>2. restingId \in DOMAIN book.lookup
    BY <2>1, <1>6, <1>7 DEF restingId
  <2>3. restingId \in DOMAIN orders
    BY <2>2, <1>5 DEF GoodBook, BookAgrees
  <2> QED
    BY <2>2, <2>3, <1>1 DEF Booked, book, TypeOK, IsMap, OrdersConsistent,
                            resting
<1>9. MayMatch => /\ restingId \in Booked(Event.symbol)
                  /\ restingId \in DOMAIN orders
                  /\ restingId # incomingId
                  /\ resting \in Order /\ Consistent(resting)
                  /\ incoming.remaining > 0
  BY <1>3, <1>8 DEF MayMatch
<1>10. ASSUME ~MayMatch, incoming.remaining > 0, incoming.side = "Buy",
              NEW p \in DOMAIN book.asks
       PROVE  incoming.price < p
  <2>1. restingId = BestAsk(book) /\ restingId # NoOrder
    BY <1>6, <1>10 DEF restingId
  <2>2. ~Crosses(incoming, resting)
    BY <2>1, <1>10 DEF MayMatch
  <2>3. incoming.price < resting.price
    BY <2>1, <2>2, <1>4, <1>8, <1>10 DEF Crosses, Order
  <2>4. resting.price <= p
    BY <2>1, <1>6 DEF resting
  <2>5. p \in Int
    BY <1>5 DEF GoodBook, IsBook, IsMap
  <2> QED
    BY <2>1, <2>3, <2>4, <2>5, <1>4, <1>8 DEF Order
<1>11. ASSUME ~MayMatch, incoming.remaining > 0, incoming.side = "Sell",
              NEW p \in DOMAIN book.bids
       PROVE  p < incoming.price
  <2>1. restingId = BestBid(book) /\ restingId # NoOrder
    BY <1>7, <1>11 DEF restingId
  <2>2. ~Crosses(incoming, resting)
    BY <2>1, <1>11 DEF MayMatch
  <2>3. resting.price < incoming.price
    BY <2>1, <2>2, <1>4, <1>8, <1>11 DEF Crosses, Order
  <2>4. p <= resting.price
    BY <2>1, <1>7 DEF resting
  <2>5. p \in Int
    BY <1>5 DEF GoodBook, IsBook, IsMap
  <2> QED
    BY <2>1, <2>3, <2>4, <2>5, <1>4, <1>8 DEF Order
<1> QED
  BY <1>2, <1>3, <1>4, <1>5, <1>9, <1>10, <1>11

\* The trades of a match are recorded as executions of the event under way.
LEMMA RecordedGood ==
  ASSUME TypeOK, Event \in MarketEvent, Event.symbol \in DOMAIN books
  PROVE  Recorded(trades) \in Seq(ExecutionRecord)
<1>1. trades \in Seq(TradeRecord) /\ DOMAIN books \subseteq Symbols
  BY DEF TypeOK
<1>2. Len(trades) \in Nat /\ DOMAIN trades = 1 .. Len(trades)
      /\ \A i \in 1 .. Len(trades) : trades[i] \in TradeRecord
  BY <1>1, LenProperties, ElementOfSeq
<1>3. Event.event_id \in Nat /\ Event.timestamp \in Int
  BY DEF MarketEvent
<1>4. ASSUME NEW i \in 1 .. Len(trades)
      PROVE  Recorded(trades)[i] \in ExecutionRecord
  BY <1>1, <1>2, <1>3 DEF Recorded, ExecutionRecord, TradeRecord
<1>5. Recorded(trades) \in [1 .. Len(trades) -> ExecutionRecord]
  BY <1>2, <1>4 DEF Recorded
<1> QED
  BY <1>2, <1>5, SeqDef

\* Every way out of match leaves process idle with its executions recorded.
LEMMA FinishGood ==
  ASSUME IInv, pc = "matching", FinishMatch
  PROVE  /\ executions' \in Seq(ExecutionRecord)
         /\ trades' \in Seq(TradeRecord)
         /\ pc' = "idle" /\ returned' = TRUE
<1>1. TypeOK /\ Event \in MarketEvent /\ Event.symbol \in DOMAIN books
  BY MatchFacts DEF IInv
<1>2. executions \in Seq(ExecutionRecord)
      /\ Recorded(trades) \in Seq(ExecutionRecord)
  BY <1>1, RecordedGood DEF TypeOK
<1>3. executions \o Recorded(trades) \in Seq(ExecutionRecord)
  BY <1>2, ConcatProperties
<1> QED
  BY <1>3 DEF FinishMatch, Return

\* While the log stands still, so does what it says of an order.
LEMMA TouchedSame ==
  ASSUME eventLog' = eventLog, NEW id, NEW s, TouchedOutOfBand(id, s)
  PROVE  TouchedOutOfBand(id, s)'
BY DEF TouchedOutOfBand, Logged

\* A match that gives up on a resting order with nothing left.
LEMMA AbandonOnExhaustedKeeps == ASSUME IInv, AbandonOnExhausted PROVE IInv'
<1>1. /\ pc = "matching" /\ FinishMatch
      /\ UNCHANGED <<nextExpected, eventLog, orders, books>>
  BY DEF AbandonOnExhausted
<1>2. /\ executions' \in Seq(ExecutionRecord)
      /\ trades' \in Seq(TradeRecord)
      /\ pc' = "idle" /\ returned' = TRUE
  BY <1>1, FinishGood
<1>3. TypeOK' /\ LogIsDense'
  BY <1>1, <1>2 DEF IInv, TypeOK, LogIsDense
<1>4. OrdersConsistent' /\ BooksGood' /\ BooksApart'
  BY <1>1 DEF IInv, OrdersConsistent, BooksGood, BooksApart, Booked
<1>5. StaleOnlyOutOfBand'
  BY <1>1 DEF IInv, StaleOnlyOutOfBand, TouchedOutOfBand, Logged, Booked
<1> QED
  BY <1>2, <1>3, <1>4, <1>5 DEF IInv

\* The fills of a turn: the incoming order takes its fill, and so does the
\* resting one if apply_fill grants it.
LEMMA IncomingFilled ==
  ASSUME IInv, pc = "matching", MayMatch, resting.remaining > 0
  PROVE  LET mid == Execute(orders, incomingId, matchQuantity)
         IN  /\ matchQuantity \in Int
             /\ IsMap(mid, OrderId, Order)
             /\ \A x \in DOMAIN mid : Consistent(mid[x])
             /\ DOMAIN mid = DOMAIN orders
             /\ mid[incomingId] = Fill(incoming, matchQuantity)
             /\ \A x \in DOMAIN orders : x # incomingId => mid[x] = orders[x]
             /\ \A x \in DOMAIN orders : /\ mid[x].side = orders[x].side
                                          /\ mid[x].price = orders[x].price
             /\ Fill(incoming, matchQuantity).state # "CancelPending"
<1>1. /\ incomingId \in DOMAIN orders
      /\ incoming \in Order /\ Consistent(incoming)
      /\ incoming.state # "CancelPending"
      /\ resting \in Order
      /\ incoming.remaining > 0
  BY MatchFacts
<1>2. incoming.remaining \in Int /\ resting.remaining \in Int
  BY <1>1 DEF Order
<1>3. /\ matchQuantity \in Int /\ matchQuantity > 0
      /\ matchQuantity <= incoming.remaining
  BY <1>1, <1>2 DEF matchQuantity
<1>4. CanFill(incoming, matchQuantity)
  BY <1>1, <1>2, <1>3 DEF CanFill, Consistent
<1>5. CanExecute(orders, incomingId, matchQuantity)
  BY <1>1, <1>4 DEF CanExecute, incoming
<1>6. Fill(incoming, matchQuantity).state # "CancelPending"
  BY <1>1, <1>3, <1>4, FillGood
<1>7. IsMap(orders, OrderId, Order) /\ \A x \in DOMAIN orders : Consistent(orders[x])
  BY DEF IInv, TypeOK, OrdersConsistent
<1> HIDE DEF IInv
<1> QED
  BY <1>3, <1>5, <1>6, <1>7, ExecuteGood DEF incoming

\* A turn that fills the incoming order alone.
LEMMA AbandonHalfDoneKeeps == ASSUME IInv, AbandonHalfDone PROVE IInv'
<1>1. /\ pc = "matching" /\ MayMatch /\ resting.remaining > 0
      /\ orders' = Execute(orders, incomingId, matchQuantity)
      /\ FinishMatch
      /\ UNCHANGED <<nextExpected, eventLog, books>>
  BY DEF AbandonHalfDone
<1>2. /\ executions' \in Seq(ExecutionRecord)
      /\ trades' \in Seq(TradeRecord)
      /\ pc' = "idle" /\ returned' = TRUE
  BY <1>1, FinishGood
<1>3. /\ IsMap(orders', OrderId, Order)
      /\ \A x \in DOMAIN orders' : Consistent(orders'[x])
      /\ DOMAIN orders' = DOMAIN orders
      /\ \A x \in DOMAIN orders : x # incomingId => orders'[x] = orders[x]
      /\ \A x \in DOMAIN orders : /\ orders'[x].side = orders[x].side
                                   /\ orders'[x].price = orders[x].price
  BY <1>1, IncomingFilled
<1>4. TypeOK' /\ LogIsDense'
  BY <1>1, <1>2, <1>3 DEF IInv, TypeOK, LogIsDense
<1>5. OrdersConsistent'
  BY <1>3 DEF OrdersConsistent
<1>6. BooksGood' /\ BooksApart'
  BY <1>1, <1>3, BooksKept DEF IInv
<1>7. ASSUME NEW s \in DOMAIN books, NEW x \in Booked(s),
             ~Executable(orders'[x])
      PROVE  TouchedOutOfBand(x, s)'
  <2>1. x \in DOMAIN orders
    BY DEF IInv, BooksGood, GoodBook, BookAgrees, Booked
  <2>2. x # incomingId
    BY <1>1, MatchFacts
  <2>3. TouchedOutOfBand(x, s)
    BY <2>1, <2>2, <1>3, <1>7 DEF IInv, StaleOnlyOutOfBand
  <2> QED
    BY <2>3, <1>1, TouchedSame
<1>8. StaleOnlyOutOfBand'
  BY <1>1, <1>7 DEF StaleOnlyOutOfBand, Booked
<1> QED
  BY <1>2, <1>4, <1>5, <1>6, <1>8 DEF IInv

\* A turn that trades: both orders take the fill, and the resting one leaves
\* its book when that completes it.
LEMMA MatchTradeKeeps == ASSUME IInv, MatchTrade PROVE IInv'
<1> DEFINE mid == Execute(orders, incomingId, matchQuantity)
<1>1. /\ pc = "matching" /\ MayMatch
      /\ CanFill(resting, matchQuantity)
      /\ orders' = Execute(mid, restingId, matchQuantity)
      /\ books' = IF orders'[restingId].state = "Filled"
                  THEN [books EXCEPT ![Event.symbol] =
                                       BookRemove(@, restingId)]
                  ELSE books
      /\ trades' = Append(trades,
                          [incoming |-> incomingId, resting |-> restingId,
                           price |-> resting.price,
                           quantity |-> matchQuantity])
      /\ UNCHANGED <<nextExpected, eventLog, executions, pc, returned>>
  BY DEF MatchTrade, TradePrice
<1>2. /\ Event.symbol \in DOMAIN books
      /\ incomingId \in DOMAIN orders
      /\ \A s \in DOMAIN books : incomingId \notin Booked(s)
      /\ restingId \in Booked(Event.symbol)
      /\ restingId \in DOMAIN orders
      /\ restingId # incomingId
      /\ resting \in Order /\ Consistent(resting)
      /\ incoming \in Order
  BY <1>1, MatchFacts
<1>3. TypeOK /\ BooksGood /\ BooksApart /\ MatchUnderWay
  BY <1>1 DEF IInv
<1>4. resting.remaining > 0
  <2>1. resting.remaining \in Int /\ incoming.remaining \in Int
    BY <1>2 DEF Order
  <2> QED
    BY <2>1, <1>1 DEF CanFill, matchQuantity
<1>5. /\ matchQuantity \in Int
      /\ IsMap(mid, OrderId, Order)
      /\ \A x \in DOMAIN mid : Consistent(mid[x])
      /\ DOMAIN mid = DOMAIN orders
      /\ mid[incomingId] = Fill(incoming, matchQuantity)
      /\ \A x \in DOMAIN orders : x # incomingId => mid[x] = orders[x]
      /\ \A x \in DOMAIN orders : /\ mid[x].side = orders[x].side
                                   /\ mid[x].price = orders[x].price
      /\ Fill(incoming, matchQuantity).state # "CancelPending"
  BY <1>1, <1>4, IncomingFilled
<1> HIDE DEF mid
<1>6. mid[restingId] = resting /\ CanExecute(mid, restingId, matchQuantity)
  BY <1>1, <1>2, <1>5 DEF CanExecute, resting
<1>7. /\ IsMap(orders', OrderId, Order)
      /\ \A x \in DOMAIN orders' : Consistent(orders'[x])
      /\ DOMAIN orders' = DOMAIN orders
      /\ orders'[restingId] = Fill(resting, matchQuantity)
      /\ orders'[incomingId].state # "CancelPending"
      /\ \A x \in DOMAIN orders :
            x # incomingId /\ x # restingId => orders'[x] = orders[x]
      /\ \A x \in DOMAIN orders : /\ orders'[x].side = orders[x].side
                                   /\ orders'[x].price = orders[x].price
  BY <1>1, <1>2, <1>5, <1>6, ExecuteGood
<1>8. orders'[restingId].state # "Filled" => Executable(orders'[restingId])
  BY <1>1, <1>2, <1>5, <1>7, FillGood DEF Executable
<1>9. /\ BooksGood' /\ BooksApart'
      /\ DOMAIN books' = DOMAIN books
      /\ books' = [t \in DOMAIN books' |-> books'[t]]
      /\ \A t \in DOMAIN books : IsBook(books'[t])
      /\ \A t \in DOMAIN books : DOMAIN books'[t].lookup \subseteq Booked(t)
      /\ \A t \in DOMAIN books : restingId \in DOMAIN books'[t].lookup =>
                                    orders'[restingId].state # "Filled"
  <2>1. CASE orders'[restingId].state = "Filled"
    <3>1. books' = [books EXCEPT ![Event.symbol] = BookRemove(@, restingId)]
      BY <2>1, <1>1
    <3>2. /\ BooksGood' /\ BooksApart'
          /\ DOMAIN books' = DOMAIN books
          /\ books' = [t \in DOMAIN books' |-> books'[t]]
          /\ \A t \in DOMAIN books : IsBook(books'[t])
          /\ DOMAIN books'[Event.symbol].lookup =
               Booked(Event.symbol) \ {restingId}
          /\ \A t \in DOMAIN books : t # Event.symbol => books'[t] = books[t]
      BY <3>1, <1>2, <1>3, <1>7, BooksAfterRemove
    <3>3. ASSUME NEW t \in DOMAIN books
          PROVE  /\ DOMAIN books'[t].lookup \subseteq Booked(t)
                 /\ restingId \notin DOMAIN books'[t].lookup
      <4>1. CASE t = Event.symbol
        BY <4>1, <3>2
      <4>2. CASE t # Event.symbol
        BY <4>2, <3>2, <1>2, <1>3 DEF BooksApart, Booked
      <4> QED
        BY <4>1, <4>2
    <3> QED
      BY <3>2, <3>3
  <2>2. CASE orders'[restingId].state # "Filled"
    <3>1. books' = books
      BY <2>2, <1>1
    <3>2. BooksGood' /\ BooksApart'
      BY <3>1, <1>3, <1>7, BooksKept
    <3> QED
      BY <3>1, <3>2, <2>2, <1>3 DEF TypeOK, Booked
  <2> QED
    BY <2>1, <2>2
<1>10. trades' \in Seq(TradeRecord)
  <2>1. incomingId \in OrderId /\ restingId \in OrderId
    BY <1>2, <1>3 DEF TypeOK, IsMap
  <2>2. resting.price \in Int
    BY <1>2 DEF Order
  <2>3. [incoming |-> incomingId, resting |-> restingId,
         price |-> resting.price, quantity |-> matchQuantity] \in TradeRecord
    BY <2>1, <2>2, <1>5 DEF TradeRecord
  <2> QED
    BY <2>3, <1>1, <1>3, AppendProperties DEF TypeOK
<1>11. TypeOK'
  <2>1. DOMAIN books' \subseteq Symbols /\ \A t \in DOMAIN books' : IsBook(books'[t])
    BY <1>3, <1>9 DEF TypeOK
  <2> QED
    BY <2>1, <1>1, <1>3, <1>7, <1>9, <1>10 DEF TypeOK
<1>12. LogIsDense'
  BY <1>1 DEF IInv, LogIsDense
<1>13. OrdersConsistent'
  BY <1>7 DEF OrdersConsistent
<1>14. ASSUME NEW s \in DOMAIN books', NEW x \in DOMAIN books'[s].lookup,
              ~Executable(orders'[x])
       PROVE  TouchedOutOfBand(x, s)'
  <2>1. s \in DOMAIN books /\ x \in Booked(s)
    BY <1>9
  <2>2. x \in DOMAIN orders
    BY <2>1, <1>3 DEF BooksGood, GoodBook, BookAgrees, Booked
  <2>3. x # incomingId
    BY <2>1, <1>2
  <2>4. x # restingId
    BY <2>1, <1>8, <1>9, <1>14
  <2>5. TouchedOutOfBand(x, s)
    BY <2>1, <2>2, <2>3, <2>4, <1>7, <1>14 DEF IInv, StaleOnlyOutOfBand
  <2> QED
    BY <2>5, <1>1, TouchedSame
<1>15. StaleOnlyOutOfBand'
  BY <1>14 DEF StaleOnlyOutOfBand, Booked
<1>16. MatchUnderWay'
  <2>1. Event' = Event /\ incomingId' = incomingId
    BY <1>1 DEF Event, incomingId
  <2>2. incoming'.state # "CancelPending"
    BY <2>1, <1>7 DEF incoming
  <2>3. \A s \in DOMAIN books' : incomingId \notin DOMAIN books'[s].lookup
    BY <1>2, <1>9
  <2> QED
    BY <2>1, <2>2, <2>3, <1>1, <1>2, <1>3, <1>7, <1>9 DEF MatchUnderWay, Booked
<1> QED
  BY <1>9, <1>11, <1>12, <1>13, <1>15, <1>16 DEF IInv

\* The end of the matching loop: what is left of the incoming order joins the
\* book on its side, where it crosses nothing.
LEMMA RestIfNeededKeeps == ASSUME IInv, RestIfNeeded PROVE IInv'
<1>1. /\ pc = "matching" /\ ~MayMatch /\ FinishMatch
      /\ UNCHANGED <<nextExpected, eventLog, orders>>
  BY DEF RestIfNeeded
<1> DEFINE s0 == Event.symbol
           rests == incoming.remaining > 0 /\ CanAdd(book, incomingId, incoming)
<1>2. books' = IF rests
               THEN [books EXCEPT ![s0] = BookAdd(@, incomingId, incoming)]
               ELSE books
  BY DEF RestIfNeeded
<1>3. /\ s0 \in DOMAIN books /\ incomingId \in DOMAIN orders
      /\ incoming \in Order
      /\ \A s \in DOMAIN books : incomingId \notin Booked(s)
      /\ GoodBook(book, orders) /\ Uncrossed(book)
      /\ incoming.remaining > 0 =>
           /\ incoming.side = "Buy" =>
                \A p \in DOMAIN book.asks : incoming.price < p
           /\ incoming.side = "Sell" =>
                \A p \in DOMAIN book.bids : p < incoming.price
  BY <1>1, MatchFacts
<1>4. /\ executions' \in Seq(ExecutionRecord)
      /\ trades' \in Seq(TradeRecord)
      /\ pc' = "idle" /\ returned' = TRUE
  BY <1>1, FinishGood
<1>5. TypeOK /\ BooksGood /\ BooksApart
  BY DEF IInv
<1>6. CASE ~rests
  <2>1. books' = books
    BY <1>2, <1>6
  <2>2. TypeOK' /\ LogIsDense'
    BY <2>1, <1>1, <1>4 DEF IInv, TypeOK, LogIsDense
  <2>3. OrdersConsistent' /\ BooksGood' /\ BooksApart'
    BY <2>1, <1>1 DEF IInv, OrdersConsistent, BooksGood, BooksApart, Booked
  <2>4. StaleOnlyOutOfBand'
    BY <2>1, <1>1 DEF IInv, StaleOnlyOutOfBand, TouchedOutOfBand, Logged,
                      Booked
  <2> QED
    BY <2>2, <2>3, <2>4, <1>4 DEF IInv
<1>7. CASE rests
  <2> DEFINE b2 == BookAdd(book, incomingId, incoming)
  <2>1. /\ GoodBook(b2, orders)
        /\ DOMAIN b2.lookup = DOMAIN book.lookup \cup {incomingId}
        /\ DOMAIN b2.bids = IF incoming.side = "Buy"
                            THEN DOMAIN book.bids \cup {incoming.price}
                            ELSE DOMAIN book.bids
        /\ DOMAIN b2.asks = IF incoming.side = "Sell"
                            THEN DOMAIN book.asks \cup {incoming.price}
                            ELSE DOMAIN book.asks
    <3>1. IsMap(orders, OrderId, Order)
      BY <1>5 DEF TypeOK
    <3>2. incomingId \notin DOMAIN book.lookup
      BY <1>3 DEF Booked, book
    <3>3. incoming = orders[incomingId]
      BY DEF incoming
    <3>4. incomingId \in DOMAIN orders /\ GoodBook(book, orders)
      BY <1>3
    <3> HIDE DEF rests
    <3>5. LET b == BookAdd(book, incomingId, orders[incomingId])
          IN  /\ GoodBook(b, orders)
              /\ DOMAIN b.lookup = DOMAIN book.lookup \cup {incomingId}
              /\ DOMAIN b.bids = IF orders[incomingId].side = "Buy"
                     THEN DOMAIN book.bids \cup {orders[incomingId].price}
                     ELSE DOMAIN book.bids
              /\ DOMAIN b.asks = IF orders[incomingId].side = "Sell"
                     THEN DOMAIN book.asks \cup {orders[incomingId].price}
                     ELSE DOMAIN book.asks
      BY <3>1, <3>2, <3>4, BookAddGood
    <3> QED
      BY <3>3, <3>5
  <2>2. books' = [books EXCEPT ![s0] = b2]
    BY <1>2, <1>7 DEF book
  <2> HIDE DEF b2
  <2>3. /\ DOMAIN books' = DOMAIN books
        /\ books'[s0] = b2
        /\ \A t \in DOMAIN books : t # s0 => books'[t] = books[t]
        /\ books' = [t \in DOMAIN books' |-> books'[t]]
    BY <2>2, <1>3, <1>5 DEF TypeOK
  <2>4. Uncrossed(b2)
    <3>1. incoming.side \in Side /\ incoming.price \in Int
      BY <1>3 DEF Order
    <3>2. CASE incoming.side = "Buy"
      BY <3>2, <2>1, <1>3, <1>7 DEF Uncrossed
    <3>3. CASE incoming.side = "Sell"
      BY <3>3, <2>1, <1>3, <1>7 DEF Uncrossed
    <3> QED
      BY <3>1, <3>2, <3>3 DEF Side
  <2>5. BooksGood'
    BY <2>1, <2>3, <2>4, <1>1, <1>5 DEF BooksGood
  <2>6. BooksApart'
    BY <2>1, <2>3, <1>3, <1>5 DEF BooksApart, Booked, book
  <2>7. TypeOK'
    <3>1. \A t \in DOMAIN books' : IsBook(books'[t])
      BY <2>5 DEF BooksGood, GoodBook
    <3> QED
      BY <3>1, <2>3, <1>1, <1>4, <1>5 DEF TypeOK
  <2>8. LogIsDense' /\ OrdersConsistent'
    BY <1>1 DEF IInv, LogIsDense, OrdersConsistent
  <2>9. ASSUME NEW s \in DOMAIN books', NEW x \in DOMAIN books'[s].lookup,
               ~Executable(orders[x])
        PROVE  TouchedOutOfBand(x, s)'
    <3>1. x # incomingId
      BY <2>9, <1>7 DEF Executable, CanAdd, incoming
    <3>2. s \in DOMAIN books /\ x \in Booked(s)
      BY <3>1, <2>1, <2>3, <1>3 DEF Booked, book
    <3>3. TouchedOutOfBand(x, s)
      BY <3>2, <2>9 DEF IInv, StaleOnlyOutOfBand
    <3> QED
      BY <3>3, <1>1, TouchedSame
  <2>10. StaleOnlyOutOfBand'
    BY <2>9, <1>1 DEF StaleOnlyOutOfBand, Booked
  <2> QED
    BY <2>5, <2>6, <2>7, <2>8, <2>10, <1>4 DEF IInv
<1> QED
  BY <1>6, <1>7

-----------------------------------------------------------------------------
(***************************************************************************)
(* The invariant, and what follows from it.                                *)
(***************************************************************************)
LEMMA InitGood == ASSUME Init PROVE IInv
<1>1. DOMAIN NoEntries = {} /\ NoEntries = [x \in DOMAIN NoEntries |-> NoEntries[x]]
  BY DEF NoEntries
<1>2. <<>> \in Seq(MarketEvent) /\ <<>> \in Seq(ExecutionRecord)
      /\ <<>> \in Seq(TradeRecord) /\ Len(<<>>) = 0 /\ DOMAIN <<>> = {}
  OBVIOUS
<1>3. IsMap(NoEntries, OrderId, Order)
  BY DEF IsMap, NoEntries
<1>4. TypeOK
  BY <1>1, <1>2, <1>3 DEF Init, TypeOK
<1>5. LogIsDense
  BY <1>2 DEF Init, LogIsDense
<1>6. OrdersConsistent /\ BooksGood /\ BooksApart /\ StaleOnlyOutOfBand
  BY <1>1 DEF Init, OrdersConsistent, BooksGood, BooksApart, StaleOnlyOutOfBand
<1> QED
  BY <1>4, <1>5, <1>6 DEF Init, IInv

\* Events that are logged and refused, and market data.
LEMMA OthersKeep ==
  ASSUME IInv, DuplicateRejected \/ CancelRejected \/ ExecuteRejected \/ DataTaken
  PROVE  IInv'
<1>1. CASE DuplicateRejected
  BY <1>1, LogOnlyKeeps DEF DuplicateRejected, RejectDuplicateAdd, Return
<1>2. CASE CancelRejected
  BY <1>2, LogOnlyKeeps DEF CancelRejected, RejectCancel, Return
<1>3. CASE ExecuteRejected
  BY <1>3, LogOnlyKeeps DEF ExecuteRejected, RejectExecute, Return
<1>4. CASE DataTaken
  BY <1>4, LogOnlyKeeps DEF DataTaken, MarketData, Return
<1> QED
  BY <1>1, <1>2, <1>3, <1>4

LEMMA StutterKeeps == ASSUME IInv, UNCHANGED vars PROVE IInv'
<1>1. /\ nextExpected' = nextExpected /\ eventLog' = eventLog
      /\ orders' = orders /\ books' = books /\ executions' = executions
      /\ pc' = pc /\ trades' = trades /\ returned' = returned
  BY DEF vars
<1>2. TypeOK' /\ LogIsDense'
  BY <1>1 DEF IInv, TypeOK, LogIsDense
<1>3. OrdersConsistent' /\ BooksGood' /\ BooksApart'
  BY <1>1 DEF IInv, OrdersConsistent, BooksGood, BooksApart, Booked
<1>4. StaleOnlyOutOfBand'
  BY <1>1 DEF IInv, StaleOnlyOutOfBand, TouchedOutOfBand, Logged, Booked
<1>5. (pc = "matching" => MatchUnderWay)'
  BY <1>1 DEF IInv, MatchUnderWay, Event, incomingId, incoming, Booked
<1> QED
  BY <1>2, <1>3, <1>4, <1>5 DEF IInv

LEMMA StepKeeps == ASSUME IInv, [Step]_vars PROVE IInv'
<1>1. CASE Refuse
  BY <1>1, RefuseKeeps
<1>2. CASE DuplicateRejected \/ CancelRejected \/ ExecuteRejected \/ DataTaken
  BY <1>2, OthersKeep
<1>3. CASE MatchBegins
  BY <1>3, BeginMatchKeeps
<1>4. CASE MatchTrade
  BY <1>4, MatchTradeKeeps
<1>5. CASE AbandonOnExhausted
  BY <1>5, AbandonOnExhaustedKeeps
<1>6. CASE AbandonHalfDone
  BY <1>6, AbandonHalfDoneKeeps
<1>7. CASE RestIfNeeded
  BY <1>7, RestIfNeededKeeps
<1>8. CASE CancelMissesBook
  BY <1>8, CancelNotInBookKeeps
<1>9. CASE BookedCancelled
  BY <1>9, CancelBookedKeeps
<1>10. CASE OrderExecuted
  BY <1>10, ExecuteOrderKeeps
<1>11. CASE UNCHANGED vars
  BY <1>11, StutterKeeps
<1> QED
  BY <1>1, <1>2, <1>3, <1>4, <1>5, <1>6, <1>7, <1>8, <1>9, <1>10, <1>11
     DEF Step, Match

LEMMA RunInvariant == Run => []IInv
<1>1. Init => IInv
  BY InitGood
<1>2. IInv /\ [Step]_vars => IInv'
  BY StepKeeps
<1> QED
  BY <1>1, <1>2, PTL DEF Run

\* Every state of every run of the engine satisfies the inductive invariant.
THEOREM InductiveInvariant == Spec => []IInv
BY SpecIsRun, RunInvariant, PTL

\* The engine's variables keep their types, for every feed.
THEOREM TypeCorrect == Spec => []TypeOK
<1>1. IInv => TypeOK
  BY DEF IInv
<1> QED
  BY <1>1, InductiveInvariant, PTL

\* The event log has no gap and holds valid events only: process checks both
\* before it logs, whatever the event then does.
THEOREM LogDense == Spec => []LogIsDense
<1>1. IInv => LogIsDense
  BY DEF IInv
<1> QED
  BY <1>1, InductiveInvariant, PTL

\* The quantities and the state of an order agree, under every mix of matches,
\* Execute events and cancels (apply_fill and transition).
THEOREM OrdersStayConsistent == Spec => []OrdersConsistent
<1>1. IInv => OrdersConsistent
  BY DEF IInv
<1> QED
  BY <1>1, InductiveInvariant, PTL

\* The levels and the lookup table of a book (OrderBook::add and remove) agree
\* in every run, and no order is in two books.
THEOREM BooksStayWellFormed == Spec => []BooksWellFormed
<1>1. IInv => BooksWellFormed
  <2>1. SUFFICES ASSUME IInv PROVE BooksWellFormed
    OBVIOUS
  <2>2. \A s \in DOMAIN books : BookAgrees(books[s], orders)
    BY <2>1 DEF IInv, BooksGood, GoodBook
  <2>3. \A s \in DOMAIN books : BeingMatched \cap Booked(s) = {}
    BY <2>1 DEF IInv, MatchUnderWay, BeingMatched
  <2>4. \A s, t \in DOMAIN books : s # t => Booked(s) \cap Booked(t) = {}
    BY <2>1 DEF IInv, BooksApart
  <2> QED
    BY <2>2, <2>3, <2>4 DEF BooksWellFormed
<1> QED
  BY <1>1, InductiveInvariant, PTL

\* No book is ever crossed: rest_if_needed runs only when the best order on the
\* other side is out of reach.
THEOREM NeverCrossed == Spec => []BooksNeverCrossed
<1>1. IInv => BooksNeverCrossed
  BY DEF IInv, BooksGood, BooksNeverCrossed
<1> QED
  BY <1>1, InductiveInvariant, PTL

\* Only an Execute event, or a Cancel under another symbol, leaves an order in
\* a book that match cannot fill.
THEOREM StaleNeedsOutOfBand == Spec => []StaleOnlyOutOfBand
<1>1. IInv => StaleOnlyOutOfBand
  BY DEF IInv
<1> QED
  BY <1>1, InductiveInvariant, PTL

-----------------------------------------------------------------------------
(***************************************************************************)
(* Closed orders.                                                          *)
(***************************************************************************)
Closed(order) == order.state \in {"CancelPending", "Filled"}

\* A fill of the incoming order, alone or with the resting one, fills orders
\* that are open.
LEMMA TurnFillsOpenOrders ==
  ASSUME IInv, MatchTrade \/ AbandonHalfDone, NEW id \in DOMAIN orders,
         Closed(orders[id])
  PROVE  orders'[id] = orders[id]
<1>1. pc = "matching" /\ MayMatch /\ resting.remaining > 0
  <2>1. CASE MatchTrade
    <3>1. pc = "matching" /\ MayMatch /\ CanFill(resting, matchQuantity)
      BY <2>1 DEF MatchTrade
    <3>2. resting \in Order /\ incoming \in Order
      BY <3>1, MatchFacts
    <3>3. resting.remaining \in Int /\ incoming.remaining \in Int
      BY <3>2 DEF Order
    <3> QED
      BY <3>1, <3>3 DEF CanFill, matchQuantity
  <2>2. CASE AbandonHalfDone
    BY <2>2 DEF AbandonHalfDone
  <2> QED
    BY <2>1, <2>2
<1>2. id # incomingId
  <2>1. /\ incoming \in Order /\ Consistent(incoming)
        /\ incoming.state # "CancelPending" /\ incoming.remaining > 0
    BY <1>1, MatchFacts
  <2>2. incoming.state # "Filled"
    BY <2>1 DEF Consistent, Order
  <2> QED
    BY <2>1, <2>2 DEF Closed, incoming
<1> DEFINE mid == Execute(orders, incomingId, matchQuantity)
<1>3. mid[id] = orders[id]
  BY <1>2 DEF Execute, IInv, TypeOK, IsMap
<1> HIDE DEF mid
<1>4. CASE AbandonHalfDone
  BY <1>3, <1>4 DEF AbandonHalfDone, mid
<1>5. CASE MatchTrade
  <2>1. CanFill(resting, matchQuantity)
        /\ orders' = Execute(mid, restingId, matchQuantity)
    BY <1>5 DEF MatchTrade, mid
  <2>2. id # restingId
    BY <2>1 DEF CanFill, Closed, resting
  <2>3. id \in DOMAIN mid
    BY DEF mid, Execute
  <2> QED
    BY <2>1, <2>2, <2>3, <1>3 DEF Execute
<1> QED
  BY <1>4, <1>5

LEMMA StepLeavesClosedOrders ==
  ASSUME IInv, [Step]_vars, NEW id \in DOMAIN orders, Closed(orders[id])
  PROVE  orders'[id] = orders[id]
<1>1. CASE MatchTrade \/ AbandonHalfDone
  BY <1>1, TurnFillsOpenOrders
<1>2. CASE MatchBegins
  <2>1. PICK e \in Offered({"Add"}) :
          /\ e.payload.order_id \notin DOMAIN orders
          /\ orders' = Put(orders, e.payload.order_id,
                           NewOrder(e.payload.side, e.payload.price,
                                    e.payload.quantity))
    BY <1>2 DEF MatchBegins, BeginMatch
  <2> QED
    BY <2>1 DEF Put
<1>3. CASE OrderExecuted
  <2>1. PICK e \in Offered({"Execute"}) :
          /\ CanExecute(orders, e.payload.order_id, e.payload.quantity)
          /\ orders' = Execute(orders, e.payload.order_id, e.payload.quantity)
    BY <1>3 DEF OrderExecuted, ExecuteOrder
  <2>2. id # e.payload.order_id
    BY <2>1 DEF CanExecute, CanFill, Closed
  <2> QED
    BY <2>1, <2>2 DEF Execute
<1>4. CASE CancelMissesBook \/ BookedCancelled
  <2>1. PICK e \in Offered({"Cancel"}) :
          /\ CanCancel(orders, e.payload.order_id)
          /\ orders' = Cancel(orders, e.payload.order_id)
    BY <1>4 DEF CancelMissesBook, CancelNotInBook, BookedCancelled,
                CancelBooked
  <2>2. id # e.payload.order_id
    BY <2>1 DEF CanCancel, CanTransition, Closed
  <2> QED
    BY <2>1, <2>2 DEF Cancel
<1>5. CASE Refuse \/ DuplicateRejected \/ CancelRejected \/ ExecuteRejected
           \/ DataTaken \/ AbandonOnExhausted \/ RestIfNeeded
  BY <1>5 DEF Refuse, DuplicateRejected, RejectDuplicateAdd, CancelRejected,
              RejectCancel, ExecuteRejected, RejectExecute, DataTaken,
              MarketData, AbandonOnExhausted, RestIfNeeded
<1>6. CASE UNCHANGED vars
  BY <1>6 DEF vars
<1> QED
  BY <1>1, <1>2, <1>3, <1>4, <1>5, <1>6 DEF Step, Match

\* No order that is filled or cancelled ever changes again, although it may
\* still stand in a book and be met by a match.
THEOREM ClosedStaysClosed == Spec => ClosedOrdersAreFinal
<1>1. IInv /\ [Step]_vars =>
        [\A id \in DOMAIN orders :
            orders[id].state \in {"CancelPending", "Filled"}
              => orders'[id] = orders[id]]_vars
  BY StepLeavesClosedOrders DEF Closed
<1> QED
  BY <1>1, SpecIsRun, InductiveInvariant, PTL DEF Run, ClosedOrdersAreFinal
=============================================================================
