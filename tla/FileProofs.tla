----------------------------- MODULE FileProofs ------------------------------
(***************************************************************************)
(* The persisted event stream, for every set of events, every cut of a     *)
(* write and any number of sessions: decoding gives what was encoded,      *)
(* flushed events stay, and the source reads what was written.             *)
(***************************************************************************)
EXTENDS EventFile, SequenceTheorems, WellFoundedInduction, TLAPS

-----------------------------------------------------------------------------
(***************************************************************************)
(* Least and greatest numbers.                                             *)
(***************************************************************************)
LEMMA LessThanRelation ==
  \A x, y \in Nat : x < y => <<x, y>> \in OpToRel(<, Nat)
BY Zenon DEF OpToRel

LEMMA LeastNatural ==
  ASSUME NEW T \in SUBSET Nat, T # {}
  PROVE  \E t \in T : \A u \in T : t <= u
<1>1. PICK t \in T : \A u \in T : <<u, t>> \notin OpToRel(<, Nat)
  BY NatLessThanWellFounded, WFMin
<1>2. \A u \in T : ~(u < t)
  BY <1>1, LessThanRelation, Zenon
<1>3. \A u \in T : t <= u
  BY <1>2
<1> QED
  BY <1>3

LEMMA GreatestUpTo ==
  ASSUME NEW n \in Nat, NEW T \in SUBSET (0 .. n), T # {}
  PROVE  Max(T) \in T /\ \A x \in T : x <= Max(T)
<1> DEFINE D == {n - x : x \in T}
<1>1. D \in SUBSET Nat /\ D # {}
  <2>1. \A x \in T : n - x \in Nat
    OBVIOUS
  <2>2. D \in SUBSET Nat
    BY <2>1
  <2>3. PICK x \in T : TRUE
    OBVIOUS
  <2>4. n - x \in D
    OBVIOUS
  <2> QED
    BY <2>2, <2>4
<1> HIDE DEF D
<1>2. PICK d \in D : \A y \in D : d <= y
  BY <1>1, LeastNatural
<1> USE DEF D
<1>3. PICK m \in T : d = n - m
  BY <1>2
<1>4. \A x \in T : m >= x
  BY <1>2, <1>3
<1>5. Max(T) \in T /\ \A x \in T : Max(T) >= x
  BY <1>4, Zenon DEF Max
<1> QED
  BY <1>5

-----------------------------------------------------------------------------
(***************************************************************************)
(* Sequences that begin others.                                            *)
(***************************************************************************)

\* s is a prefix of t, place by place.
Begins(s, t) == Len(s) <= Len(t) /\ \A i \in 1 .. Len(s) : s[i] = t[i]

LEMMA BeginsItself ==
  ASSUME NEW S, NEW s \in Seq(S)
  PROVE  Begins(s, s)
BY LenProperties DEF Begins

LEMMA BeginsConcat ==
  ASSUME NEW S, NEW s \in Seq(S), NEW t \in Seq(S)
  PROVE  Begins(s, s \o t)
BY ConcatProperties, LenProperties DEF Begins

LEMMA BeginsTransitive ==
  ASSUME NEW S, NEW s \in Seq(S), NEW t \in Seq(S), NEW u \in Seq(S),
         Begins(s, t), Begins(t, u)
  PROVE  Begins(s, u)
<1>1. Len(s) \in Nat /\ Len(t) \in Nat /\ Len(u) \in Nat
  BY LenProperties
<1> QED
  BY <1>1 DEF Begins

\* Of two that begin the same one, the shorter begins the longer.
LEMMA BeginsShorter ==
  ASSUME NEW S, NEW s \in Seq(S), NEW t \in Seq(S), NEW u \in Seq(S),
         Begins(s, u), Begins(t, u), Len(s) <= Len(t)
  PROVE  Begins(s, t)
<1>1. Len(s) \in Nat /\ Len(t) \in Nat /\ Len(u) \in Nat
  BY LenProperties
<1> QED
  BY <1>1 DEF Begins

LEMMA BeginsSameLength ==
  ASSUME NEW S, NEW s \in Seq(S), NEW t \in Seq(S), Begins(s, t),
         Len(t) <= Len(s)
  PROVE  s = t
<1>1. Len(s) = Len(t)
  BY LenProperties DEF Begins
<1> QED
  BY <1>1, SeqEqual DEF Begins

LEMMA BeginsIsPrefix ==
  ASSUME NEW S, NEW s \in Seq(S), NEW t \in Seq(S), Begins(s, t)
  PROVE  IsPrefix(s, t)
<1>1. Len(s) \in Nat /\ Len(t) \in Nat /\ Len(s) <= Len(t)
  BY LenProperties DEF Begins
<1> DEFINE a == SubSeq(s, 1, Len(s))
           b == SubSeq(t, 1, Len(s))
<1>2. /\ a \in Seq(S) /\ Len(a) = Len(s)
      /\ \A i \in 1 .. Len(s) : a[i] = s[i]
  BY <1>1, SubSeqProperties, ElementOfSeq
<1>3. /\ b \in Seq(S) /\ Len(b) = Len(s)
      /\ \A i \in 1 .. Len(s) : b[i] = t[i]
  BY <1>1, SubSeqProperties, ElementOfSeq
<1>4. \A i \in 1 .. Len(s) : a[i] = b[i]
  BY <1>2, <1>3 DEF Begins
<1> HIDE DEF a, b
<1>5. a = b
  BY <1>2, <1>3, <1>4, SeqEqual
<1> QED
  BY <1>1, <1>5 DEF IsPrefix, a, b

-----------------------------------------------------------------------------
(***************************************************************************)
(* Byte strings one after the other: Joined.                               *)
(***************************************************************************)

\* f[i] is the concatenation of the first i parts.
IsJoining(f, parts, n) ==
  /\ f = [i \in 0 .. n |-> IF i = 0 THEN <<>> ELSE f[i - 1] \o parts[i]]

LEMMA JoiningType ==
  ASSUME NEW S, NEW parts, NEW n \in Nat, \A i \in 1 .. n : parts[i] \in Seq(S),
         NEW f, IsJoining(f, parts, n)
  PROVE  /\ \A i \in 0 .. n : f[i] \in Seq(S)
         /\ f[0] = <<>>
         /\ \A i \in 1 .. n : f[i] = f[i - 1] \o parts[i]
<1>1. /\ f[0] = <<>>
      /\ \A i \in 1 .. n : f[i] = f[i - 1] \o parts[i]
  <2>1. \A i \in 0 .. n : f[i] = IF i = 0 THEN <<>> ELSE f[i - 1] \o parts[i]
    BY DEF IsJoining
  <2>2. 0 \in 0 .. n /\ \A i \in 1 .. n : i \in 0 .. n /\ i # 0
    OBVIOUS
  <2>3. f[0] = <<>>
    BY <2>1, <2>2, Zenon
  <2>4. ASSUME NEW i \in 1 .. n PROVE f[i] = f[i - 1] \o parts[i]
    BY <2>1, <2>2, Zenon
  <2> QED
    BY <2>3, <2>4
<1> DEFINE Bad == {i \in 0 .. n : f[i] \notin Seq(S)}
<1>2. ASSUME Bad # {} PROVE FALSE
  <2>1. PICK m \in Bad : \A x \in Bad : m <= x
    <3>1. Bad \in SUBSET Nat
      OBVIOUS
    <3> HIDE DEF Bad
    <3> QED
      BY <3>1, <1>2, LeastNatural
  <2>2. m # 0
    BY <1>1, <2>1, EmptySeq
  <2>3. m - 1 \in 0 .. n /\ m - 1 \notin Bad /\ m \in 1 .. n
    BY <2>1, <2>2
  <2>4. f[m - 1] \in Seq(S) /\ parts[m] \in Seq(S)
    BY <2>3
  <2>5. f[m] \in Seq(S)
    BY <1>1, <2>3, <2>4, ConcatProperties
  <2> QED
    BY <2>1, <2>5
<1> QED
  BY <1>1, <1>2

\* A least length without a joining would be one more than a length with one.
LEMMA JoiningExists ==
  ASSUME NEW parts, NEW N \in Nat
  PROVE  \E f : IsJoining(f, parts, N)
<1> DEFINE Bad == {n \in 0 .. N : ~ \E f : IsJoining(f, parts, n)}
<1>1. SUFFICES ASSUME Bad # {} PROVE FALSE
  OBVIOUS
<1>2. PICK n \in Bad : \A m \in Bad : n <= m
  <2>1. Bad \in SUBSET Nat
    OBVIOUS
  <2> HIDE DEF Bad
  <2> QED
    BY <2>1, <1>1, LeastNatural
<1>3. n # 0
  <2> DEFINE f == [i \in 0 .. 0 |-> <<>>]
  <2>1. IsJoining(f, parts, 0)
    BY DEF IsJoining
  <2> HIDE DEF f
  <2> QED
    BY <2>1, <1>2
<1>4. n \in 1 .. N /\ n - 1 \in 0 .. N /\ n - 1 \notin Bad
  BY <1>2, <1>3
<1>5. PICK f : IsJoining(f, parts, n - 1)
  BY <1>4
<1> DEFINE g == [i \in 0 .. n |-> IF i = n THEN f[n - 1] \o parts[n] ELSE f[i]]
<1>6. \A i \in 0 .. n - 1 :
        f[i] = IF i = 0 THEN <<>> ELSE f[i - 1] \o parts[i]
  BY <1>5 DEF IsJoining
<1>7. ASSUME NEW i \in 0 .. n
      PROVE  g[i] = IF i = 0 THEN <<>> ELSE g[i - 1] \o parts[i]
  <2>1. CASE i = n
    <3>1. g[n - 1] = f[n - 1]
      BY <1>4
    <3> QED
      BY <1>3, <2>1, <3>1
  <2>2. CASE i # n
    <3>1. i \in 0 .. n - 1 /\ g[i] = f[i]
      BY <2>2, <1>4
    <3>2. i # 0 => i - 1 \in 0 .. n /\ i - 1 # n
      BY <3>1
    <3>3. i # 0 => g[i - 1] = f[i - 1]
      BY <3>2
    <3> QED
      BY <1>6, <3>1, <3>3
  <2> QED
    BY <2>1, <2>2
<1>8. IsJoining(g, parts, n)
  <2>1. g = [i \in 0 .. n |-> g[i]]
    OBVIOUS
  <2> HIDE DEF g
  <2> QED
    BY <1>7, <2>1 DEF IsJoining
<1> QED
  BY <1>2, <1>8

\* What Joined chooses is a joining.
LEMMA JoinedIsJoining ==
  ASSUME NEW parts, Len(parts) \in Nat
  PROVE  \E f : IsJoining(f, parts, Len(parts)) /\ Joined(parts) = f[Len(parts)]
<1> DEFINE f == CHOOSE f : f = [i \in 0 .. Len(parts) |->
                                  IF i = 0 THEN <<>> ELSE f[i - 1] \o parts[i]]
<1>1. \E g : g = [i \in 0 .. Len(parts) |->
                    IF i = 0 THEN <<>> ELSE g[i - 1] \o parts[i]]
  BY JoiningExists DEF IsJoining
<1>2. IsJoining(f, parts, Len(parts))
  BY <1>1 DEF IsJoining
<1>3. Joined(parts) = f[Len(parts)]
  BY DEF Joined
<1> QED
  BY <1>2, <1>3

\* Joinings of parts that are the same are the same.
LEMMA JoiningsAgree ==
  ASSUME NEW p, NEW q, NEW n \in Nat, NEW m \in Nat, n <= m,
         \A i \in 1 .. n : p[i] = q[i],
         NEW f, IsJoining(f, p, n), NEW g, IsJoining(g, q, m)
  PROVE  f[n] = g[n]
<1>1. \A i \in 0 .. n : f[i] = IF i = 0 THEN <<>> ELSE f[i - 1] \o p[i]
  BY DEF IsJoining
<1>2. \A i \in 0 .. m : g[i] = IF i = 0 THEN <<>> ELSE g[i - 1] \o q[i]
  BY DEF IsJoining
<1> DEFINE Bad == {i \in 0 .. n : f[i] # g[i]}
<1>3. ASSUME Bad # {} PROVE FALSE
  <2>1. PICK k \in Bad : \A x \in Bad : k <= x
    <3>1. Bad \in SUBSET Nat
      OBVIOUS
    <3> HIDE DEF Bad
    <3> QED
      BY <3>1, <1>3, LeastNatural
  <2>2. k \in 0 .. n /\ k \in 0 .. m
    BY <2>1
  <2>3. k # 0
    BY <1>1, <1>2, <2>1, <2>2
  <2>4. k - 1 \in 0 .. n /\ k - 1 \notin Bad /\ k \in 1 .. n
    BY <2>1, <2>3
  <2>5. f[k - 1] = g[k - 1] /\ p[k] = q[k]
    BY <2>4
  <2> QED
    BY <1>1, <1>2, <2>1, <2>2, <2>3, <2>5
<1> QED
  BY <1>3

LEMMA JoinedType ==
  ASSUME NEW S, NEW parts, Len(parts) \in Nat,
         \A i \in 1 .. Len(parts) : parts[i] \in Seq(S)
  PROVE  Joined(parts) \in Seq(S)
<1>1. PICK f : IsJoining(f, parts, Len(parts)) /\ Joined(parts) = f[Len(parts)]
  BY JoinedIsJoining
<1>2. \A i \in 0 .. Len(parts) : f[i] \in Seq(S)
  BY <1>1, JoiningType
<1>3. Len(parts) \in 0 .. Len(parts)
  OBVIOUS
<1> QED
  BY <1>1, <1>2, <1>3

LEMMA JoinedEmpty ==
  ASSUME NEW parts, Len(parts) = 0
  PROVE  Joined(parts) = <<>>
<1>1. PICK f : IsJoining(f, parts, Len(parts)) /\ Joined(parts) = f[Len(parts)]
  BY JoinedIsJoining
<1>2. \A i \in 0 .. 0 : f[i] = IF i = 0 THEN <<>> ELSE f[i - 1] \o parts[i]
  BY <1>1 DEF IsJoining
<1> QED
  BY <1>1, <1>2

\* One part more at the end.
LEMMA JoinedLast ==
  ASSUME NEW p, NEW q, NEW n \in Nat, Len(p) = n, Len(q) = n + 1,
         \A i \in 1 .. n : p[i] = q[i]
  PROVE  Joined(q) = Joined(p) \o q[n + 1]
<1>1. PICK f : IsJoining(f, p, n) /\ Joined(p) = f[n]
  BY JoinedIsJoining
<1>2. PICK g : IsJoining(g, q, n + 1) /\ Joined(q) = g[n + 1]
  BY JoinedIsJoining
<1>3. f[n] = g[n]
  <2>1. n + 1 \in Nat /\ n <= n + 1
    OBVIOUS
  <2> QED
    BY <1>1, <1>2, <2>1, JoiningsAgree
<1>4. \A i \in 0 .. n + 1 : g[i] = IF i = 0 THEN <<>> ELSE g[i - 1] \o q[i]
  BY <1>2 DEF IsJoining
<1>5. n + 1 \in 0 .. n + 1 /\ n + 1 # 0 /\ (n + 1) - 1 = n
  OBVIOUS
<1>6. g[n + 1] = g[n] \o q[n + 1]
  BY <1>4, <1>5
<1> QED
  BY <1>1, <1>2, <1>3, <1>6

-----------------------------------------------------------------------------
(***************************************************************************)
(* Records of sequences of events.                                         *)
(***************************************************************************)
Valid == {e \in Events : IsValidEvent(e)}

\* The records of the first k of some events.
Upto(events, k) == Records(SubSeq(events, 1, k))

\* Each record is a byte string.
RecordsAreBytes == \A e \in Valid : RecordOf[e] \in Seq(Byte)

LEMMA RecordsType ==
  ASSUME RecordsAreBytes, NEW a \in Seq(Valid)
  PROVE  Records(a) \in Seq(Byte) /\ Len(Records(a)) \in Nat
<1> DEFINE parts == [i \in DOMAIN a |-> RecordOf[a[i]]]
<1>1. /\ parts \in Seq(Seq(Byte)) /\ Len(parts) = Len(a)
      /\ \A i \in 1 .. Len(a) : parts[i] \in Seq(Byte)
  <2>1. DOMAIN a = 1 .. Len(a) /\ Len(a) \in Nat
    BY LenProperties
  <2>2. \A i \in 1 .. Len(a) : RecordOf[a[i]] \in Seq(Byte)
    BY ElementOfSeq DEF RecordsAreBytes
  <2> QED
    BY <2>1, <2>2, IsASeq, LenProperties
<1> HIDE DEF parts
<1>2. Joined(parts) \in Seq(Byte)
  BY <1>1, JoinedType, LenProperties
<1> USE DEF parts
<1>3. Records(a) = Joined(parts)
  BY DEF Records
<1> QED
  BY <1>2, <1>3, LenProperties

LEMMA RecordsEmpty ==
  ASSUME NEW a \in Seq(Valid), Len(a) = 0
  PROVE  Records(a) = <<>>
<1> DEFINE parts == [i \in DOMAIN a |-> RecordOf[a[i]]]
<1>1. DOMAIN a = 1 .. 0 /\ Len(parts) = 0
  BY LenProperties
<1> HIDE DEF parts
<1>2. Joined(parts) = <<>>
  BY <1>1, JoinedEmpty
<1> QED
  BY <1>2 DEF Records, parts

LEMMA RecordsAppend ==
  ASSUME NEW a \in Seq(Valid), NEW e \in Valid
  PROVE  Records(Append(a, e)) = Records(a) \o RecordOf[e]
<1> DEFINE b == Append(a, e)
           p == [i \in DOMAIN a |-> RecordOf[a[i]]]
           q == [i \in DOMAIN b |-> RecordOf[b[i]]]
           n == Len(a)
<1>1. /\ n \in Nat /\ DOMAIN a = 1 .. n /\ DOMAIN b = 1 .. n + 1
      /\ \A i \in 1 .. n : b[i] = a[i]
      /\ b[n + 1] = e
  BY LenProperties, AppendProperties
<1>2. Len(p) = n /\ Len(q) = n + 1
  BY <1>1
<1>3. \A i \in 1 .. n : p[i] = q[i]
  BY <1>1
<1>4. q[n + 1] = RecordOf[e]
  BY <1>1
<1>5. Records(a) = Joined(p) /\ Records(b) = Joined(q)
  BY DEF Records
<1> HIDE DEF p, q, b, n
<1>6. Joined(q) = Joined(p) \o q[n + 1]
  BY <1>1, <1>2, <1>3, JoinedLast
<1> QED
  BY <1>4, <1>5, <1>6 DEF b

LEMMA UptoType ==
  ASSUME RecordsAreBytes, NEW a \in Seq(Valid), NEW k \in 0 .. Len(a)
  PROVE  /\ SubSeq(a, 1, k) \in Seq(Valid) /\ Len(SubSeq(a, 1, k)) = k
         /\ \A i \in 1 .. k : SubSeq(a, 1, k)[i] = a[i]
         /\ Upto(a, k) \in Seq(Byte) /\ Len(Upto(a, k)) \in Nat
<1> DEFINE s == SubSeq(a, 1, k)
<1>1. Len(a) \in Nat /\ k \in Nat
  BY LenProperties
<1>2. \A i \in 1 .. k : a[i] \in Valid
  BY <1>1, ElementOfSeq
<1>3. s \in Seq(Valid) /\ Len(s) = k /\ \A i \in 1 .. k : s[i] = a[i]
  BY <1>1, <1>2, SubSeqProperties
<1>4. Upto(a, k) = Records(s)
  BY DEF Upto
<1> HIDE DEF s
<1>5. Records(s) \in Seq(Byte) /\ Len(Records(s)) \in Nat
  BY <1>3, RecordsType
<1> QED
  BY <1>3, <1>4, <1>5 DEF s

LEMMA UptoZero ==
  ASSUME RecordsAreBytes, NEW a \in Seq(Valid)
  PROVE  Upto(a, 0) = <<>> /\ Len(Upto(a, 0)) = 0
<1>1. 0 \in 0 .. Len(a)
  BY LenProperties
<1>2. SubSeq(a, 1, 0) \in Seq(Valid) /\ Len(SubSeq(a, 1, 0)) = 0
  BY <1>1, UptoType
<1>3. Upto(a, 0) = <<>>
  BY <1>2, RecordsEmpty DEF Upto
<1> QED
  BY <1>3

\* Sequences that agree on k places have the same first k records.
LEMMA UptoAgree ==
  ASSUME RecordsAreBytes, NEW a \in Seq(Valid), NEW b \in Seq(Valid),
         NEW k \in 0 .. Len(a), k <= Len(b), \A i \in 1 .. k : a[i] = b[i]
  PROVE  SubSeq(a, 1, k) = SubSeq(b, 1, k) /\ Upto(a, k) = Upto(b, k)
<1> DEFINE s == SubSeq(a, 1, k)
           t == SubSeq(b, 1, k)
<1>0. k \in 0 .. Len(b)
  BY LenProperties
<1>1. /\ s \in Seq(Valid) /\ Len(s) = k /\ \A i \in 1 .. k : s[i] = a[i]
      /\ t \in Seq(Valid) /\ Len(t) = k /\ \A i \in 1 .. k : t[i] = b[i]
  BY <1>0, UptoType
<1>2. \A i \in 1 .. k : s[i] = t[i]
  BY <1>1
<1>3. Upto(a, k) = Records(s) /\ Upto(b, k) = Records(t)
  BY DEF Upto
<1> HIDE DEF s, t
<1>4. s = t
  BY <1>1, <1>2, SeqEqual
<1> QED
  BY <1>3, <1>4 DEF s, t

LEMMA UptoAll ==
  ASSUME RecordsAreBytes, NEW a \in Seq(Valid)
  PROVE  Upto(a, Len(a)) = Records(a)
<1> DEFINE s == SubSeq(a, 1, Len(a))
<1>0. Len(a) \in Nat /\ Len(a) \in 0 .. Len(a)
  BY LenProperties
<1>1. s \in Seq(Valid) /\ Len(s) = Len(a) /\ \A i \in 1 .. Len(a) : s[i] = a[i]
  BY <1>0, UptoType
<1>3. Upto(a, Len(a)) = Records(s)
  BY DEF Upto
<1> HIDE DEF s
<1>4. s = a
  BY <1>1, SeqEqual
<1> QED
  BY <1>3, <1>4

\* The next record follows.
LEMMA UptoStep ==
  ASSUME RecordsAreBytes, NEW a \in Seq(Valid), NEW k \in 0 .. Len(a), k < Len(a)
  PROVE  /\ k + 1 \in 0 .. Len(a) /\ a[k + 1] \in Valid
         /\ SubSeq(a, 1, k + 1) = Append(SubSeq(a, 1, k), a[k + 1])
         /\ Upto(a, k + 1) = Upto(a, k) \o RecordOf[a[k + 1]]
<1> DEFINE s == SubSeq(a, 1, k)
           t == SubSeq(a, 1, k + 1)
           e == a[k + 1]
           b == Append(s, e)
<1>1. /\ Len(a) \in Nat /\ k \in Nat /\ k + 1 \in 0 .. Len(a)
      /\ k + 1 \in 1 .. Len(a)
  BY LenProperties
<1>2. e \in Valid
  BY <1>1, ElementOfSeq
<1>3. s \in Seq(Valid) /\ Len(s) = k /\ \A i \in 1 .. k : s[i] = a[i]
  BY UptoType
<1>4. /\ t \in Seq(Valid) /\ Len(t) = k + 1
      /\ \A i \in 1 .. k + 1 : t[i] = a[i]
  BY <1>1, UptoType
<1>5. Upto(a, k) = Records(s) /\ Upto(a, k + 1) = Records(t)
  BY DEF Upto
<1>6. e = a[k + 1] /\ b = Append(s, e)
  OBVIOUS
<1> HIDE DEF s, t, e, b
<1>7. /\ b \in Seq(Valid) /\ Len(b) = k + 1 /\ b[k + 1] = e
      /\ \A i \in 1 .. k : b[i] = s[i]
  BY <1>2, <1>3, <1>6, AppendProperties
<1>8. \A i \in 1 .. k + 1 : b[i] = t[i]
  BY <1>1, <1>3, <1>4, <1>6, <1>7
<1>9. b = t
  BY <1>4, <1>7, <1>8, SeqEqual
<1>10. Records(b) = Records(s) \o RecordOf[e]
  BY <1>2, <1>3, <1>6, RecordsAppend
<1> QED
  BY <1>1, <1>2, <1>5, <1>6, <1>9, <1>10 DEF s, t, e

\* A least k whose records the first j do not begin would follow one whose do.
LEMMA UptoBegins ==
  ASSUME RecordsAreBytes, NEW a \in Seq(Valid),
         NEW j \in 0 .. Len(a), NEW k \in 0 .. Len(a), j <= k
  PROVE  Begins(Upto(a, j), Upto(a, k))
<1>1. Len(a) \in Nat
  BY LenProperties
<1> DEFINE Bad == {i \in j .. Len(a) : ~Begins(Upto(a, j), Upto(a, i))}
<1>2. ASSUME Bad # {} PROVE FALSE
  <2>1. PICK m \in Bad : \A x \in Bad : m <= x
    <3>1. Bad \in SUBSET Nat
      BY <1>1
    <3> HIDE DEF Bad
    <3> QED
      BY <3>1, <1>2, LeastNatural
  <2>2. m # j
    BY <2>1, UptoType, BeginsItself
  <2>3. /\ m - 1 \in j .. Len(a) /\ m - 1 \in 0 .. Len(a) /\ m - 1 < Len(a)
        /\ m - 1 \notin Bad /\ (m - 1) + 1 = m /\ m \in 0 .. Len(a)
    BY <1>1, <2>1, <2>2
  <2>4. Begins(Upto(a, j), Upto(a, m - 1))
    BY <2>3
  <2>5. PICK n \in 0 .. Len(a) : n = m - 1
    BY <2>3
  <2>6. a[n + 1] \in Valid /\ Upto(a, n + 1) = Upto(a, n) \o RecordOf[a[n + 1]]
    BY <2>3, <2>5, UptoStep
  <2>7. Upto(a, n) \in Seq(Byte) /\ RecordOf[a[n + 1]] \in Seq(Byte)
    BY <2>6, UptoType DEF RecordsAreBytes
  <2>8. Begins(Upto(a, n), Upto(a, n + 1))
    BY <2>6, <2>7, BeginsConcat
  <2>9. /\ Upto(a, j) \in Seq(Byte) /\ Upto(a, n) \in Seq(Byte)
        /\ Upto(a, n + 1) \in Seq(Byte)
    BY <2>3, <2>5, UptoType
  <2>10. Begins(Upto(a, j), Upto(a, n + 1))
    BY <2>4, <2>5, <2>8, <2>9, BeginsTransitive
  <2> QED
    BY <2>1, <2>3, <2>5, <2>10
<1>3. k \in j .. Len(a)
  BY <1>1
<1> QED
  BY <1>2, <1>3

-----------------------------------------------------------------------------
(***************************************************************************)
(* Slices of byte strings.                                                 *)
(***************************************************************************)
LEMMA SliceType ==
  ASSUME NEW S, NEW s \in Seq(S), NEW i \in Nat \ {0}, NEW w \in Nat,
         i + w - 1 <= Len(s)
  PROVE  /\ Slice(s, i, w) \in Seq(S) /\ Len(Slice(s, i, w)) = w
         /\ \A j \in 1 .. w : Slice(s, i, w)[j] = s[i + j - 1]
<1>1. Len(s) \in Nat
  BY LenProperties
<1>2. \A j \in i .. i + w - 1 : s[j] \in S
  BY <1>1, ElementOfSeq
<1> DEFINE n == i + w - 1
<1>3. n \in Int /\ i \in Int /\ \A j \in i .. n : s[j] \in S
  BY <1>2
<1> HIDE DEF n
<1>4. /\ SubSeq(s, i, n) \in Seq(S)
      /\ Len(SubSeq(s, i, n)) = IF i <= n THEN n - i + 1 ELSE 0
      /\ \A j \in 1 .. n - i + 1 : SubSeq(s, i, n)[j] = s[i + j - 1]
  BY <1>3, SubSeqProperties
<1>5. n - i + 1 = w /\ (i <= n <=> w # 0) /\ Slice(s, i, w) = SubSeq(s, i, n)
  BY DEF n, Slice
<1> QED
  BY <1>4, <1>5

LEMMA SliceOfBeginning ==
  ASSUME NEW S, NEW s \in Seq(S), NEW t \in Seq(S), Begins(s, t),
         NEW i \in Nat \ {0}, NEW w \in Nat, i + w - 1 <= Len(s)
  PROVE  Slice(t, i, w) = Slice(s, i, w)
<1>1. Len(s) \in Nat /\ Len(t) \in Nat /\ Len(s) <= Len(t)
  BY LenProperties DEF Begins
<1>2. ASSUME NEW j \in 1 .. w PROVE t[i + j - 1] = s[i + j - 1]
  <2>1. i + j - 1 \in 1 .. Len(s)
    BY <1>1
  <2> QED
    BY <2>1 DEF Begins
<1>3. i + w - 1 <= Len(t)
  BY <1>1
<1> DEFINE a == Slice(s, i, w)
           b == Slice(t, i, w)
<1>4. /\ a \in Seq(S) /\ Len(a) = w /\ \A j \in 1 .. w : a[j] = s[i + j - 1]
      /\ b \in Seq(S) /\ Len(b) = w /\ \A j \in 1 .. w : b[j] = t[i + j - 1]
  BY <1>3, SliceType
<1> HIDE DEF a, b
<1>5. \A j \in 1 .. w : a[j] = b[j]
  BY <1>2, <1>4
<1>6. a = b
  BY <1>4, <1>5, SeqEqual
<1> QED
  BY <1>6 DEF a, b

LEMMA SliceBehind ==
  ASSUME NEW S, NEW s \in Seq(S), NEW t \in Seq(S),
         NEW i \in Nat \ {0}, NEW w \in Nat, i + w - 1 <= Len(t)
  PROVE  Slice(s \o t, Len(s) + i, w) = Slice(t, i, w)
<1> DEFINE n == Len(s)
           u == s \o t
<1>1. /\ n \in Nat /\ Len(t) \in Nat /\ u \in Seq(S) /\ Len(u) = n + Len(t)
      /\ \A j \in 1 .. n + Len(t) : u[j] = IF j <= n THEN s[j] ELSE t[j - n]
  BY ConcatProperties, LenProperties
<1> HIDE DEF n, u
<1>2. ASSUME NEW j \in 1 .. w PROVE u[n + i + j - 1] = t[i + j - 1]
  <2>1. /\ n + i + j - 1 \in 1 .. n + Len(t) /\ ~(n + i + j - 1 <= n)
        /\ n + i + j - 1 - n = i + j - 1
    BY <1>1
  <2> QED
    BY <1>1, <2>1
<1>3. n + i \in Nat \ {0} /\ n + i + w - 1 <= Len(u)
  BY <1>1
<1>4. PICK k \in Nat \ {0} : k = n + i
  BY <1>3
<1>8. k + w - 1 <= Len(u)
  BY <1>3, <1>4
<1> DEFINE a == Slice(u, k, w)
           b == Slice(t, i, w)
<1>5. a \in Seq(S) /\ Len(a) = w /\ \A j \in 1 .. w : a[j] = u[k + j - 1]
  BY <1>1, <1>8, SliceType
<1>9. b \in Seq(S) /\ Len(b) = w /\ \A j \in 1 .. w : b[j] = t[i + j - 1]
  BY SliceType
<1> HIDE DEF a, b
<1>6. \A j \in 1 .. w : a[j] = b[j]
  BY <1>2, <1>4, <1>5, <1>9
<1>7. a = b
  BY <1>5, <1>6, <1>9, SeqEqual
<1> QED
  BY <1>4, <1>7 DEF n, u, a, b

LEMMA SliceWhole ==
  ASSUME NEW S, NEW s \in Seq(S)
  PROVE  Slice(s, 1, Len(s)) = s
<1>1. Len(s) \in Nat /\ 1 + Len(s) - 1 = Len(s) /\ 1 \in Nat \ {0}
      /\ 1 + Len(s) - 1 <= Len(s)
  BY LenProperties
<1> DEFINE a == Slice(s, 1, Len(s))
<1>2. /\ a \in Seq(S) /\ Len(a) = Len(s)
      /\ \A j \in 1 .. Len(s) : a[j] = s[1 + j - 1]
  BY <1>1, SliceType
<1>3. \A j \in 1 .. Len(s) : a[j] = s[j]
  BY <1>2
<1> HIDE DEF a
<1>4. a = s
  BY <1>2, <1>3, SeqEqual
<1> QED
  BY <1>4 DEF a

\* What was put behind s is found there.
LEMMA SliceSecond ==
  ASSUME NEW S, NEW s \in Seq(S), NEW t \in Seq(S)
  PROVE  Slice(s \o t, Len(s) + 1, Len(t)) = t
<1>1. Len(t) \in Nat /\ 1 \in Nat \ {0} /\ 1 + Len(t) - 1 <= Len(t)
  BY LenProperties
<1>2. Slice(s \o t, Len(s) + 1, Len(t)) = Slice(t, 1, Len(t))
  BY <1>1, SliceBehind
<1> QED
  BY <1>2, SliceWhole

-----------------------------------------------------------------------------
(***************************************************************************)
(* The places of the fields of a payload.                                  *)
(***************************************************************************)
LEMMA WidthsFacts ==
  ASSUME NEW type \in Types
  PROVE  /\ Len(Widths[type]) \in 1 .. 4
         /\ \A i \in 1 .. Len(Widths[type]) : Widths[type][i] \in {1, 8}
BY DEF Types, Widths

\* f[j] is what precedes field j.
IsOffsets(f, w, n) ==
  f = [j \in 1 .. n |-> IF j = 1 THEN HeaderSize ELSE f[j - 1] + w[j - 1]]

LEMMA OffsetsExist ==
  ASSUME NEW w, NEW N \in Nat
  PROVE  \E f : IsOffsets(f, w, N)
<1> DEFINE Bad == {n \in 0 .. N : ~ \E f : IsOffsets(f, w, n)}
<1>1. SUFFICES ASSUME Bad # {} PROVE FALSE
  OBVIOUS
<1>2. PICK n \in Bad : \A m \in Bad : n <= m
  <2>1. Bad \in SUBSET Nat
    OBVIOUS
  <2> HIDE DEF Bad
  <2> QED
    BY <2>1, <1>1, LeastNatural
<1>3. n # 0
  <2> DEFINE f == [j \in 1 .. 0 |-> 0]
  <2>1. IsOffsets(f, w, 0)
    BY DEF IsOffsets
  <2> HIDE DEF f
  <2> QED
    BY <2>1, <1>2
<1>4. n \in 1 .. N /\ n - 1 \in 0 .. N /\ n - 1 \notin Bad
  BY <1>2, <1>3
<1>5. PICK f : IsOffsets(f, w, n - 1)
  BY <1>4
<1> DEFINE last == IF n = 1 THEN HeaderSize ELSE f[n - 1] + w[n - 1]
           g == [j \in 1 .. n |-> IF j = n THEN last ELSE f[j]]
<1>6. \A j \in 1 .. n - 1 : f[j] = IF j = 1 THEN HeaderSize ELSE f[j - 1] + w[j - 1]
  BY <1>5 DEF IsOffsets
<1>7. ASSUME NEW j \in 1 .. n
      PROVE  g[j] = IF j = 1 THEN HeaderSize ELSE g[j - 1] + w[j - 1]
  <2>1. CASE j = n
    <3>1. j # 1 => g[j - 1] = f[j - 1]
      BY <1>4, <2>1
    <3> QED
      BY <2>1, <3>1
  <2>2. CASE j # n
    <3>1. j \in 1 .. n - 1 /\ g[j] = f[j]
      BY <2>2, <1>4
    <3>2. j # 1 => j - 1 \in 1 .. n /\ j - 1 # n
      BY <3>1
    <3>3. j # 1 => g[j - 1] = f[j - 1]
      BY <3>2
    <3> QED
      BY <1>6, <3>1, <3>3
  <2> QED
    BY <2>1, <2>2
<1>8. IsOffsets(g, w, n)
  <2>1. g = [j \in 1 .. n |-> g[j]]
    OBVIOUS
  <2> HIDE DEF g
  <2> QED
    BY <1>7, <2>1 DEF IsOffsets
<1> QED
  BY <1>2, <1>8

LEMMA OffsetIsOffset ==
  ASSUME NEW type, NEW n \in Nat
  PROVE  \E f : IsOffsets(f, Widths[type], n) /\ Offset(type, n) = f[n]
<1> DEFINE w == Widths[type]
           f == CHOOSE f : f = [j \in 1 .. n |->
                                  IF j = 1 THEN HeaderSize ELSE f[j - 1] + w[j - 1]]
<1>1. \E g : g = [j \in 1 .. n |->
                    IF j = 1 THEN HeaderSize ELSE g[j - 1] + w[j - 1]]
  BY OffsetsExist DEF IsOffsets
<1>2. IsOffsets(f, w, n)
  BY <1>1 DEF IsOffsets
<1>3. Offset(type, n) = f[n]
  BY DEF Offset
<1> QED
  BY <1>2, <1>3

\* Offsets up to n and up to m > n are the same where both are.
LEMMA OffsetsAgree ==
  ASSUME NEW w, NEW n \in Nat \ {0}, NEW m \in Nat, n <= m,
         NEW f, IsOffsets(f, w, n), NEW g, IsOffsets(g, w, m)
  PROVE  f[n] = g[n]
<1>1. \A j \in 1 .. n : f[j] = IF j = 1 THEN HeaderSize ELSE f[j - 1] + w[j - 1]
  BY DEF IsOffsets
<1>2. \A j \in 1 .. m : g[j] = IF j = 1 THEN HeaderSize ELSE g[j - 1] + w[j - 1]
  BY DEF IsOffsets
<1> DEFINE Bad == {j \in 1 .. n : f[j] # g[j]}
<1>3. ASSUME Bad # {} PROVE FALSE
  <2>1. PICK k \in Bad : \A x \in Bad : k <= x
    <3>1. Bad \in SUBSET Nat
      OBVIOUS
    <3> HIDE DEF Bad
    <3> QED
      BY <3>1, <1>3, LeastNatural
  <2>2. k \in 1 .. n /\ k \in 1 .. m
    BY <2>1
  <2>3. k # 1
    BY <1>1, <1>2, <2>1, <2>2
  <2>4. k - 1 \in 1 .. n /\ k - 1 \notin Bad
    BY <2>1, <2>3
  <2>5. f[k - 1] = g[k - 1]
    BY <2>4
  <2> QED
    BY <1>1, <1>2, <2>1, <2>2, <2>3, <2>5
<1> QED
  BY <1>3

LEMMA OffsetFacts ==
  ASSUME NEW type
  PROVE  /\ Offset(type, 1) = 41
         /\ \A i \in Nat \ {0} : Offset(type, i + 1) = Offset(type, i) + Widths[type][i]
<1>1. Offset(type, 1) = 41
  <2>1. PICK f : IsOffsets(f, Widths[type], 1) /\ Offset(type, 1) = f[1]
    BY OffsetIsOffset
  <2>2. \A j \in 1 .. 1 :
          f[j] = IF j = 1 THEN HeaderSize ELSE f[j - 1] + Widths[type][j - 1]
    BY <2>1 DEF IsOffsets
  <2> QED
    BY <2>1, <2>2 DEF HeaderSize
<1>2. ASSUME NEW i \in Nat \ {0}
      PROVE  Offset(type, i + 1) = Offset(type, i) + Widths[type][i]
  <2>1. PICK f : IsOffsets(f, Widths[type], i) /\ Offset(type, i) = f[i]
    BY OffsetIsOffset
  <2>2. PICK g : IsOffsets(g, Widths[type], i + 1) /\ Offset(type, i + 1) = g[i + 1]
    BY OffsetIsOffset
  <2>3. \A j \in 1 .. i + 1 :
          g[j] = IF j = 1 THEN HeaderSize ELSE g[j - 1] + Widths[type][j - 1]
    BY <2>2 DEF IsOffsets
  <2>4. i + 1 \in 1 .. i + 1 /\ i + 1 # 1 /\ (i + 1) - 1 = i
    OBVIOUS
  <2>5. g[i + 1] = g[i] + Widths[type][i]
    BY <2>3, <2>4
  <2>6. f[i] = g[i]
    <3>1. i + 1 \in Nat /\ i <= i + 1
      OBVIOUS
    <3> QED
      BY <2>1, <2>2, <3>1, OffsetsAgree
  <2> QED
    BY <2>1, <2>2, <2>5, <2>6
<1> QED
  BY <1>1, <1>2

\* The fields of a payload are where Offsets says, behind the header.
LEMMA PayloadFields ==
  ASSUME NEW type \in Types, NEW p \in PayloadOf(type)
  PROVE  /\ Joined(p) \in Seq(Byte)
         /\ Size[type] \in 41 .. 73
         /\ Len(Joined(p)) = Size[type] - 41
         /\ \A i \in 1 .. Len(Widths[type]) :
              /\ Offsets[type][i] \in Nat /\ Offsets[type][i] >= 41
              /\ Widths[type][i] \in Nat
              /\ Offsets[type][i] + Widths[type][i] <= Size[type]
              /\ Slice(Joined(p), Offsets[type][i] - 40, Widths[type][i]) = p[i]
<1> DEFINE w == Widths[type]
           n == Len(w)
           O == [i \in Nat |-> Offset(type, i)]
<1>1. n \in 1 .. 4 /\ \A i \in 1 .. n : w[i] \in {1, 8}
  BY WidthsFacts
<1>2. O[1] = 41 /\ \A i \in 1 .. n : O[i + 1] = O[i] + w[i]
  <2>1. O[1] = 41
    BY OffsetFacts
  <2>2. ASSUME NEW i \in 1 .. n PROVE O[i + 1] = O[i] + w[i]
    <3>1. i \in Nat \ {0} /\ i + 1 \in Nat /\ i \in Nat
      BY <1>1
    <3>2. Offset(type, i + 1) = Offset(type, i) + Widths[type][i]
      BY <3>1, OffsetFacts
    <3> QED
      BY <3>1, <3>2
  <2> QED
    BY <2>1, <2>2
<1>3. /\ Len(p) = n /\ DOMAIN p = 1 .. n
      /\ \A i \in 1 .. n : p[i] \in Seq(Byte) /\ Len(p[i]) = w[i]
  <2>1. p \in Seq(Seq(Byte)) /\ Len(p) = n /\ \A i \in DOMAIN p : Len(p[i]) = w[i]
    BY DEF PayloadOf
  <2> QED
    BY <2>1, ElementOfSeq, LenProperties
<1>4. /\ Size[type] = O[n + 1]
      /\ \A i \in 1 .. n : Offsets[type][i] = O[i]
  <2>1. Offsets[type] = [i \in 1 .. n + 1 |-> O[i]]
    BY <1>1 DEF Offsets
  <2>2. Size[type] = Last(Offsets[type])
    BY DEF Size
  <2>3. Len(Offsets[type]) = n + 1
    BY <1>1, <2>1
  <2> QED
    BY <1>1, <2>1, <2>2, <2>3 DEF Last
<1> HIDE DEF w, n, O
<1>5. PICK f : IsJoining(f, p, n) /\ Joined(p) = f[n]
  BY <1>1, <1>3, JoinedIsJoining
<1>6. /\ \A i \in 0 .. n : f[i] \in Seq(Byte)
      /\ f[0] = <<>>
      /\ \A i \in 1 .. n : f[i] = f[i - 1] \o p[i]
  <2>1. n \in Nat /\ \A i \in 1 .. n : p[i] \in Seq(Byte)
    BY <1>1, <1>3
  <2>2. IsJoining(f, p, n)
    BY <1>5
  <2>3. \A i \in 0 .. n : f[i] \in Seq(Byte)
    BY <2>1, <2>2, JoiningType
  <2>4. \A i \in 0 .. n : f[i] = IF i = 0 THEN <<>> ELSE f[i - 1] \o p[i]
    BY <2>2 DEF IsJoining
  <2>5. 0 \in 0 .. n /\ \A i \in 1 .. n : i \in 0 .. n /\ i # 0
    BY <1>1
  <2>6. f[0] = <<>>
    BY <2>4, <2>5, Zenon
  <2>7. ASSUME NEW i \in 1 .. n PROVE f[i] = f[i - 1] \o p[i]
    BY <2>4, <2>5, Zenon
  <2> QED
    BY <2>3, <2>6, <2>7
<1>7. ASSUME NEW i \in 1 .. n
      PROVE  /\ Len(f[i]) = Len(f[i - 1]) + w[i]
             /\ Begins(f[i - 1], f[i])
             /\ Slice(f[i], Len(f[i - 1]) + 1, w[i]) = p[i]
  <2>1. i - 1 \in 0 .. n /\ i \in 0 .. n
    BY <1>1
  <2>2. /\ f[i - 1] \in Seq(Byte) /\ p[i] \in Seq(Byte) /\ Len(p[i]) = w[i]
        /\ f[i] = f[i - 1] \o p[i]
    BY <1>3, <1>6, <2>1
  <2>3. Len(f[i - 1] \o p[i]) = Len(f[i - 1]) + Len(p[i])
    BY <2>2, ConcatProperties
  <2>4. Begins(f[i - 1], f[i - 1] \o p[i])
    BY <2>2, BeginsConcat
  <2>5. Slice(f[i - 1] \o p[i], Len(f[i - 1]) + 1, Len(p[i])) = p[i]
    BY <2>2, SliceSecond
  <2> QED
    BY <2>2, <2>3, <2>4, <2>5
<1>8. /\ \A i \in 0 .. n : Len(f[i]) = O[i + 1] - 41
      /\ \A i \in 0 .. n : O[i + 1] \in 41 .. 41 + 8 * i
  <2> DEFINE Bad == {i \in 0 .. n : ~ /\ Len(f[i]) = O[i + 1] - 41
                                      /\ O[i + 1] \in 41 .. 41 + 8 * i}
  <2>1. ASSUME Bad # {} PROVE FALSE
    <3>1. PICK k \in Bad : \A x \in Bad : k <= x
      <4>1. Bad \in SUBSET Nat
        BY <1>1
      <4> HIDE DEF Bad
      <4> QED
        BY <4>1, <2>1, LeastNatural
    <3>2. k # 0
      BY <3>1, <1>2, <1>6
    <3>3. k \in 1 .. n /\ k - 1 \in 0 .. n /\ k - 1 \notin Bad /\ (k - 1) + 1 = k
      BY <1>1, <3>1, <3>2
    <3>4. Len(f[k - 1]) = O[k] - 41 /\ O[k] \in 41 .. 41 + 8 * (k - 1)
      BY <3>3
    <3>5. O[k + 1] = O[k] + w[k] /\ w[k] \in {1, 8}
      BY <1>1, <1>2, <3>3
    <3>6. Len(f[k]) = Len(f[k - 1]) + w[k]
      BY <1>7, <3>3
    <3>7. Len(f[k]) = O[k + 1] - 41
      BY <3>4, <3>5, <3>6
    <3>8. O[k + 1] \in 41 .. 41 + 8 * k
      BY <3>3, <3>4, <3>5
    <3> QED
      BY <3>1, <3>7, <3>8
  <2> QED
    BY <2>1
<1>9. ASSUME NEW i \in 1 .. n
      PROVE  Begins(f[i], f[n])
  <2> DEFINE Bad == {j \in i .. n : ~Begins(f[i], f[j])}
  <2>1. ASSUME Bad # {} PROVE FALSE
    <3>1. PICK k \in Bad : \A x \in Bad : k <= x
      <4>1. Bad \in SUBSET Nat
        BY <1>1
      <4> HIDE DEF Bad
      <4> QED
        BY <4>1, <2>1, LeastNatural
    <3>2. k # i
      <4>1. f[i] \in Seq(Byte)
        BY <1>1, <1>6
      <4>2. Begins(f[i], f[i])
        BY <4>1, BeginsItself
      <4> QED
        BY <3>1, <4>2
    <3>3. /\ k \in 1 .. n /\ k \in 0 .. n /\ k - 1 \in 0 .. n /\ i \in 0 .. n
          /\ k - 1 \in i .. n /\ k - 1 \notin Bad
      BY <1>1, <3>1, <3>2
    <3>4. Begins(f[i], f[k - 1])
      BY <3>3
    <3>5. Begins(f[k - 1], f[k])
      BY <1>7, <3>3
    <3>6. f[i] \in Seq(Byte) /\ f[k - 1] \in Seq(Byte) /\ f[k] \in Seq(Byte)
      BY <1>6, <3>3
    <3>7. Begins(f[i], f[k])
      BY <3>4, <3>5, <3>6, BeginsTransitive
    <3> QED
      BY <3>1, <3>7
  <2>2. n \in i .. n
    BY <1>1
  <2> QED
    BY <2>1, <2>2
<1>10. ASSUME NEW i \in 1 .. n
       PROVE  /\ O[i] \in Nat /\ O[i] >= 41 /\ w[i] \in Nat
              /\ O[i] + w[i] <= O[n + 1]
              /\ Slice(f[n], O[i] - 40, w[i]) = p[i]
  <2>1. i - 1 \in 0 .. n /\ (i - 1) + 1 = i /\ i \in 0 .. n /\ n \in 0 .. n
    BY <1>1
  <2>a. PICK h \in 0 .. n : h = i - 1 /\ h + 1 = i
    BY <2>1
  <2>b. Len(f[h]) = O[h + 1] - 41 /\ O[h + 1] \in 41 .. 41 + 8 * h
    BY <1>8
  <2>c. Len(f[n]) = O[n + 1] - 41 /\ O[n + 1] \in 41 .. 41 + 8 * n
    BY <1>8, <2>1
  <2>2. /\ Len(f[i - 1]) = O[i] - 41 /\ O[i] \in 41 .. 41 + 8 * (i - 1)
        /\ w[i] \in Nat /\ Len(f[n]) = O[n + 1] - 41
    BY <1>1, <2>a, <2>b, <2>c
  <2>3. f[i] \in Seq(Byte) /\ f[n] \in Seq(Byte) /\ Begins(f[i], f[n])
    BY <1>6, <1>9, <2>1
  <2>4. Len(f[i]) = Len(f[i - 1]) + w[i] /\ Len(f[i]) <= Len(f[n])
    BY <1>7, <2>3 DEF Begins
  <2>5. PICK o \in Nat \ {0} : o = O[i] - 40
    BY <2>2
  <2>6. o = Len(f[i - 1]) + 1 /\ o + w[i] - 1 <= Len(f[i])
    BY <2>2, <2>4, <2>5
  <2>7. Slice(f[n], o, w[i]) = Slice(f[i], o, w[i])
    <3>1. PICK v \in Nat, a \in Seq(Byte), b \in Seq(Byte) :
            /\ v = w[i] /\ a = f[i] /\ b = f[n]
            /\ Begins(a, b) /\ o + v - 1 <= Len(a)
      BY <2>2, <2>3, <2>6
    <3>2. Slice(b, o, v) = Slice(a, o, v)
      BY <3>1, SliceOfBeginning
    <3> QED
      BY <3>1, <3>2
  <2>8. Slice(f[i], o, w[i]) = p[i]
    BY <1>7, <2>6
  <2>9. O[i] \in Nat /\ O[i] >= 41 /\ O[i] + w[i] <= O[n + 1]
    <3>1. O[i] \in Nat /\ O[i] >= 41 /\ O[n + 1] \in Nat
      BY <2>2, <2>c
    <3> QED
      BY <2>2, <2>4, <3>1
  <2> QED
    BY <2>2, <2>5, <2>7, <2>8, <2>9
<1>11. Joined(p) \in Seq(Byte) /\ Len(Joined(p)) = O[n + 1] - 41
  BY <1>1, <1>5, <1>6, <1>8
<1>12. O[n + 1] \in 41 .. 73
  <2>1. n \in 0 .. n
    BY <1>1
  <2>2. O[n + 1] \in 41 .. 41 + 8 * n
    BY <1>8, <2>1
  <2> QED
    BY <1>1, <2>2
<1> QED
  BY <1>4, <1>5, <1>10, <1>11, <1>12 DEF w, n

-----------------------------------------------------------------------------
(***************************************************************************)
(* Encoding and decoding.                                                  *)
(***************************************************************************)

\* What precedes the payload in the bytes of an event, and where it stands.
Header(e) ==
  Magic \o U32(FormatVersion)
  \o e.event_id \o e.sequence_number \o e.timestamp \o e.symbol
  \o <<Tag[e.type]>>

LEMMA WordsAreBytes ==
  ASSUME NEW w \in Word
  PROVE  w \in Seq(Byte) /\ Len(w) = 8
<1>1. \A i \in 1 .. 8 : w[i] \in Byte
  BY DEF Word
<1>2. w = [i \in 1 .. 8 |-> w[i]]
  BY DEF Word
<1> QED
  BY <1>1, <1>2

\* The slices of u within the first n bytes are those of s.
SameSlices(u, s, n) ==
  \A i \in Nat \ {0}, w \in Nat : i + w - 1 <= n => Slice(u, i, w) = Slice(s, i, w)

\* One byte string is put behind another, and found behind it.
LEMMA PutBehind ==
  ASSUME NEW s \in Seq(Byte), NEW t \in Seq(Byte)
  PROVE  /\ s \o t \in Seq(Byte) /\ Len(s \o t) = Len(s) + Len(t)
         /\ Slice(s \o t, Len(s) + 1, Len(t)) = t
         /\ SameSlices(s \o t, s, Len(s))
<1>1. s \o t \in Seq(Byte) /\ Len(s \o t) = Len(s) + Len(t)
  BY ConcatProperties
<1>2. Begins(s, s \o t)
  BY BeginsConcat
<1>3. ASSUME NEW i \in Nat \ {0}, NEW w \in Nat, i + w - 1 <= Len(s)
      PROVE  Slice(s \o t, i, w) = Slice(s, i, w)
  BY <1>1, <1>2, <1>3, SliceOfBeginning
<1> QED
  BY <1>1, <1>3, SliceSecond DEF SameSlices

LEMMA HeaderFacts ==
  ASSUME NEW type \in Types, NEW e \in MarketEvent(type)
  PROVE  /\ Header(e) \in Seq(Byte) /\ Len(Header(e)) = 41
         /\ Slice(Header(e), 1, 4) = Magic
         /\ Slice(Header(e), 5, 4) = U32(FormatVersion)
         /\ Slice(Header(e), 9, 8) = e.event_id
         /\ Slice(Header(e), 17, 8) = e.sequence_number
         /\ Slice(Header(e), 25, 8) = e.timestamp
         /\ Slice(Header(e), 33, 8) = e.symbol
         /\ Header(e)[41] = Tag[type]
<1> DEFINE h1 == Magic \o U32(FormatVersion)
           h2 == h1 \o e.event_id
           h3 == h2 \o e.sequence_number
           h4 == h3 \o e.timestamp
           h5 == h4 \o e.symbol
           tag == <<Tag[e.type]>>
           h6 == h5 \o tag
<1>1. Magic \in Seq(Byte) /\ Len(Magic) = 4
  BY DEF Magic, Byte
<1>2. U32(FormatVersion) \in Seq(Byte) /\ Len(U32(FormatVersion)) = 4
  BY DEF U32, FormatVersion, Byte
<1>3. /\ e.event_id \in Seq(Byte) /\ Len(e.event_id) = 8
      /\ e.sequence_number \in Seq(Byte) /\ Len(e.sequence_number) = 8
      /\ e.timestamp \in Seq(Byte) /\ Len(e.timestamp) = 8
      /\ e.symbol \in Seq(Byte) /\ Len(e.symbol) = 8
      /\ e.type = type
  BY WordsAreBytes DEF MarketEvent
<1>4. tag \in Seq(Byte) /\ Len(tag) = 1 /\ tag[1] = Tag[type]
  <2>1. Tag[type] \in Byte
    BY DEF Types, Tag, Byte
  <2> QED
    BY <1>3, <2>1
<1>5. Header(e) = h6
  BY DEF Header
<1> HIDE DEF tag, h1, h2, h3, h4, h5, h6
<1>11. /\ h1 \in Seq(Byte) /\ Len(h1) = 8
       /\ Slice(h1, 5, 4) = U32(FormatVersion)
       /\ SameSlices(h1, Magic, 4)
  <2>1. Magic \in Seq(Byte) /\ U32(FormatVersion) \in Seq(Byte)
    BY <1>1, <1>2
  <2>2. /\ h1 \in Seq(Byte) /\ Len(h1) = Len(Magic) + Len(U32(FormatVersion))
        /\ Slice(h1, Len(Magic) + 1, Len(U32(FormatVersion))) = U32(FormatVersion)
        /\ SameSlices(h1, Magic, Len(Magic))
    BY <2>1, PutBehind DEF h1
  <2>3. Len(Magic) = 4 /\ Len(U32(FormatVersion)) = 4 /\ 4 + 1 = 5 /\ 4 + 4 = 8
    BY <1>1, <1>2
  <2> QED
    BY <2>2, <2>3
<1>12. /\ h2 \in Seq(Byte) /\ Len(h2) = 16
       /\ Slice(h2, 9, 8) = e.event_id
       /\ SameSlices(h2, h1, 8)
  <2>1. h1 \in Seq(Byte) /\ e.event_id \in Seq(Byte)
    BY <1>3, <1>11
  <2>2. /\ h2 \in Seq(Byte) /\ Len(h2) = Len(h1) + Len(e.event_id)
        /\ Slice(h2, Len(h1) + 1, Len(e.event_id)) = e.event_id
        /\ SameSlices(h2, h1, Len(h1))
    BY <2>1, PutBehind DEF h2
  <2>3. Len(h1) = 8 /\ Len(e.event_id) = 8 /\ 8 + 1 = 9 /\ 8 + 8 = 16
    BY <1>3, <1>11
  <2> QED
    BY <2>2, <2>3
<1>13. /\ h3 \in Seq(Byte) /\ Len(h3) = 24
       /\ Slice(h3, 17, 8) = e.sequence_number
       /\ SameSlices(h3, h2, 16)
  <2>1. h2 \in Seq(Byte) /\ e.sequence_number \in Seq(Byte)
    BY <1>3, <1>12
  <2>2. /\ h3 \in Seq(Byte) /\ Len(h3) = Len(h2) + Len(e.sequence_number)
        /\ Slice(h3, Len(h2) + 1, Len(e.sequence_number)) = e.sequence_number
        /\ SameSlices(h3, h2, Len(h2))
    BY <2>1, PutBehind DEF h3
  <2>3. Len(h2) = 16 /\ Len(e.sequence_number) = 8 /\ 16 + 1 = 17 /\ 16 + 8 = 24
    BY <1>3, <1>12
  <2> QED
    BY <2>2, <2>3
<1>14. /\ h4 \in Seq(Byte) /\ Len(h4) = 32
       /\ Slice(h4, 25, 8) = e.timestamp
       /\ SameSlices(h4, h3, 24)
  <2>1. h3 \in Seq(Byte) /\ e.timestamp \in Seq(Byte)
    BY <1>3, <1>13
  <2>2. /\ h4 \in Seq(Byte) /\ Len(h4) = Len(h3) + Len(e.timestamp)
        /\ Slice(h4, Len(h3) + 1, Len(e.timestamp)) = e.timestamp
        /\ SameSlices(h4, h3, Len(h3))
    BY <2>1, PutBehind DEF h4
  <2>3. Len(h3) = 24 /\ Len(e.timestamp) = 8 /\ 24 + 1 = 25 /\ 24 + 8 = 32
    BY <1>3, <1>13
  <2> QED
    BY <2>2, <2>3
<1>15. /\ h5 \in Seq(Byte) /\ Len(h5) = 40
       /\ Slice(h5, 33, 8) = e.symbol
       /\ SameSlices(h5, h4, 32)
  <2>1. h4 \in Seq(Byte) /\ e.symbol \in Seq(Byte)
    BY <1>3, <1>14
  <2>2. /\ h5 \in Seq(Byte) /\ Len(h5) = Len(h4) + Len(e.symbol)
        /\ Slice(h5, Len(h4) + 1, Len(e.symbol)) = e.symbol
        /\ SameSlices(h5, h4, Len(h4))
    BY <2>1, PutBehind DEF h5
  <2>3. Len(h4) = 32 /\ Len(e.symbol) = 8 /\ 32 + 1 = 33 /\ 32 + 8 = 40
    BY <1>3, <1>14
  <2> QED
    BY <2>2, <2>3
<1>16. /\ h6 \in Seq(Byte) /\ Len(h6) = 41
       /\ Slice(h6, 41, 1) = tag
       /\ SameSlices(h6, h5, 40)
  <2>1. h5 \in Seq(Byte) /\ tag \in Seq(Byte)
    BY <1>4, <1>15
  <2>2. /\ h6 \in Seq(Byte) /\ Len(h6) = Len(h5) + Len(tag)
        /\ Slice(h6, Len(h5) + 1, Len(tag)) = tag
        /\ SameSlices(h6, h5, Len(h5))
    BY <2>1, PutBehind DEF h6
  <2>3. Len(h5) = 40 /\ Len(tag) = 1 /\ 40 + 1 = 41 /\ 40 + 1 = 41
    BY <1>4, <1>15
  <2> QED
    BY <2>2, <2>3
<1>17. h6[41] = Tag[type]
  <2>1. 41 \in 1 .. Len(h5) + Len(tag) /\ ~(41 <= Len(h5)) /\ 41 - Len(h5) = 1
    BY <1>15, <1>4
  <2>2. \A i \in 1 .. Len(h5) + Len(tag) :
          h6[i] = IF i <= Len(h5) THEN h5[i] ELSE tag[i - Len(h5)]
    BY <1>15, <1>4, ConcatProperties DEF h6
  <2> QED
    BY <1>4, <2>1, <2>2
<1>18. Slice(h6, 33, 8) = e.symbol
  BY <1>15, <1>16 DEF SameSlices
<1>19. Slice(h6, 25, 8) = e.timestamp
  BY <1>14, <1>15, <1>16 DEF SameSlices
<1>20. Slice(h6, 17, 8) = e.sequence_number
  BY <1>13, <1>14, <1>15, <1>16 DEF SameSlices
<1>21. Slice(h6, 9, 8) = e.event_id
  BY <1>12, <1>13, <1>14, <1>15, <1>16 DEF SameSlices
<1>22. Slice(h6, 5, 4) = U32(FormatVersion)
  BY <1>11, <1>12, <1>13, <1>14, <1>15, <1>16 DEF SameSlices
<1>23. Slice(h6, 1, 4) = Magic
  <2>1. Slice(Magic, 1, 4) = Magic
    BY <1>1, SliceWhole
  <2> QED
    BY <2>1, <1>11, <1>12, <1>13, <1>14, <1>15, <1>16 DEF SameSlices
<1> QED
  BY <1>5, <1>16, <1>17, <1>18, <1>19, <1>20, <1>21, <1>22, <1>23

\* deserialize undoes serialize: every valid event comes back from its bytes as
\* it was, its fields in their places and at their full width.
THEOREM DecodedIsEncoded ==
  ASSUME NEW type \in Types, NEW e \in MarketEvent(type), IsValidEvent(e)
  PROVE  /\ Serialize(e) \in Seq(Byte) /\ Len(Serialize(e)) \in 41 .. 73
         /\ Deserialize(Serialize(e)) = e
<1> DEFINE h == Header(e)
           body == Joined(e.payload)
           data == Serialize(e)
           w == Widths[type]
           n == Len(w)
<1>1. /\ e.type = type /\ e.payload \in PayloadOf(type)
      /\ e.event_id \in Word /\ e.sequence_number \in Word
      /\ e.timestamp \in Word /\ e.symbol \in Word
  BY DEF MarketEvent
<1>2. data = h \o body
  BY DEF Serialize, Header
<1>3. h \in Seq(Byte) /\ Len(h) = 41
  BY HeaderFacts
<1>4. /\ body \in Seq(Byte) /\ Size[type] \in 41 .. 73
      /\ Len(body) = Size[type] - 41
  BY <1>1, PayloadFields
<1>16. \A i \in 1 .. n :
           /\ Offsets[type][i] \in Nat /\ Offsets[type][i] >= 41
           /\ w[i] \in Nat
           /\ Offsets[type][i] + w[i] <= Size[type]
           /\ Slice(body, Offsets[type][i] - 40, w[i]) = e.payload[i]
  BY <1>1, PayloadFields
<1>5. n \in 1 .. 4 /\ Len(e.payload) = n /\ DOMAIN e.payload = 1 .. n
  <2>1. e.payload \in Seq(Seq(Byte)) /\ Len(e.payload) = n
    BY <1>1 DEF PayloadOf
  <2> QED
    BY <2>1, WidthsFacts, LenProperties
<1> HIDE DEF h, body, data, n, w
<1>6. data \in Seq(Byte) /\ Len(data) = Size[type] /\ SameSlices(data, h, 41)
  <2>1. /\ h \o body \in Seq(Byte) /\ Len(h \o body) = Len(h) + Len(body)
        /\ SameSlices(h \o body, h, Len(h))
    BY <1>3, <1>4, PutBehind
  <2>2. Len(h) + Len(body) = Size[type]
    <3>1. PICK z \in 41 .. 73 : z = Size[type] /\ Len(body) = z - 41
      BY <1>4
    <3>2. Len(h) + Len(body) = z
      BY <1>3, <3>1
    <3> QED
      BY <3>1, <3>2
  <2> QED
    BY <1>2, <1>3, <2>1, <2>2
<1>7. data[41] = Tag[type]
  <2>1. 41 \in 1 .. Len(h) + Len(body) /\ 41 <= Len(h)
    BY <1>3, <1>4
  <2>2. \A i \in 1 .. Len(h) + Len(body) :
          (h \o body)[i] = IF i <= Len(h) THEN h[i] ELSE body[i - Len(h)]
    BY <1>3, <1>4, ConcatProperties
  <2>3. h[41] = Tag[type]
    BY HeaderFacts DEF h
  <2> QED
    BY <1>2, <2>1, <2>2, <2>3
<1>8. /\ Slice(data, 1, 4) = Slice(h, 1, 4) /\ Slice(data, 5, 4) = Slice(h, 5, 4)
      /\ Slice(data, 9, 8) = Slice(h, 9, 8) /\ Slice(data, 17, 8) = Slice(h, 17, 8)
      /\ Slice(data, 25, 8) = Slice(h, 25, 8)
      /\ Slice(data, 33, 8) = Slice(h, 33, 8)
  BY <1>6 DEF SameSlices
<1>9. ASSUME NEW i \in 1 .. n
      PROVE  Slice(data, Offsets[type][i] + 1, w[i]) = e.payload[i]
  <2>1. PICK k \in Nat \ {0}, v \in Nat :
          /\ k = Offsets[type][i] - 40 /\ v = w[i] /\ k + v - 1 <= Len(body)
    <3>1. /\ Offsets[type][i] \in Nat /\ Offsets[type][i] >= 41
          /\ w[i] \in Nat /\ Offsets[type][i] + w[i] <= Size[type]
      BY <1>16
    <3>2. Offsets[type][i] - 40 \in Nat \ {0}
      BY <3>1
    <3>3. Offsets[type][i] - 40 + w[i] - 1 <= Len(body)
      <4>1. PICK z \in 41 .. 73 : z = Size[type] /\ Len(body) = z - 41
        BY <1>4
      <4>2. PICK o \in Nat, v \in Nat :
              o = Offsets[type][i] /\ v = w[i] /\ o + v <= z
        BY <3>1, <4>1
      <4>3. o - 40 + v - 1 <= z - 41
        BY <4>2
      <4> QED
        BY <4>1, <4>2, <4>3
    <3> QED
      BY <3>1, <3>2, <3>3
  <2>2. Slice(h \o body, Len(h) + k, v) = Slice(body, k, v)
    <3>1. h \in Seq(Byte) /\ body \in Seq(Byte) /\ k + v - 1 <= Len(body)
      BY <1>3, <1>4, <2>1
    <3> QED
      BY <3>1, SliceBehind
  <2>3. Len(h) + k = Offsets[type][i] + 1
    BY <1>3, <1>16, <2>1
  <2>4. Slice(body, k, v) = e.payload[i]
    BY <1>16, <2>1
  <2> QED
    BY <1>2, <2>1, <2>2, <2>3, <2>4
<1>10. HeaderFits(data)
  <2>1. Slice(h, 1, 4) = Magic /\ Slice(h, 5, 4) = U32(FormatVersion)
    BY HeaderFacts DEF h
  <2> QED
    BY <1>4, <1>6, <1>8, <2>1 DEF HeaderFits, HeaderSize
<1>11. Fields(data, type) = e.payload
  <2>1. Fields(data, type) = [i \in 1 .. n |-> Slice(data, Offsets[type][i] + 1, w[i])]
    BY DEF Fields, n, w
  <2>2. e.payload = [i \in 1 .. n |-> e.payload[i]]
    <3>1. e.payload \in Seq(Seq(Byte))
      BY <1>1 DEF PayloadOf
    <3>2. e.payload = [i \in DOMAIN e.payload |-> e.payload[i]]
      BY <3>1
    <3> QED
      BY <1>5, <3>2
  <2> QED
    BY <1>9, <2>1, <2>2
<1>12. EventAt(data, type) = e
  <2>1. /\ Slice(h, 9, 8) = e.event_id /\ Slice(h, 17, 8) = e.sequence_number
        /\ Slice(h, 25, 8) = e.timestamp /\ Slice(h, 33, 8) = e.symbol
    BY HeaderFacts DEF h
  <2>2. EventAt(data, type) =
          [event_id |-> e.event_id, sequence_number |-> e.sequence_number,
           timestamp |-> e.timestamp, symbol |-> e.symbol,
           type |-> type, payload |-> e.payload]
    BY <1>8, <1>11, <2>1 DEF EventAt
  <2> QED
    BY <1>1, <2>2 DEF MarketEvent
<1>13. \A t \in Types : Tag[t] = Tag[type] => t = type
  BY DEF Types, Tag
<1>14. Decoded(data) = {e}
  <2>1. {t \in Types : Tag[t] = data[HeaderSize] /\ Complete(data, t)} = {type}
    BY <1>6, <1>7, <1>13 DEF HeaderSize, Complete
  <2> QED
    BY <1>12, <2>1 DEF Decoded
<1>15. Deserialize(data) = e
  BY <1>10, <1>14 DEF Deserialize
<1> QED
  BY <1>4, <1>6, <1>15 DEF data

\* What deserialize gives is Malformed, or a valid event.
LEMMA DecodedIsValid ==
  ASSUME NEW data, Deserialize(data) # Malformed
  PROVE  IsValidEvent(Deserialize(data))
BY DEF Deserialize

LEMMA SizesCanBeRead ==
  ASSUME NEW n \in 0 .. 255
  PROVE  /\ U32(n) \in Seq(Byte) /\ Len(U32(n)) = 4
         /\ ReadU32(U32(n)) = n
<1>1. /\ n % 256 = n /\ n \div 256 = 0 /\ n \div 65536 = 0
      /\ n \div 16777216 = 0 /\ 0 % 256 = 0
  BY SMT
<1>2. U32(n) = <<n, 0, 0, 0>>
  BY <1>1, SMT DEF U32
<1> QED
  BY <1>2, SMT DEF ReadU32, Byte

LEMMA ReadIsNatural ==
  ASSUME NEW b \in Seq(Byte), Len(b) = 4
  PROVE  ReadU32(b) \in Nat
<1>1. \A i \in 1 .. 4 : b[i] \in Nat
  <2>1. \A i \in 1 .. Len(b) : b[i] \in Byte
    BY ElementOfSeq
  <2>2. Byte \subseteq Nat
    BY SMT DEF Byte
  <2> QED
    BY <2>1, <2>2
<1>2. b[1] \in Nat /\ b[2] \in Nat /\ b[3] \in Nat /\ b[4] \in Nat
  BY <1>1, SMT
<1>3. b[3] + 256 * b[4] \in Nat
  BY <1>2, SMT
<1>4. b[2] + 256 * (b[3] + 256 * b[4]) \in Nat
  BY <1>2, <1>3, SMT
<1>5. b[1] + 256 * (b[2] + 256 * (b[3] + 256 * b[4])) \in Nat
  BY <1>2, <1>4, SMT
<1> QED
  BY <1>5, SMT DEF ReadU32

\* A record: the length of an event's bytes, and these.
LEMMA RecordFacts ==
  ASSUME NEW e \in Valid
  PROVE  /\ RecordOf[e] \in Seq(Byte)
         /\ Len(RecordOf[e]) = 4 + Len(Serialize(e))
         /\ Len(Serialize(e)) \in 41 .. 73
         /\ ReadU32(Slice(RecordOf[e], 1, 4)) = Len(Serialize(e))
         /\ Slice(RecordOf[e], 5, Len(Serialize(e))) = Serialize(e)
         /\ Deserialize(Serialize(e)) = e
<1> DEFINE data == Serialize(e)
           size == U32(Len(data))
<1>1. RecordOf[e] = size \o data
  BY DEF RecordOf, Record, Valid
<1>2. data \in Seq(Byte) /\ Len(data) \in 41 .. 73 /\ Deserialize(data) = e
  <2>1. e \in Events /\ IsValidEvent(e)
    BY DEF Valid
  <2>2. e.type \in Types /\ e \in MarketEvent(e.type)
    BY <2>1, EventsAssumption
  <2> QED
    BY <2>1, <2>2, DecodedIsEncoded
<1> HIDE DEF data
<1>3. size \in Seq(Byte) /\ Len(size) = 4 /\ ReadU32(size) = Len(data)
  <2>1. Len(data) \in 0 .. 255
    BY <1>2
  <2> QED
    BY <2>1, SizesCanBeRead
<1> HIDE DEF size
<1>4. /\ size \o data \in Seq(Byte) /\ Len(size \o data) = Len(size) + Len(data)
      /\ Slice(size \o data, Len(size) + 1, Len(data)) = data
      /\ SameSlices(size \o data, size, Len(size))
  BY <1>2, <1>3, PutBehind
<1>5. Slice(size \o data, 1, 4) = size
  <2>1. Slice(size \o data, 1, 4) = Slice(size, 1, 4)
    BY <1>3, <1>4 DEF SameSlices
  <2> QED
    BY <1>3, <2>1, SliceWhole
<1>6. RecordOf[e] \in Seq(Byte) /\ Len(RecordOf[e]) = 4 + Len(data)
  BY <1>1, <1>3, <1>4
<1>7. ReadU32(Slice(RecordOf[e], 1, 4)) = Len(data)
  BY <1>1, <1>3, <1>5
<1>8. Slice(RecordOf[e], 5, Len(data)) = data
  BY <1>1, <1>3, <1>4
<1> QED
  BY <1>2, <1>6, <1>7, <1>8 DEF data

LEMMA AllRecordsAreBytes == RecordsAreBytes
BY RecordFacts DEF RecordsAreBytes

-----------------------------------------------------------------------------
(***************************************************************************)
(* What a file holds of the records that were given to it.                 *)
(***************************************************************************)

\* f holds the records of a, or the beginning of them and of at most one more.
Written(f, a) ==
  \/ Begins(f, Records(a))
  \/ \E e \in Valid : /\ Begins(f, Records(Append(a, e)))
                      /\ Len(f) < Len(Records(Append(a, e)))

\* f holds the records of a, and of at most one more a part.
Torn(f, a) ==
  /\ Begins(Records(a), f)
  /\ \/ f = Records(a)
     \/ \E e \in Valid : /\ Begins(f, Records(Append(a, e)))
                         /\ Len(f) < Len(Records(Append(a, e)))

\* The number of events that Kept keeps.
KeptCount(a, n) == Max({i \in 0 .. Len(a) : Len(Upto(a, i)) <= n})

LEMMA KeptFacts ==
  ASSUME NEW a \in Seq(Valid), NEW n \in Nat
  PROVE  /\ KeptCount(a, n) \in 0 .. Len(a)
         /\ Len(Upto(a, KeptCount(a, n))) <= n
         /\ \A i \in 0 .. Len(a) : Len(Upto(a, i)) <= n => i <= KeptCount(a, n)
<1> DEFINE T == {i \in 0 .. Len(a) : Len(Upto(a, i)) <= n}
<1>1. Len(a) \in Nat
  BY LenProperties
<1>2. T \in SUBSET (0 .. Len(a))
  OBVIOUS
<1>3. 0 \in T
  BY <1>1, UptoZero, AllRecordsAreBytes
<1>4. KeptCount(a, n) = Max(T)
  BY DEF KeptCount
<1>5. Max(T) \in T /\ \A x \in T : x <= Max(T)
  <2> HIDE DEF T
  <2> QED
    BY <1>1, <1>2, <1>3, GreatestUpTo
<1> QED
  BY <1>4, <1>5

\* When a write stops, or the writer dies, the events that are kept are those
\* whose records are whole, and what follows these is part of one record.
LEMMA KeptTorn ==
  ASSUME NEW a \in Seq(Valid), NEW f \in Seq(Byte), Written(f, a)
  PROVE  Torn(f, SubSeq(a, 1, KeptCount(a, Len(f))))
<1> DEFINE m == KeptCount(a, Len(f))
           b == SubSeq(a, 1, m)
<1>0. RecordsAreBytes
  BY AllRecordsAreBytes
<1>1. Len(a) \in Nat /\ Len(f) \in Nat
  BY LenProperties
<1>2. /\ m \in 0 .. Len(a) /\ Len(Upto(a, m)) <= Len(f)
      /\ \A i \in 0 .. Len(a) : Len(Upto(a, i)) <= Len(f) => i <= m
  BY <1>1, KeptFacts
<1> HIDE DEF m
<1>3. b \in Seq(Valid) /\ Len(b) = m /\ Upto(a, m) \in Seq(Byte)
  BY <1>0, <1>2, UptoType
<1>4. Records(b) = Upto(a, m)
  BY DEF Upto
<1>5. Records(a) = Upto(a, Len(a)) /\ Records(a) \in Seq(Byte)
  BY <1>0, UptoAll, RecordsType
<1>6. Begins(Records(b), Records(a))
  <2>1. Len(a) \in 0 .. Len(a) /\ m <= Len(a)
    BY <1>1, <1>2
  <2> QED
    BY <1>0, <1>2, <1>4, <1>5, <2>1, UptoBegins
<1>7. ASSUME m < Len(a), Begins(f, Records(a))
      PROVE  Torn(f, b)
  <2>1. /\ m + 1 \in 0 .. Len(a) /\ a[m + 1] \in Valid
        /\ SubSeq(a, 1, m + 1) = Append(b, a[m + 1])
    BY <1>0, <1>2, <1>7, UptoStep
  <2>2. Upto(a, m + 1) = Records(Append(b, a[m + 1]))
    BY <2>1 DEF Upto
  <2>3. Upto(a, m + 1) \in Seq(Byte) /\ Len(Upto(a, m + 1)) \in Nat
    BY <1>0, <2>1, UptoType
  <2>4. Len(f) < Len(Upto(a, m + 1))
    BY <1>1, <1>2, <2>1, <2>3
  <2>5. Begins(Upto(a, m + 1), Records(a))
    <3>1. Len(a) \in 0 .. Len(a) /\ m + 1 <= Len(a)
      BY <1>1, <2>1
    <3> QED
      BY <1>0, <1>5, <2>1, <3>1, UptoBegins
  <2>6. Begins(f, Upto(a, m + 1))
    BY <1>1, <1>5, <1>7, <2>3, <2>4, <2>5, BeginsShorter
  <2>7. Begins(Records(b), f)
    BY <1>2, <1>3, <1>4, <1>5, <1>6, <1>7, BeginsShorter
  <2> QED
    BY <2>1, <2>2, <2>4, <2>6, <2>7 DEF Torn
<1>8. ASSUME m = Len(a), Begins(f, Records(a))
      PROVE  Torn(f, b)
  <2>1. Len(Records(a)) <= Len(f)
    BY <1>2, <1>5, <1>8
  <2>2. f = Records(a)
    BY <1>5, <1>8, <2>1, BeginsSameLength
  <2>3. Records(b) = f
    BY <1>4, <1>5, <1>8, <2>2
  <2> QED
    BY <2>3, BeginsItself DEF Torn
<1>9. ASSUME NEW e \in Valid, Begins(f, Records(Append(a, e))),
             Len(f) < Len(Records(Append(a, e)))
      PROVE  Torn(f, b)
  <2> DEFINE R == Records(Append(a, e))
  <2>1. Append(a, e) \in Seq(Valid)
    BY AppendProperties
  <2>2. R \in Seq(Byte)
    BY <1>0, <2>1, RecordsType
  <2>3. Begins(Records(a), R)
    <3>1. R = Records(a) \o RecordOf[e] /\ RecordOf[e] \in Seq(Byte)
      BY RecordsAppend, RecordFacts
    <3> QED
      BY <1>5, <3>1, BeginsConcat
  <2>4. CASE m < Len(a)
    <3>1. Len(Records(a)) > Len(f)
      <4>1. Len(a) \in 0 .. Len(a) /\ ~(Len(a) <= m)
        BY <1>1, <1>2, <2>4
      <4>2. ~(Len(Upto(a, Len(a))) <= Len(f))
        BY <1>2, <4>1
      <4> QED
        BY <1>1, <1>5, <4>2, LenProperties
    <3>2. Begins(f, Records(a))
      <4>1. Len(f) <= Len(Records(a))
        BY <1>1, <1>5, <3>1, LenProperties
      <4> QED
        BY <1>5, <1>9, <2>2, <2>3, <4>1, BeginsShorter
    <3> QED
      BY <1>7, <2>4, <3>2
  <2>5. CASE m = Len(a)
    <3>1. b = a
      BY <2>5, SubSeqFull
    <3>2. Len(Records(a)) <= Len(f)
      BY <1>2, <1>5, <2>5
    <3>3. Begins(Records(a), f)
      BY <1>5, <1>9, <2>2, <2>3, <3>2, BeginsShorter
    <3> QED
      BY <1>9, <3>1, <3>3 DEF Torn
  <2> QED
    BY <1>1, <1>2, <2>4, <2>5
<1>10. Torn(f, b)
  <2>1. CASE Begins(f, Records(a))
    BY <1>1, <1>2, <1>7, <1>8, <2>1
  <2> QED
    BY <1>9, <2>1 DEF Written
<1> QED
  BY <1>10 DEF m

-----------------------------------------------------------------------------
(***************************************************************************)
(* The store's part of the inductive invariant.                            *)
(***************************************************************************)
StoreTypes ==
  /\ file \in Seq(Byte) /\ pending \in Seq(Byte) /\ appended \in Seq(Valid)
  /\ store \in {"closed", "open", "failed"}
  /\ store # "open" => pending = <<>>
  /\ flushed \in Nat /\ sound \in Nat /\ intact \in BOOLEAN

\* Flushed records are sound, and those are all of appended or the first ones;
\* the file is long enough for what was flushed; before the first damage the
\* file, with the buffer of an open store, is what was appended, and after it
\* the sound records stay at its beginning.
StoreInv ==
  /\ StoreTypes
  /\ flushed <= Sound /\ Sound <= Len(appended)
  /\ Len(Upto(appended, flushed)) <= Len(file)
  /\ ~intact => Begins(Upto(appended, sound), file)
  /\ (intact /\ store = "open") => file \o pending = Records(appended)
  /\ (intact /\ store # "open") => Torn(file, appended)

\* What a step of the store may do to the sound records: those that are in the
\* file stay, and all that are still counted keep their events; the file grows.
Moves ==
  /\ Len(file) <= Len(file')
  /\ \A j \in 0 .. Sound : Len(Upto(appended, j)) <= Len(file) => j <= Sound'
  /\ \A i \in 1 .. Sound : i <= Sound' => appended'[i] = appended[i]
  /\ ~intact => ~intact' /\ Sound' = Sound

LEMMA SoundIsCount ==
  ASSUME StoreInv
  PROVE  Sound \in Nat /\ Sound \in 0 .. Len(appended) /\ Len(appended) \in Nat
BY LenProperties DEF StoreInv, StoreTypes, Sound

\* The sound records begin the file, as far as it goes; in particular those
\* that were flushed are in it.
LEMMA FlushedInFile ==
  ASSUME StoreInv
  PROVE  /\ flushed \in 0 .. Len(appended)
         /\ Begins(Upto(appended, flushed), file)
<1>0. RecordsAreBytes
  BY AllRecordsAreBytes
<1>1. /\ StoreTypes /\ flushed <= Sound /\ Sound \in 0 .. Len(appended)
      /\ Len(appended) \in Nat
      /\ Len(Upto(appended, flushed)) <= Len(file)
  BY SoundIsCount DEF StoreInv
<1>2. flushed \in 0 .. Len(appended)
  BY <1>1 DEF StoreTypes
<1>3. appended \in Seq(Valid) /\ file \in Seq(Byte) /\ pending \in Seq(Byte)
  BY <1>1 DEF StoreTypes
<1>4. Upto(appended, flushed) \in Seq(Byte)
  BY <1>0, <1>2, <1>3, UptoType
<1>5. /\ Records(appended) \in Seq(Byte)
      /\ Begins(Upto(appended, flushed), Records(appended))
  <2>1. Len(appended) \in 0 .. Len(appended) /\ flushed <= Len(appended)
    BY <1>1, <1>2
  <2>2. Upto(appended, Len(appended)) = Records(appended)
    BY <1>0, <1>3, UptoAll
  <2>3. Begins(Upto(appended, flushed), Upto(appended, Len(appended)))
    BY <1>0, <1>2, <1>3, <2>1, UptoBegins
  <2> QED
    BY <1>0, <1>3, <2>2, <2>3, RecordsType
<1>6. CASE ~intact
  <2>1. /\ sound \in 0 .. Len(appended) /\ flushed <= sound
        /\ Begins(Upto(appended, sound), file)
    BY <1>1, <1>6 DEF StoreInv, Sound
  <2>2. Begins(Upto(appended, flushed), Upto(appended, sound))
    BY <1>0, <1>2, <1>3, <2>1, UptoBegins
  <2>3. Upto(appended, sound) \in Seq(Byte)
    BY <1>0, <1>3, <2>1, UptoType
  <2>4. Begins(Upto(appended, flushed), file)
    BY <1>3, <1>4, <2>1, <2>2, <2>3, BeginsTransitive
  <2> QED
    BY <1>2, <2>4
<1>7. CASE intact /\ store = "open"
  <2>1. file \o pending = Records(appended)
    BY <1>7 DEF StoreInv
  <2>2. Begins(file, Records(appended))
    BY <1>3, <2>1, BeginsConcat
  <2>3. Begins(Upto(appended, flushed), file)
    BY <1>1, <1>3, <1>4, <1>5, <2>2, BeginsShorter
  <2> QED
    BY <1>2, <2>3
<1>8. CASE intact /\ store # "open"
  <2>1. Begins(Records(appended), file)
    BY <1>8 DEF StoreInv, Torn
  <2>2. Begins(Upto(appended, flushed), file)
    BY <1>3, <1>4, <1>5, <2>1, BeginsTransitive
  <2> QED
    BY <1>2, <2>2
<1> QED
  BY <1>1, <1>6, <1>7, <1>8 DEF StoreTypes

-----------------------------------------------------------------------------
(***************************************************************************)
(* The steps of the store.                                                 *)
(***************************************************************************)
LEMMA InitStore ==
  ASSUME Init
  PROVE  StoreInv
<1>1. /\ file = <<>> /\ store = "closed" /\ pending = <<>>
      /\ appended = <<>> /\ flushed = 0 /\ intact = TRUE /\ sound = 0
  BY DEF Init
<1>2. StoreTypes
  BY <1>1 DEF StoreTypes
<1>3. appended \in Seq(Valid) /\ Len(appended) = 0 /\ Sound = 0 /\ Len(file) = 0
  BY <1>1 DEF Sound
<1>4. Records(appended) = <<>> /\ Len(Upto(appended, 0)) = 0
  BY <1>3, RecordsEmpty, UptoZero, AllRecordsAreBytes
<1>5. Torn(file, appended)
  BY <1>1, <1>4 DEF Torn, Begins
<1> QED
  BY <1>1, <1>2, <1>3, <1>4, <1>5 DEF StoreInv

LEMMA OpenKeeps ==
  ASSUME StoreInv, Open
  PROVE  StoreInv' /\ Moves
<1>1. /\ store = "closed" /\ store' = "open" /\ file' = file /\ pending' = pending
      /\ appended' = appended /\ flushed' = flushed
      /\ intact' = (intact /\ file = Records(appended))
      /\ sound' = IF intact THEN Len(appended) ELSE sound
  BY DEF Open
<1>2. /\ StoreTypes /\ Sound \in Nat /\ Sound \in 0 .. Len(appended)
      /\ Len(appended) \in Nat
  BY SoundIsCount DEF StoreInv
<1>3. pending = <<>> /\ file \in Seq(Byte) /\ appended \in Seq(Valid)
      /\ intact \in BOOLEAN
  BY <1>1, <1>2 DEF StoreTypes
<1>4. StoreTypes'
  BY <1>1, <1>2 DEF StoreTypes
<1>5. Sound' = Sound
  BY <1>1 DEF Sound
<1>6. (~intact)' => Begins(Upto(appended, sound), file)'
  <2>1. CASE intact
    <3>1. Torn(file, appended)
      BY <1>1, <2>1 DEF StoreInv
    <3>2. Upto(appended, Len(appended)) = Records(appended)
      BY <1>3, UptoAll, AllRecordsAreBytes
    <3> QED
      BY <1>1, <2>1, <3>1, <3>2 DEF Torn
  <2>2. CASE ~intact
    BY <1>1, <2>2 DEF StoreInv
  <2> QED
    BY <2>1, <2>2
<1>7. intact' => (file \o pending = Records(appended))'
  BY <1>1, <1>3, ConcatEmptySeq
<1>8. StoreInv'
  BY <1>1, <1>4, <1>5, <1>6, <1>7 DEF StoreInv
<1>9. Moves
  <2>1. Len(file) <= Len(file')
    <3>1. Len(file) \in Nat
      BY <1>3, LenProperties
    <3> QED
      BY <1>1, <3>1
  <2>2. \A j \in 0 .. Sound : Len(Upto(appended, j)) <= Len(file) => j <= Sound'
    BY <1>2, <1>5
  <2>3. \A i \in 1 .. Sound : i <= Sound' => appended'[i] = appended[i]
    BY <1>1
  <2>4. ~intact => ~intact' /\ Sound' = Sound
    BY <1>1, <1>5
  <2> QED
    BY <2>1, <2>2, <2>3, <2>4 DEF Moves
<1> QED
  BY <1>8, <1>9

\* The first k of some bytes reach the file.
LEMMA PassFacts ==
  ASSUME NEW f \in Seq(Byte), NEW b \in Seq(Byte), NEW k \in 0 .. Len(b)
  PROVE  /\ f \o SubSeq(b, 1, k) \in Seq(Byte)
         /\ SubSeq(b, k + 1, Len(b)) \in Seq(Byte)
         /\ Begins(f, f \o SubSeq(b, 1, k))
         /\ Len(f \o SubSeq(b, 1, k)) = Len(f) + k
         /\ (f \o SubSeq(b, 1, k)) \o SubSeq(b, k + 1, Len(b)) = f \o b
         /\ Begins(f \o SubSeq(b, 1, k), f \o b)
         /\ f \o b \in Seq(Byte) /\ Len(f \o b) = Len(f) + Len(b)
<1> DEFINE n == Len(b)
           s == SubSeq(b, 1, k)
           t == SubSeq(b, k + 1, n)
<1>1. n \in Nat /\ k \in Nat /\ k <= n /\ Len(f) \in Nat
  BY LenProperties
<1>2. \A i \in 1 .. n : b[i] \in Byte
  BY ElementOfSeq
<1>3. s \in Seq(Byte) /\ Len(s) = k
  <2>1. \A i \in 1 .. k : b[i] \in Byte
    BY <1>1, <1>2
  <2> QED
    BY <1>1, <2>1, SubSeqProperties
<1>4. t \in Seq(Byte)
  <2>1. \A i \in k + 1 .. n : b[i] \in Byte
    BY <1>1, <1>2
  <2> QED
    BY <1>1, <2>1, SubSeqProperties
<1>5. s \o t = b
  <2>1. 1 \in 1 .. Len(b) + 1 /\ k \in 1 - 1 .. Len(b) /\ n \in k .. Len(b)
    BY <1>1
  <2>2. s \o t = SubSeq(b, 1, n)
    BY <2>1, ConcatAdjacentSubSeq
  <2> QED
    BY <2>2, SubSeqFull
<1> HIDE DEF n, s, t
<1>6. f \o s \in Seq(Byte) /\ Len(f \o s) = Len(f) + k /\ Begins(f, f \o s)
  BY <1>3, ConcatProperties, BeginsConcat
<1>7. (f \o s) \o t = f \o b
  <2>1. (f \o s) \o t = f \o (s \o t)
    BY <1>3, <1>4, ConcatAssociative
  <2> QED
    BY <1>5, <2>1
<1>8. Begins(f \o s, f \o b)
  BY <1>4, <1>6, <1>7, BeginsConcat
<1>9. f \o b \in Seq(Byte) /\ Len(f \o b) = Len(f) + Len(b)
  BY ConcatProperties
<1> QED
  BY <1>4, <1>6, <1>7, <1>8, <1>9 DEF n, s, t

\* A store that ends, in a failed write or with its process, keeps the events
\* whose records are whole.
LEMMA KeptKeeps ==
  ASSUME StoreInv, file' \in Seq(Byte), Begins(file, file'),
         appended' = SubSeq(appended, 1, KeptCount(appended, Len(file'))),
         intact => Written(file', appended),
         flushed' = flushed, sound' = sound, intact' = intact,
         store' \in {"closed", "failed"}, pending' = <<>>
  PROVE  StoreInv' /\ Moves
<1> DEFINE m == KeptCount(appended, Len(file'))
<1>0. RecordsAreBytes
  BY AllRecordsAreBytes
<1>1. /\ StoreTypes /\ Sound \in Nat /\ Sound \in 0 .. Len(appended)
      /\ Len(appended) \in Nat /\ flushed <= Sound
      /\ flushed \in 0 .. Len(appended)
      /\ Len(Upto(appended, flushed)) <= Len(file)
  BY SoundIsCount, FlushedInFile DEF StoreInv
<1>2. /\ file \in Seq(Byte) /\ appended \in Seq(Valid) /\ intact \in BOOLEAN
      /\ flushed \in Nat /\ sound \in Nat
  BY <1>1 DEF StoreTypes
<1>3. Len(file) \in Nat /\ Len(file') \in Nat /\ Len(file) <= Len(file')
  BY <1>2, LenProperties DEF Begins
<1>4. /\ m \in 0 .. Len(appended)
      /\ \A i \in 0 .. Len(appended) : Len(Upto(appended, i)) <= Len(file') => i <= m
  BY <1>2, <1>3, KeptFacts
<1>5. appended' = SubSeq(appended, 1, m)
  OBVIOUS
<1> HIDE DEF m
<1>6. /\ appended' \in Seq(Valid) /\ Len(appended') = m
      /\ \A i \in 1 .. m : appended'[i] = appended[i]
  BY <1>0, <1>2, <1>4, <1>5, UptoType
<1>7. \A j \in 0 .. Len(appended) : Len(Upto(appended, j)) <= Len(file) => j <= m
  <2> SUFFICES ASSUME NEW j \in 0 .. Len(appended), Len(Upto(appended, j)) <= Len(file)
               PROVE  j <= m
    OBVIOUS
  <2>1. Len(Upto(appended, j)) \in Nat
    BY <1>0, <1>2, UptoType
  <2>2. Len(Upto(appended, j)) <= Len(file')
    BY <1>3, <2>1
  <2> QED
    BY <1>4, <2>2
<1>8. flushed <= m
  BY <1>1, <1>7
<1>9. \A j \in 0 .. m : Upto(appended', j) = Upto(appended, j)
  <2> SUFFICES ASSUME NEW j \in 0 .. m PROVE Upto(appended, j) = Upto(appended', j)
    OBVIOUS
  <2>1. /\ j \in 0 .. Len(appended) /\ j <= Len(appended')
        /\ \A i \in 1 .. j : appended[i] = appended'[i]
    BY <1>1, <1>4, <1>6
  <2> QED
    BY <1>0, <1>2, <1>6, <2>1, UptoAgree
<1>10. ASSUME ~intact
       PROVE  /\ sound \in 0 .. m /\ sound = Sound /\ Sound' = sound
              /\ Begins(Upto(appended, sound), file)
  <2>1. /\ sound = Sound /\ Sound' = sound
        /\ Begins(Upto(appended, sound), file)
    BY <1>10 DEF StoreInv, Sound
  <2>2. Len(Upto(appended, sound)) <= Len(file)
    BY <2>1 DEF Begins
  <2>3. sound <= m
    BY <1>1, <1>7, <2>1, <2>2
  <2> QED
    BY <1>2, <2>1, <2>3, <1>4
<1>11. intact => Sound' = m
  BY <1>6 DEF Sound
<1>12. StoreTypes'
  BY <1>2, <1>6 DEF StoreTypes
<1>13. flushed' <= Sound' /\ Sound' <= Len(appended')
  <2>1. CASE intact
    BY <1>4, <1>6, <1>8, <1>11, <2>1
  <2>2. CASE ~intact
    BY <1>1, <1>6, <1>10, <2>2
  <2> QED
    BY <2>1, <2>2
<1>14. Len(Upto(appended', flushed')) <= Len(file')
  <2>1. flushed \in 0 .. m /\ Len(Upto(appended, flushed)) \in Nat
    BY <1>0, <1>1, <1>2, <1>4, <1>8, UptoType
  <2>2. Upto(appended', flushed') = Upto(appended, flushed)
    BY <1>9, <2>1
  <2> QED
    BY <1>1, <1>3, <2>1, <2>2
<1>15. (~intact => Begins(Upto(appended, sound), file))'
  <2> SUFFICES ASSUME ~intact PROVE Begins(Upto(appended', sound'), file')
    OBVIOUS
  <2>1. Upto(appended', sound') = Upto(appended, sound)
    BY <1>9, <1>10
  <2>2. Upto(appended, sound) \in Seq(Byte)
    <3>1. sound \in 0 .. Len(appended)
      BY <1>1, <1>10
    <3> QED
      BY <1>0, <1>2, <3>1, UptoType
  <2>3. Begins(Upto(appended, sound), file')
    BY <1>2, <1>10, <2>2, BeginsTransitive
  <2> QED
    BY <2>1, <2>3
<1>16. (intact => Torn(file, appended))'
  <2> SUFFICES ASSUME intact PROVE Torn(file', appended')
    OBVIOUS
  <2>1. Written(file', appended)
    OBVIOUS
  <2>2. Torn(file', SubSeq(appended, 1, KeptCount(appended, Len(file'))))
    BY <1>2, <2>1, KeptTorn
  <2> QED
    BY <2>2
<1>17. StoreInv'
  <2>1. store' # "open"
    OBVIOUS
  <2> QED
    BY <1>12, <1>13, <1>14, <1>15, <1>16, <2>1 DEF StoreInv
<1>18. Moves
  <2>1. \A j \in 0 .. Sound : Len(Upto(appended, j)) <= Len(file) => j <= Sound'
    <3>1. CASE intact
      BY <1>1, <1>7, <1>11, <3>1
    <3>2. CASE ~intact
      BY <1>1, <1>10, <3>2
    <3> QED
      BY <3>1, <3>2
  <2>2. \A i \in 1 .. Sound : i <= Sound' => appended'[i] = appended[i]
    <3>1. Sound' <= m
      BY <1>6, <1>13
    <3>2. m \in Nat /\ Sound' \in Nat
      <4>1. CASE intact
        BY <1>4, <1>11, <4>1
      <4>2. CASE ~intact
        BY <1>1, <1>4, <1>10, <4>2
      <4> QED
        BY <4>1, <4>2
    <3> QED
      BY <1>1, <1>6, <3>1, <3>2
  <2>3. ~intact => ~intact' /\ Sound' = Sound
    BY <1>10
  <2> QED
    BY <1>3, <2>1, <2>2, <2>3 DEF Moves
<1> QED
  BY <1>17, <1>18

LEMMA BytesAssociative ==
  ASSUME NEW s \in Seq(Byte), NEW t \in Seq(Byte), NEW u \in Seq(Byte)
  PROVE  (s \o t) \o u = s \o (t \o u)
BY ConcatAssociative

LEMMA CrashKeeps ==
  ASSUME StoreInv, Crash
  PROVE  StoreInv' /\ Moves
<1>1. /\ store # "closed" /\ store' = "closed" /\ pending' = <<>> /\ file' = file
      /\ appended' = Kept(Len(file))
      /\ flushed' = flushed /\ intact' = intact /\ sound' = sound
  BY DEF Crash
<1>2. StoreTypes /\ file \in Seq(Byte) /\ pending \in Seq(Byte)
  BY DEF StoreInv, StoreTypes
<1>3. appended' = SubSeq(appended, 1, KeptCount(appended, Len(file')))
  BY <1>1 DEF Kept, KeptCount, Upto
<1>4. file' \in Seq(Byte) /\ Begins(file, file')
  BY <1>1, <1>2, BeginsItself
<1>5. intact => Written(file', appended)
  <2>1. CASE intact /\ store = "open"
    <3>1. file \o pending = Records(appended)
      BY <2>1 DEF StoreInv
    <3> QED
      BY <1>1, <1>2, <3>1, BeginsConcat DEF Written
  <2>2. CASE intact /\ store # "open"
    <3>1. Torn(file, appended)
      BY <2>2 DEF StoreInv
    <3>2. Begins(file, file)
      BY <1>2, BeginsItself
    <3> QED
      BY <1>1, <3>1, <3>2 DEF Torn, Written
  <2> QED
    BY <2>1, <2>2
<1> QED
  BY <1>1, <1>3, <1>4, <1>5, KeptKeeps

\* A write that stops part way, whatever bytes it was writing.
LEMMA WriteFailsKeeps ==
  ASSUME StoreInv, NEW b \in Seq(Byte), WriteFails(b),
         intact => \/ file \o b = Records(appended)
                   \/ \E e \in Valid : file \o b = Records(Append(appended, e))
  PROVE  StoreInv' /\ Moves
<1>1. PICK k \in Cuts : /\ k < Len(b)
                        /\ file' = file \o SubSeq(b, 1, k)
                        /\ appended' = Kept(Len(file) + k)
  BY DEF WriteFails
<1>2. /\ pending' = <<>> /\ store' = "failed" /\ flushed' = flushed
      /\ intact' = intact /\ sound' = sound
  BY DEF WriteFails
<1>3. file \in Seq(Byte) /\ appended \in Seq(Valid)
  BY DEF StoreInv, StoreTypes
<1>4. k \in 0 .. Len(b) /\ k \in Nat /\ Len(b) \in Nat /\ Len(file) \in Nat
  <2>1. k \in Nat /\ Len(b) \in Nat /\ Len(file) \in Nat
    BY <1>3, BoundsAssumption, LenProperties
  <2> QED
    BY <1>1, <2>1
<1>5. /\ file' \in Seq(Byte) /\ Begins(file, file') /\ Len(file') = Len(file) + k
      /\ Begins(file', file \o b) /\ Len(file \o b) = Len(file) + Len(b)
  BY <1>1, <1>3, <1>4, PassFacts
<1>6. Len(file') < Len(file \o b)
  BY <1>1, <1>4, <1>5
<1>7. intact => Written(file', appended)
  <2>1. CASE intact /\ file \o b = Records(appended)
    BY <1>5, <2>1 DEF Written
  <2>2. CASE intact /\ \E e \in Valid : file \o b = Records(Append(appended, e))
    BY <1>5, <1>6, <2>2 DEF Written
  <2> QED
    BY <2>1, <2>2
<1>8. appended' = SubSeq(appended, 1, KeptCount(appended, Len(file')))
  BY <1>1, <1>5 DEF Kept, KeptCount, Upto
<1> QED
  BY <1>2, <1>5, <1>7, <1>8, KeptKeeps

LEMMA AppendFailsKeeps ==
  ASSUME StoreInv, NEW e \in Events, AppendFails(e)
  PROVE  StoreInv' /\ Moves
<1>1. /\ store = "open" /\ e \in Valid
      /\ WriteFails(pending \o RecordOf[e])
  BY DEF AppendFails, Valid
<1>2. file \in Seq(Byte) /\ pending \in Seq(Byte) /\ appended \in Seq(Valid)
  BY DEF StoreInv, StoreTypes
<1>3. RecordOf[e] \in Seq(Byte) /\ pending \o RecordOf[e] \in Seq(Byte)
  BY <1>1, <1>2, RecordFacts, ConcatProperties
<1>4. ASSUME intact
      PROVE  file \o (pending \o RecordOf[e]) = Records(Append(appended, e))
  <2>1. file \o pending = Records(appended)
    BY <1>1, <1>4 DEF StoreInv
  <2>2. (file \o pending) \o RecordOf[e] = file \o (pending \o RecordOf[e])
    BY <1>2, <1>3, BytesAssociative, Zenon
  <2> QED
    BY <1>1, <1>2, <2>1, <2>2, RecordsAppend
<1> QED
  BY <1>1, <1>3, <1>4, WriteFailsKeeps

LEMMA FlushFailsKeeps ==
  ASSUME StoreInv, FlushFails
  PROVE  StoreInv' /\ Moves
<1>1. store = "open" /\ WriteFails(pending) /\ pending \in Seq(Byte)
  BY DEF FlushFails, StoreInv, StoreTypes
<1>2. intact => file \o pending = Records(appended)
  BY <1>1 DEF StoreInv
<1> QED
  BY <1>1, <1>2, WriteFailsKeeps

\* Everything pending reaches the file, and the store stays open or is closed.
LEMMA FlushPendingKeeps ==
  ASSUME StoreInv, store = "open", FlushPending, store' \in {"open", "closed"},
         appended' = appended, intact' = intact, sound' = sound
  PROVE  StoreInv' /\ Moves
<1>0. RecordsAreBytes
  BY AllRecordsAreBytes
<1>1. /\ file' = file \o pending /\ pending' = <<>>
      /\ flushed' = IF intact THEN Len(appended) ELSE flushed
  BY DEF FlushPending
<1>2. /\ file \in Seq(Byte) /\ pending \in Seq(Byte) /\ appended \in Seq(Valid)
      /\ intact \in BOOLEAN /\ sound \in Nat /\ flushed \in Nat
  BY DEF StoreInv, StoreTypes
<1>3. /\ Sound \in Nat /\ Sound \in 0 .. Len(appended) /\ Len(appended) \in Nat
      /\ flushed <= Sound /\ flushed \in 0 .. Len(appended)
      /\ Len(Upto(appended, flushed)) <= Len(file)
  BY SoundIsCount, FlushedInFile DEF StoreInv
<1>4. /\ file' \in Seq(Byte) /\ Begins(file, file')
      /\ Len(file) <= Len(file') /\ Len(file) \in Nat /\ Len(file') \in Nat
  <2>1. file' \in Seq(Byte) /\ Begins(file, file')
    BY <1>1, <1>2, ConcatProperties, BeginsConcat
  <2> QED
    BY <1>2, <2>1, LenProperties DEF Begins
<1>5. StoreTypes'
  BY <1>1, <1>2, <1>3, <1>4 DEF StoreTypes
<1>6. Sound' = Sound
  BY DEF Sound
<1>7. intact => file' = Records(appended)
  BY <1>1 DEF StoreInv
<1>8. flushed' <= Sound'
  <2>1. CASE intact
    BY <1>1, <1>3, <1>6, <2>1 DEF Sound
  <2>2. CASE ~intact
    BY <1>1, <1>3, <1>6, <2>2
  <2> QED
    BY <2>1, <2>2
<1>9. Len(Upto(appended', flushed')) <= Len(file')
  <2>1. CASE intact
    <3>1. Upto(appended', flushed') = file'
      BY <1>0, <1>1, <1>2, <1>7, <2>1, UptoAll
    <3> QED
      BY <1>4, <3>1
  <2>2. CASE ~intact
    <3>1. Len(Upto(appended, flushed)) \in Nat
      BY <1>0, <1>2, <1>3, UptoType
    <3> QED
      BY <1>1, <1>3, <1>4, <2>2, <3>1
  <2> QED
    BY <2>1, <2>2
<1>10. (~intact)' => Begins(Upto(appended', sound'), file')
  <2> SUFFICES ASSUME ~intact PROVE Begins(Upto(appended, sound), file')
    OBVIOUS
  <2>1. Begins(Upto(appended, sound), file) /\ Sound = sound
    BY DEF StoreInv, Sound
  <2>2. Upto(appended, sound) \in Seq(Byte)
    BY <1>0, <1>2, <1>3, <2>1, UptoType
  <2> QED
    BY <1>2, <1>4, <2>1, <2>2, BeginsTransitive
<1>11. intact' => file' \o pending' = Records(appended')
  BY <1>1, <1>4, <1>7, ConcatEmptySeq
<1>12. intact' => Torn(file', appended')
  BY <1>4, <1>7, BeginsItself DEF Torn
<1>13. StoreInv'
  BY <1>3, <1>5, <1>6, <1>8, <1>9, <1>10, <1>11, <1>12 DEF StoreInv
<1>14. Moves
  <2>1. \A j \in 0 .. Sound : Len(Upto(appended, j)) <= Len(file) => j <= Sound'
    BY <1>3, <1>6
  <2>2. \A i \in 1 .. Sound : i <= Sound' => appended'[i] = appended[i]
    OBVIOUS
  <2>3. ~intact => ~intact' /\ Sound' = Sound
    BY <1>6
  <2> QED
    BY <1>4, <2>1, <2>2, <2>3 DEF Moves
<1> QED
  BY <1>13, <1>14

LEMMA FlushKeeps ==
  ASSUME StoreInv, Flush
  PROVE  StoreInv' /\ Moves
<1>1. /\ store = "open" /\ FlushPending /\ store' = store
      /\ appended' = appended /\ intact' = intact /\ sound' = sound
  BY DEF Flush
<1> QED
  BY <1>1, FlushPendingKeeps

LEMMA CloseKeeps ==
  ASSUME StoreInv, Close
  PROVE  StoreInv' /\ Moves
<1>1. /\ store = "open" /\ FlushPending /\ store' = "closed"
      /\ appended' = appended /\ intact' = intact /\ sound' = sound
  BY DEF Close
<1> QED
  BY <1>1, FlushPendingKeeps

LEMMA AppendKeeps ==
  ASSUME StoreInv, NEW e \in Events, AppendEvent(e)
  PROVE  StoreInv' /\ Moves
<1> DEFINE b == pending \o RecordOf[e]
<1>0. RecordsAreBytes
  BY AllRecordsAreBytes
<1>1. /\ store = "open" /\ store' = store /\ e \in Valid
      /\ appended' = Append(appended, e)
      /\ flushed' = flushed /\ intact' = intact /\ sound' = sound
  BY DEF AppendEvent, Valid
<1>2. /\ file \in Seq(Byte) /\ pending \in Seq(Byte) /\ appended \in Seq(Valid)
      /\ intact \in BOOLEAN /\ sound \in Nat /\ flushed \in Nat
  BY DEF StoreInv, StoreTypes
<1>3. /\ Sound \in Nat /\ Sound \in 0 .. Len(appended) /\ Len(appended) \in Nat
      /\ flushed <= Sound /\ flushed \in 0 .. Len(appended)
      /\ Len(Upto(appended, flushed)) <= Len(file)
  BY SoundIsCount, FlushedInFile DEF StoreInv
<1>4. RecordOf[e] \in Seq(Byte) /\ b \in Seq(Byte) /\ Len(b) \in Nat
  BY <1>1, <1>2, RecordFacts, ConcatProperties, LenProperties
<1>5. PICK k \in 0 .. Len(b) : /\ file' = file \o SubSeq(b, 1, k)
                               /\ pending' = SubSeq(b, k + 1, Len(b))
  <2>1. \E k \in Cuts \cup {Len(b)} : k <= Len(b) /\ Pass(b, k)
    BY DEF AppendEvent
  <2>2. PICK k \in Cuts \cup {Len(b)} : k <= Len(b) /\ Pass(b, k)
    BY <2>1
  <2>3. k \in 0 .. Len(b)
    BY <1>4, <2>2, BoundsAssumption
  <2> QED
    BY <2>2, <2>3 DEF Pass
<1> HIDE DEF b
<1>6. /\ file' \in Seq(Byte) /\ pending' \in Seq(Byte) /\ Begins(file, file')
      /\ file' \o pending' = file \o b
  BY <1>2, <1>4, <1>5, PassFacts
<1>7. Len(file) <= Len(file') /\ Len(file) \in Nat /\ Len(file') \in Nat
  BY <1>2, <1>6, LenProperties DEF Begins
<1>8. /\ appended' \in Seq(Valid) /\ Len(appended') = Len(appended) + 1
      /\ \A i \in 1 .. Len(appended) : appended'[i] = appended[i]
  BY <1>1, <1>2, AppendProperties
<1>9. StoreTypes'
  BY <1>1, <1>2, <1>6, <1>8 DEF StoreTypes
<1>10. /\ intact => Sound' = Sound + 1 /\ Sound = Len(appended)
       /\ ~intact => Sound' = Sound /\ Sound = sound
  BY <1>1, <1>8 DEF Sound
<1>11. Sound \in Nat /\ Sound' \in Nat /\ Sound <= Sound' /\ Sound' <= Len(appended')
  <2>1. CASE intact
    BY <1>3, <1>8, <1>10, <2>1
  <2>2. CASE ~intact
    BY <1>3, <1>8, <1>10, <2>2
  <2> QED
    BY <2>1, <2>2
<1>12. \A j \in 0 .. Len(appended) : Upto(appended', j) = Upto(appended, j)
  <2> SUFFICES ASSUME NEW j \in 0 .. Len(appended)
               PROVE  Upto(appended, j) = Upto(appended', j)
    OBVIOUS
  <2>1. j <= Len(appended') /\ \A i \in 1 .. j : appended[i] = appended'[i]
    BY <1>3, <1>8
  <2> QED
    BY <1>0, <1>2, <1>8, <2>1, UptoAgree
<1>13. Len(Upto(appended', flushed')) <= Len(file')
  <2>1. Len(Upto(appended, flushed)) \in Nat
    BY <1>0, <1>2, <1>3, UptoType
  <2>2. Upto(appended', flushed') = Upto(appended, flushed)
    BY <1>1, <1>3, <1>12
  <2> QED
    BY <1>3, <1>7, <2>1, <2>2
<1>14. (~intact)' => Begins(Upto(appended', sound'), file')
  <2> SUFFICES ASSUME ~intact PROVE Begins(Upto(appended', sound'), file')
    BY <1>1
  <2>1. Begins(Upto(appended, sound), file) /\ sound \in 0 .. Len(appended)
    BY <1>3, <1>10 DEF StoreInv
  <2>2. Upto(appended, sound) \in Seq(Byte)
    BY <1>0, <1>2, <2>1, UptoType
  <2>3. Upto(appended', sound') = Upto(appended, sound)
    BY <1>1, <1>12, <2>1
  <2> QED
    BY <1>2, <1>6, <2>1, <2>2, <2>3, BeginsTransitive
<1>15. intact' => file' \o pending' = Records(appended')
  <2> SUFFICES ASSUME intact PROVE file' \o pending' = Records(appended')
    BY <1>1
  <2>1. file \o pending = Records(appended)
    BY <1>1 DEF StoreInv
  <2>2. (file \o pending) \o RecordOf[e] = file \o b
    BY <1>2, <1>4, BytesAssociative, Zenon DEF b
  <2> QED
    BY <1>1, <1>2, <1>6, <2>1, <2>2, RecordsAppend
<1>16. flushed' <= Sound'
  BY <1>1, <1>2, <1>3, <1>11
<1>17. StoreInv'
  BY <1>1, <1>9, <1>11, <1>13, <1>14, <1>15, <1>16 DEF StoreInv
<1>18. Moves
  <2>1. \A j \in 0 .. Sound : Len(Upto(appended, j)) <= Len(file) => j <= Sound'
    BY <1>11
  <2>2. \A i \in 1 .. Sound : i <= Sound' => appended'[i] = appended[i]
    BY <1>3, <1>8
  <2>3. ~intact => ~intact' /\ Sound' = Sound
    BY <1>1, <1>10
  <2> QED
    BY <1>7, <2>1, <2>2, <2>3 DEF Moves
<1> QED
  BY <1>17, <1>18

-----------------------------------------------------------------------------
(***************************************************************************)
(* The source.                                                             *)
(***************************************************************************)

\* The events that some bytes stand for.
Decodable == {Deserialize(data) : data \in Seq(Byte)} \ {Malformed}

Sources ==
  [stream : {"good", "failed"}, offset : Nat, exhausted : BOOLEAN,
   delivered : Seq(Decodable), threw : BOOLEAN]

\* The source stands behind the record of the last event it delivered, while
\* these are sound; it may be further on only in a damaged file.
OnTrack(r) ==
  /\ Len(r.delivered) <= Sound
  /\ r.offset = Len(Upto(appended, Len(r.delivered)))

BehindDamage(r) ==
  /\ ~intact
  /\ Len(r.delivered) >= Sound
  /\ r.offset >= Len(Upto(appended, Sound))

SourceInv(r) ==
  /\ r \in Sources
  /\ r.offset <= Len(file)
  /\ \A i \in 1 .. Len(r.delivered) : i <= Sound => r.delivered[i] = appended[i]
  /\ OnTrack(r) \/ BehindDamage(r)
  /\ r.stream = "failed" => r.threw

\* What a source that ended without an exception has delivered.
Finished(r) == (r.exhausted /\ ~r.threw) => file = Records(r.delivered)

LEMMA DecodableIsValid ==
  ASSUME NEW e \in Decodable
  PROVE  IsValidEvent(e)
BY DecodedIsValid DEF Decodable

LEMMA ValidIsDecodable ==
  ASSUME NEW e \in Valid
  PROVE  e \in Decodable
<1>1. e \in Events /\ IsValidEvent(e)
  BY DEF Valid
<1>2. e.type \in Types /\ e \in MarketEvent(e.type)
  BY <1>1, EventsAssumption
<1>3. Serialize(e) \in Seq(Byte) /\ Deserialize(Serialize(e)) = e
  BY <1>1, <1>2, DecodedIsEncoded
<1>4. e # Malformed
  <2>1. e.type # "Malformed"
    BY <1>2 DEF Types
  <2> QED
    BY <2>1 DEF Malformed
<1> QED
  BY <1>3, <1>4 DEF Decodable

\* Some records and the file: one is the beginning of the other.
LEMMA FileOrRecords ==
  ASSUME StoreInv, NEW k \in 0 .. Sound
  PROVE  /\ k \in 0 .. Len(appended) /\ Upto(appended, k) \in Seq(Byte)
         /\ \/ Begins(Upto(appended, k), file)
            \/ Begins(file, Upto(appended, k))
<1>0. RecordsAreBytes
  BY AllRecordsAreBytes
<1>1. /\ Sound \in Nat /\ Sound \in 0 .. Len(appended) /\ Len(appended) \in Nat
      /\ k \in 0 .. Len(appended)
  BY SoundIsCount
<1>2. file \in Seq(Byte) /\ pending \in Seq(Byte) /\ appended \in Seq(Valid)
  BY DEF StoreInv, StoreTypes
<1>3. Upto(appended, k) \in Seq(Byte)
  BY <1>0, <1>1, <1>2, UptoType
<1>4. /\ Records(appended) \in Seq(Byte)
      /\ Begins(Upto(appended, k), Records(appended))
  <2>1. Len(appended) \in 0 .. Len(appended) /\ k <= Len(appended)
    BY <1>1
  <2>2. Upto(appended, Len(appended)) = Records(appended)
    BY <1>0, <1>2, UptoAll
  <2>3. Begins(Upto(appended, k), Upto(appended, Len(appended)))
    BY <1>0, <1>1, <1>2, <2>1, UptoBegins
  <2> QED
    BY <1>0, <1>2, <2>2, <2>3, RecordsType
<1>5. CASE ~intact
  <2>1. /\ sound = Sound /\ sound \in 0 .. Len(appended) /\ k <= sound
        /\ Begins(Upto(appended, sound), file)
    BY <1>1, <1>5 DEF StoreInv, Sound
  <2>2. Begins(Upto(appended, k), Upto(appended, sound))
    BY <1>0, <1>1, <1>2, <2>1, UptoBegins
  <2>3. Upto(appended, sound) \in Seq(Byte)
    BY <1>0, <1>2, <2>1, UptoType
  <2>4. Begins(Upto(appended, k), file)
    BY <1>2, <1>3, <2>1, <2>2, <2>3, BeginsTransitive
  <2> QED
    BY <1>1, <1>3, <2>4
<1>6. CASE intact /\ store = "open"
  <2>1. file \o pending = Records(appended)
    BY <1>6 DEF StoreInv
  <2>2. Begins(file, Records(appended))
    BY <1>2, <2>1, BeginsConcat
  <2>3. CASE Len(file) <= Len(Upto(appended, k))
    BY <1>1, <1>2, <1>3, <1>4, <2>2, <2>3, BeginsShorter
  <2>4. CASE Len(Upto(appended, k)) <= Len(file)
    BY <1>1, <1>2, <1>3, <1>4, <2>2, <2>4, BeginsShorter
  <2>5. Len(Upto(appended, k)) \in Nat /\ Len(file) \in Nat
    BY <1>2, <1>3, LenProperties
  <2> QED
    BY <2>3, <2>4, <2>5
<1>7. CASE intact /\ store # "open"
  <2>1. Begins(Records(appended), file)
    BY <1>7 DEF StoreInv, Torn
  <2>2. Begins(Upto(appended, k), file)
    BY <1>2, <1>3, <1>4, <2>1, BeginsTransitive
  <2> QED
    BY <1>1, <1>3, <2>2
<1> QED
  BY <1>5, <1>6, <1>7

\* Where u and the file agree on the beginning, they agree on its slices.
LEMMA CommonSlice ==
  ASSUME NEW f \in Seq(Byte), NEW u \in Seq(Byte), Begins(u, f) \/ Begins(f, u),
         NEW i \in Nat \ {0}, NEW w \in Nat,
         i + w - 1 <= Len(f), i + w - 1 <= Len(u)
  PROVE  Slice(f, i, w) = Slice(u, i, w)
<1>1. CASE Begins(u, f)
  BY <1>1, SliceOfBeginning
<1>2. CASE Begins(f, u)
  <2>1. Slice(u, i, w) = Slice(f, i, w)
    BY <1>2, SliceOfBeginning
  <2> QED
    BY <2>1
<1> QED
  BY <1>1, <1>2

\* The record behind s, in a file that has what precedes it and perhaps a part
\* of it: its length can be read when there are four bytes, its data when all are
\* there.
LEMMA RecordBehind ==
  ASSUME NEW f \in Seq(Byte), NEW s \in Seq(Byte), NEW e \in Valid,
         \/ Begins(s \o RecordOf[e], f)
         \/ Begins(f, s \o RecordOf[e]),
         Len(s) <= Len(f)
  PROVE  /\ Len(f) - Len(s) >= 4 =>
              ReadU32(Slice(f, Len(s) + 1, 4)) = Len(Serialize(e))
         /\ Len(f) - Len(s) >= 4 + Len(Serialize(e)) =>
              Slice(f, Len(s) + 5, Len(Serialize(e))) = Serialize(e)
<1> DEFINE data == Serialize(e)
           rec == RecordOf[e]
           u == s \o rec
<1>1. /\ rec \in Seq(Byte) /\ Len(rec) = 4 + Len(data) /\ Len(data) \in Nat
      /\ ReadU32(Slice(rec, 1, 4)) = Len(data)
      /\ Slice(rec, 5, Len(data)) = data
  BY RecordFacts
<1>2. Begins(u, f) \/ Begins(f, u)
  OBVIOUS
<1> HIDE DEF data, rec
<1>3. /\ u \in Seq(Byte) /\ Len(u) = Len(s) + 4 + Len(data)
      /\ Len(s) \in Nat /\ Len(f) \in Nat
  <2>1. u \in Seq(Byte) /\ Len(u) = Len(s) + Len(rec)
    BY <1>1, ConcatProperties
  <2>2. Len(s) \in Nat /\ Len(f) \in Nat
    BY LenProperties
  <2> QED
    BY <1>1, <2>1, <2>2
<1>4. Slice(u, Len(s) + 1, 4) = Slice(rec, 1, 4)
  <2>1. 1 \in Nat \ {0} /\ 1 + 4 - 1 <= Len(rec)
    BY <1>1
  <2> QED
    BY <1>1, <2>1, SliceBehind
<1>5. Slice(u, Len(s) + 5, Len(data)) = Slice(rec, 5, Len(data))
  <2>1. 5 \in Nat \ {0} /\ 5 + Len(data) - 1 <= Len(rec)
    BY <1>1
  <2> QED
    BY <1>1, <2>1, SliceBehind
<1> HIDE DEF u
<1>6. ASSUME Len(f) - Len(s) >= 4
      PROVE  ReadU32(Slice(f, Len(s) + 1, 4)) = Len(data)
  <2>1. PICK i \in Nat \ {0} : i = Len(s) + 1
    BY <1>3
  <2>2. i + 4 - 1 <= Len(f) /\ i + 4 - 1 <= Len(u)
    BY <1>1, <1>3, <1>6, <2>1
  <2>3. Slice(f, i, 4) = Slice(u, i, 4)
    <3>1. PICK w \in Nat : w = 4
      OBVIOUS
    <3>2. i + w - 1 <= Len(f) /\ i + w - 1 <= Len(u)
      BY <2>2, <3>1
    <3>3. Slice(f, i, w) = Slice(u, i, w)
      BY <1>2, <1>3, <3>2, CommonSlice
    <3> QED
      BY <3>1, <3>3
  <2> QED
    BY <1>1, <1>4, <2>1, <2>3
<1>7. ASSUME Len(f) - Len(s) >= 4 + Len(data)
      PROVE  Slice(f, Len(s) + 5, Len(data)) = data
  <2>1. PICK i \in Nat \ {0} : i = Len(s) + 5
    BY <1>3
  <2>2. i + Len(data) - 1 <= Len(f) /\ i + Len(data) - 1 <= Len(u)
    BY <1>1, <1>3, <1>7, <2>1
  <2>3. Slice(f, i, Len(data)) = Slice(u, i, Len(data))
    BY <1>1, <1>2, <1>3, <2>2, CommonSlice
  <2> QED
    BY <1>1, <1>5, <2>1, <2>3
<1> QED
  BY <1>6, <1>7 DEF data

\* A source that stands before a sound record finds it, when the file has it.
LEMMA SoundRecordIsRead ==
  ASSUME StoreInv, NEW r, SourceInv(r), OnTrack(r), Len(r.delivered) < Sound,
         ~RunsOut(r)
  PROVE  LET e == appended[Len(r.delivered) + 1]
         IN  /\ e \in Valid
             /\ Deserialize(RecordData(r)) = e
             /\ r.offset + 4 + RecordSize(r)
                  = Len(Upto(appended, Len(r.delivered) + 1))
<1> DEFINE d == Len(r.delivered)
           e == appended[d + 1]
           s == Upto(appended, d)
<1>0. RecordsAreBytes
  BY AllRecordsAreBytes
<1>1. /\ r \in Sources /\ r.offset <= Len(file) /\ r.offset = Len(s)
      /\ r.offset \in Nat /\ r.delivered \in Seq(Decodable)
  BY DEF SourceInv, OnTrack, Sources
<1>2. /\ Sound \in Nat /\ Sound \in 0 .. Len(appended) /\ Len(appended) \in Nat
      /\ file \in Seq(Byte) /\ appended \in Seq(Valid) /\ Len(file) \in Nat
  BY SoundIsCount, LenProperties DEF StoreInv, StoreTypes
<1>3. d \in Nat /\ d < Sound
  BY <1>1, LenProperties
<1>4. d \in 0 .. Len(appended) /\ d < Len(appended) /\ d + 1 \in 0 .. Sound
  BY <1>2, <1>3
<1>5. e \in Valid /\ Upto(appended, d + 1) = s \o RecordOf[e]
  BY <1>0, <1>2, <1>4, UptoStep
<1>6. s \in Seq(Byte)
  BY <1>0, <1>2, <1>4, UptoType
<1>7. \/ Begins(s \o RecordOf[e], file)
      \/ Begins(file, s \o RecordOf[e])
  BY <1>4, <1>5, FileOrRecords
<1> HIDE DEF d, e, s
<1>8. /\ Len(file) - Len(s) >= 4 =>
           ReadU32(Slice(file, Len(s) + 1, 4)) = Len(Serialize(e))
      /\ Len(file) - Len(s) >= 4 + Len(Serialize(e)) =>
           Slice(file, Len(s) + 5, Len(Serialize(e))) = Serialize(e)
  BY <1>1, <1>2, <1>5, <1>6, <1>7, RecordBehind
<1>9. /\ RecordOf[e] \in Seq(Byte) /\ Len(RecordOf[e]) = 4 + Len(Serialize(e))
      /\ Len(Serialize(e)) \in Nat /\ Deserialize(Serialize(e)) = e
  BY <1>5, RecordFacts
<1>10. Len(file) - Len(s) >= 4
  BY <1>1, <1>2 DEF RunsOut, Left
<1>11. RecordSize(r) = Len(Serialize(e))
  BY <1>1, <1>8, <1>10 DEF RecordSize
<1>12. Len(file) - Len(s) >= 4 + Len(Serialize(e))
  <2>1. ~(Left(r) < 4 + RecordSize(r))
    BY DEF RunsOut
  <2> QED
    BY <1>1, <1>2, <1>9, <1>11, <2>1 DEF Left
<1>13. RecordData(r) = Serialize(e)
  BY <1>1, <1>8, <1>11, <1>12 DEF RecordData
<1>14. r.offset + 4 + RecordSize(r) = Len(Upto(appended, d + 1))
  <2>1. Len(s \o RecordOf[e]) = Len(s) + Len(RecordOf[e])
    BY <1>6, <1>9, ConcatProperties
  <2> QED
    BY <1>1, <1>5, <1>9, <1>11, <2>1
<1> QED
  BY <1>5, <1>9, <1>13, <1>14 DEF d, e

\* Before the first damage nothing can be read behind the records appended.
LEMMA NothingBehindIntact ==
  ASSUME StoreInv, intact, NEW r, SourceInv(r), OnTrack(r),
         Len(r.delivered) = Sound
  PROVE  Left(r) = 0 \/ RunsOut(r)
<1> DEFINE s == Records(appended)
<1>0. RecordsAreBytes
  BY AllRecordsAreBytes
<1>1. /\ file \in Seq(Byte) /\ pending \in Seq(Byte) /\ appended \in Seq(Valid)
      /\ Len(file) \in Nat /\ Len(appended) \in Nat
  BY LenProperties DEF StoreInv, StoreTypes
<1>2. s \in Seq(Byte) /\ Len(s) \in Nat
  BY <1>0, <1>1, RecordsType
<1>3. r.offset = Len(s) /\ r.offset <= Len(file)
  <2>1. Len(r.delivered) = Len(appended)
    BY DEF Sound
  <2> QED
    BY <1>0, <1>1, <2>1, UptoAll DEF SourceInv, OnTrack
<1> HIDE DEF s
<1>4. CASE store = "open"
  <2>1. file \o pending = s
    BY <1>4 DEF StoreInv, s
  <2>2. Len(file) <= Len(s)
    <3>1. Begins(file, file \o pending)
      BY <1>1, BeginsConcat
    <3> QED
      BY <2>1, <3>1 DEF Begins
  <2> QED
    BY <1>1, <1>2, <1>3, <2>2 DEF Left
<1>5. CASE store # "open"
  <2>1. Torn(file, appended)
    BY <1>5 DEF StoreInv
  <2>2. CASE file = s
    BY <1>1, <1>2, <1>3, <2>2 DEF Left
  <2>3. CASE file # s
    <3>1. PICK e \in Valid : /\ Begins(file, Records(Append(appended, e)))
                             /\ Len(file) < Len(Records(Append(appended, e)))
      BY <2>1, <2>3 DEF Torn, s
    <3>2. Records(Append(appended, e)) = s \o RecordOf[e]
      BY <1>1, RecordsAppend DEF s
    <3>3. /\ RecordOf[e] \in Seq(Byte) /\ Len(RecordOf[e]) = 4 + Len(Serialize(e))
          /\ Len(Serialize(e)) \in Nat
      BY RecordFacts
    <3>4. Len(file) < Len(s) + 4 + Len(Serialize(e))
      <4>1. Len(s \o RecordOf[e]) = Len(s) + Len(RecordOf[e])
        BY <1>2, <3>3, ConcatProperties
      <4> QED
        BY <1>2, <3>1, <3>2, <3>3, <4>1
    <3>5. Len(file) - Len(s) >= 4 =>
            ReadU32(Slice(file, Len(s) + 1, 4)) = Len(Serialize(e))
      <4>1. Begins(file, s \o RecordOf[e])
        BY <3>1, <3>2
      <4> QED
        BY <1>1, <1>2, <1>3, <4>1, RecordBehind
    <3>6. CASE Len(file) - Len(s) >= 4
      <4>1. RecordSize(r) = Len(Serialize(e))
        BY <1>3, <3>5, <3>6 DEF RecordSize
      <4>2. Left(r) < 4 + RecordSize(r)
        BY <1>1, <1>2, <1>3, <3>3, <3>4, <4>1 DEF Left
      <4> QED
        BY <4>2 DEF RunsOut
    <3>7. CASE ~(Len(file) - Len(s) >= 4)
      BY <1>1, <1>2, <1>3, <3>7 DEF RunsOut, Left
    <3> QED
      BY <3>6, <3>7
  <2> QED
    BY <2>2, <2>3
<1> QED
  BY <1>4, <1>5

LEMMA RecordFits ==
  ASSUME StoreInv, NEW r \in Sources, r.offset <= Len(file), ~RunsOut(r)
  PROVE  /\ RecordSize(r) \in Nat /\ RecordData(r) \in Seq(Byte)
         /\ r.offset + 4 + RecordSize(r) \in Nat
         /\ r.offset + 4 + RecordSize(r) <= Len(file)
         /\ r.offset <= r.offset + 4 + RecordSize(r)
<1>1. file \in Seq(Byte) /\ Len(file) \in Nat /\ r.offset \in Nat
  BY LenProperties DEF StoreInv, StoreTypes, Sources
<1>2. ~(Left(r) < 4) /\ ~(Left(r) < 4 + RecordSize(r))
  BY DEF RunsOut
<1>3. RecordSize(r) \in Nat
  <2>1. PICK i \in Nat \ {0} : i = r.offset + 1
    BY <1>1
  <2>2. i + 4 - 1 <= Len(file)
    BY <1>1, <1>2, <2>1 DEF Left
  <2>3. Slice(file, i, 4) \in Seq(Byte) /\ Len(Slice(file, i, 4)) = 4
    <3>1. PICK w \in Nat : w = 4
      OBVIOUS
    <3>2. i + w - 1 <= Len(file)
      BY <2>2, <3>1
    <3>3. Slice(file, i, w) \in Seq(Byte) /\ Len(Slice(file, i, w)) = w
      BY <1>1, <3>2, SliceType
    <3> QED
      BY <3>1, <3>3
  <2> QED
    BY <2>1, <2>3, ReadIsNatural DEF RecordSize
<1>4. RecordData(r) \in Seq(Byte)
  <2>1. PICK i \in Nat \ {0} : i = r.offset + 5
    BY <1>1
  <2>2. i + RecordSize(r) - 1 <= Len(file)
    BY <1>1, <1>2, <1>3, <2>1 DEF Left
  <2>3. Slice(file, i, RecordSize(r)) \in Seq(Byte)
    BY <1>1, <1>3, <2>2, SliceType
  <2> QED
    BY <2>1, <2>3 DEF RecordData
<1>5. /\ r.offset + 4 + RecordSize(r) \in Nat
      /\ r.offset <= r.offset + 4 + RecordSize(r)
  BY <1>1, <1>3
<1>6. r.offset + 4 + RecordSize(r) <= Len(file)
  BY <1>1, <1>2, <1>3 DEF Left
<1> QED
  BY <1>3, <1>4, <1>5, <1>6

\* A record that does not come from a sound one is behind the damage.
LEMMA UnsoundIsDamage ==
  ASSUME StoreInv, NEW r, SourceInv(r), ~AtEnd(r), ~RunsOut(r),
         ~(OnTrack(r) /\ Len(r.delivered) < Sound)
  PROVE  /\ ~intact /\ Len(r.delivered) >= Sound
         /\ r.offset >= Len(Upto(appended, Sound))
<1>1. Sound \in Nat /\ Len(r.delivered) \in Nat /\ r.offset \in Nat
  BY SoundIsCount, LenProperties DEF SourceInv, Sources
<1>2. CASE BehindDamage(r)
  BY <1>2 DEF BehindDamage
<1>3. CASE OnTrack(r)
  <2>1. Len(r.delivered) = Sound
    BY <1>1, <1>3 DEF OnTrack
  <2>2. ~intact
    BY <1>3, <2>1, NothingBehindIntact DEF AtEnd
  <2> QED
    BY <1>1, <1>3, <2>1, <2>2 DEF OnTrack
<1> QED
  BY <1>2, <1>3 DEF SourceInv

LEMMA NextEventKeeps ==
  ASSUME StoreInv, NEW r, SourceInv(r)
  PROVE  SourceInv(NextEvent(r))
<1>1. /\ r \in Sources /\ r.offset <= Len(file)
      /\ \A i \in 1 .. Len(r.delivered) : i <= Sound => r.delivered[i] = appended[i]
      /\ OnTrack(r) \/ BehindDamage(r)
      /\ r.stream = "failed" => r.threw
  BY DEF SourceInv
<1>2. /\ Sound \in Nat /\ Len(r.delivered) \in Nat /\ r.offset \in Nat
      /\ r.delivered \in Seq(Decodable)
  BY <1>1, SoundIsCount, LenProperties DEF Sources
<1>3. CASE r.exhausted
  BY <1>3 DEF NextEvent
<1>4. CASE ~r.exhausted /\ AtEnd(r)
  <2>1. NextEvent(r) = [r EXCEPT !.exhausted = TRUE]
    BY <1>4 DEF NextEvent
  <2> QED
    BY <1>1, <2>1 DEF SourceInv, OnTrack, BehindDamage, Sources
<1>5. CASE ~r.exhausted /\ ~AtEnd(r) /\ RunsOut(r)
  <2>1. NextEvent(r) = [r EXCEPT !.stream = "failed", !.threw = TRUE]
    BY <1>5 DEF NextEvent
  <2> QED
    BY <1>1, <2>1 DEF SourceInv, OnTrack, BehindDamage, Sources
<1>6. CASE ~r.exhausted /\ ~AtEnd(r) /\ ~RunsOut(r)
  <2> DEFINE e == Deserialize(RecordData(r))
             o == r.offset + 4 + RecordSize(r)
             skipped == [r EXCEPT !.threw = TRUE, !.offset = o]
             read == [r EXCEPT !.offset = o, !.delivered = Append(r.delivered, e)]
  <2>1. /\ e = Malformed => NextEvent(r) = skipped
        /\ e # Malformed => NextEvent(r) = read
    BY <1>6 DEF NextEvent, Skipped
  <2>2. o \in Nat /\ o <= Len(file) /\ r.offset <= o /\ RecordData(r) \in Seq(Byte)
    BY <1>1, <1>6, RecordFits
  <2>3. e # Malformed => e \in Decodable
    BY <2>2 DEF Decodable
  <2>4. CASE OnTrack(r) /\ Len(r.delivered) < Sound
    <3>1. /\ e = appended[Len(r.delivered) + 1] /\ e \in Valid
          /\ o = Len(Upto(appended, Len(r.delivered) + 1))
      BY <1>6, <2>4, SoundRecordIsRead
    <3>2. e # Malformed /\ e \in Decodable
      BY <3>1, ValidIsDecodable DEF Decodable
    <3> HIDE DEF e, o
    <3>3. NextEvent(r) = read
      BY <2>1, <3>2
    <3>4. /\ Append(r.delivered, e) \in Seq(Decodable)
          /\ Len(Append(r.delivered, e)) = Len(r.delivered) + 1
          /\ \A i \in 1 .. Len(r.delivered) : Append(r.delivered, e)[i] = r.delivered[i]
          /\ Append(r.delivered, e)[Len(r.delivered) + 1] = e
      BY <1>2, <3>2, AppendProperties
    <3>5. /\ read \in Sources /\ read.offset = o
          /\ read.delivered = Append(r.delivered, e)
          /\ read.stream = r.stream /\ read.threw = r.threw
      BY <1>1, <2>2, <3>4 DEF Sources
    <3>6. OnTrack(read)
      BY <1>2, <2>4, <3>1, <3>4, <3>5 DEF OnTrack
    <3>7. \A i \in 1 .. Len(read.delivered) : i <= Sound => read.delivered[i] = appended[i]
      <4> TAKE i \in 1 .. Len(read.delivered)
      <4>1. CASE i = Len(r.delivered) + 1
        BY <3>1, <3>4, <3>5, <4>1
      <4>2. CASE i # Len(r.delivered) + 1
        <5>1. i \in 1 .. Len(r.delivered)
          BY <1>2, <3>4, <3>5, <4>2
        <5> QED
          BY <1>1, <3>4, <3>5, <5>1
      <4> QED
        BY <4>1, <4>2
    <3>8. SourceInv(read)
      BY <1>1, <2>2, <3>5, <3>6, <3>7 DEF SourceInv
    <3> QED
      BY <3>3, <3>8
  <2>5. CASE ~(OnTrack(r) /\ Len(r.delivered) < Sound)
    <3>1. /\ ~intact /\ Len(r.delivered) >= Sound
          /\ r.offset >= Len(Upto(appended, Sound))
      BY <1>6, <2>5, UnsoundIsDamage
    <3>2. o >= Len(Upto(appended, Sound))
      <4>1. Len(Upto(appended, Sound)) \in Nat
        BY SoundIsCount, UptoType, AllRecordsAreBytes DEF StoreInv, StoreTypes
      <4> QED
        BY <1>2, <2>2, <3>1, <4>1
    <3> HIDE DEF e, o
    <3>3. CASE e = Malformed
      <4>1. /\ skipped \in Sources /\ skipped.offset = o
            /\ skipped.delivered = r.delivered /\ skipped.threw = TRUE
        BY <1>1, <2>2 DEF Sources
      <4>2. SourceInv(skipped)
        BY <1>1, <2>2, <3>1, <3>2, <4>1 DEF SourceInv, BehindDamage
      <4> QED
        BY <2>1, <3>3, <4>2
    <3>4. CASE e # Malformed
      <4>1. /\ Append(r.delivered, e) \in Seq(Decodable)
            /\ Len(Append(r.delivered, e)) = Len(r.delivered) + 1
            /\ \A i \in 1 .. Len(r.delivered) :
                 Append(r.delivered, e)[i] = r.delivered[i]
        BY <1>2, <2>3, <3>4, AppendProperties
      <4>2. /\ read \in Sources /\ read.offset = o
            /\ read.delivered = Append(r.delivered, e)
            /\ read.stream = r.stream /\ read.threw = r.threw
        BY <1>1, <2>2, <4>1 DEF Sources
      <4>3. BehindDamage(read)
        BY <1>2, <3>1, <3>2, <4>1, <4>2 DEF BehindDamage
      <4>4. \A i \in 1 .. Len(read.delivered) : i <= Sound => read.delivered[i] = appended[i]
        <5> SUFFICES ASSUME NEW i \in 1 .. Len(read.delivered), i <= Sound
                     PROVE  read.delivered[i] = appended[i]
          OBVIOUS
        <5>1. i \in 1 .. Len(r.delivered)
          BY <1>2, <3>1, <4>1, <4>2
        <5> QED
          BY <1>1, <4>1, <4>2, <5>1
      <4>5. SourceInv(read)
        BY <1>1, <2>2, <4>2, <4>3, <4>4 DEF SourceInv
      <4> QED
        BY <2>1, <3>4, <4>5
    <3> QED
      BY <3>3, <3>4
  <2> QED
    BY <2>4, <2>5
<1> QED
  BY <1>3, <1>4, <1>5, <1>6

\* A source that comes to the end before the first damage has delivered the
\* whole file.
LEMMA NextEventFinishes ==
  ASSUME StoreInv, intact, NEW r, SourceInv(r), Finished(r)
  PROVE  Finished(NextEvent(r))
<1>1. /\ r \in Sources /\ r.offset <= Len(file) /\ OnTrack(r)
      /\ \A i \in 1 .. Len(r.delivered) : i <= Sound => r.delivered[i] = appended[i]
      /\ r.stream = "failed" => r.threw
  BY DEF SourceInv, BehindDamage
<1>2. /\ Sound \in Nat /\ Len(r.delivered) \in Nat /\ r.offset \in Nat
      /\ r.delivered \in Seq(Decodable) /\ Len(file) \in Nat /\ file \in Seq(Byte)
      /\ Sound \in 0 .. Len(appended) /\ appended \in Seq(Valid)
      /\ Len(appended) \in Nat
  BY <1>1, SoundIsCount, LenProperties DEF Sources, StoreInv, StoreTypes
<1>3. CASE r.exhausted
  BY <1>3 DEF NextEvent
<1>4. CASE ~r.exhausted /\ AtEnd(r)
  <2>1. NextEvent(r) = [r EXCEPT !.exhausted = TRUE]
    BY <1>4 DEF NextEvent
  <2>2. /\ NextEvent(r).delivered = r.delivered /\ NextEvent(r).threw = r.threw
    BY <1>1, <2>1 DEF Sources
  <2>3. SUFFICES ASSUME ~r.threw PROVE file = Records(r.delivered)
    BY <2>2 DEF Finished
  <2> DEFINE d == Len(r.delivered)
  <2>4. Left(r) = 0 /\ r.offset = Len(file)
    <3>1. Left(r) = 0
      BY <1>1, <1>4, <2>3 DEF AtEnd
    <3> QED
      BY <1>2, <3>1 DEF Left
  <2>5. d \in 0 .. Sound /\ Len(Upto(appended, d)) = Len(file)
    BY <1>1, <1>2, <2>4 DEF OnTrack
  <2>6. /\ d \in 0 .. Len(appended) /\ Upto(appended, d) \in Seq(Byte)
        /\ Begins(Upto(appended, d), file) \/ Begins(file, Upto(appended, d))
    BY <2>5, FileOrRecords
  <2>7. Upto(appended, d) = file
    BY <1>2, <2>5, <2>6, BeginsSameLength
  <2>8. r.delivered = SubSeq(appended, 1, d)
    <3> DEFINE s == SubSeq(appended, 1, d)
    <3>1. /\ s \in Seq(Valid) /\ Len(s) = d /\ \A i \in 1 .. d : s[i] = appended[i]
      BY <1>2, <2>6, UptoType, AllRecordsAreBytes
    <3>2. \A i \in 1 .. d : r.delivered[i] = appended[i]
      BY <1>1, <1>2, <2>5
    <3>3. s \in Seq(Decodable)
      <4>1. Valid \subseteq Decodable
        BY ValidIsDecodable
      <4> HIDE DEF s
      <4> QED
        BY <3>1, <4>1, SeqMonotonic
    <3> HIDE DEF s
    <3>4. \A i \in 1 .. Len(r.delivered) : r.delivered[i] = s[i]
      BY <3>1, <3>2
    <3>5. r.delivered = s
      BY <1>2, <3>1, <3>3, <3>4, SeqEqual
    <3> QED
      BY <3>5 DEF s
  <2> QED
    BY <2>7, <2>8 DEF Upto
<1>5. CASE ~r.exhausted /\ ~AtEnd(r)
  <2>1. NextEvent(r).exhausted = r.exhausted
    BY <1>1, <1>5 DEF NextEvent, Skipped, Sources
  <2> QED
    BY <1>5, <2>1 DEF Finished
<1> QED
  BY <1>3, <1>4, <1>5

-----------------------------------------------------------------------------
(***************************************************************************)
(* Batches: f[n] is the source after n turns of the loop of next_batch.    *)
(***************************************************************************)
IsBatch(f, r, max) ==
  f = [n \in 0 .. max |->
         IF n = 0 THEN r
         ELSE IF Len(f[n - 1].delivered) = Len(r.delivered) + n - 1
              THEN NextEvent(f[n - 1])
              ELSE f[n - 1]]

LEMMA BatchExists ==
  ASSUME NEW r, NEW N \in Nat
  PROVE  \E f : IsBatch(f, r, N)
<1> DEFINE Turn(g, n) == IF Len(g[n - 1].delivered) = Len(r.delivered) + n - 1
                         THEN NextEvent(g[n - 1]) ELSE g[n - 1]
           Bad == {n \in 0 .. N : ~ \E f : IsBatch(f, r, n)}
<1>1. SUFFICES ASSUME Bad # {} PROVE FALSE
  OBVIOUS
<1>2. PICK n \in Bad : \A m \in Bad : n <= m
  <2>1. Bad \in SUBSET Nat
    OBVIOUS
  <2> HIDE DEF Bad
  <2> QED
    BY <2>1, <1>1, LeastNatural
<1>3. n # 0
  <2> DEFINE f == [i \in 0 .. 0 |-> r]
  <2>1. IsBatch(f, r, 0)
    BY DEF IsBatch
  <2> HIDE DEF f
  <2> QED
    BY <2>1, <1>2
<1>4. n \in 1 .. N /\ n - 1 \in 0 .. N /\ n - 1 \notin Bad
  BY <1>2, <1>3
<1>5. PICK f : IsBatch(f, r, n - 1)
  BY <1>4
<1> DEFINE g == [i \in 0 .. n |-> IF i = n THEN Turn(f, n) ELSE f[i]]
<1>6. \A i \in 0 .. n - 1 : f[i] = IF i = 0 THEN r ELSE Turn(f, i)
  BY <1>5 DEF IsBatch
<1>7. ASSUME NEW i \in 0 .. n
      PROVE  g[i] = IF i = 0 THEN r ELSE Turn(g, i)
  <2>1. CASE i = n
    <3>1. g[n - 1] = f[n - 1]
      BY <1>4
    <3>2. Turn(g, n) = Turn(f, n)
      BY <3>1
    <3>3. g[n] = Turn(f, n)
      BY <1>4
    <3> QED
      BY <1>3, <2>1, <3>2, <3>3
  <2>2. CASE i # n
    <3>1. i \in 0 .. n - 1 /\ g[i] = f[i]
      BY <2>2, <1>4
    <3>2. i # 0 => i - 1 \in 0 .. n /\ i - 1 # n
      BY <3>1
    <3>3. i # 0 => g[i - 1] = f[i - 1]
      BY <3>2
    <3>4. i # 0 => Turn(g, i) = Turn(f, i)
      BY <3>3
    <3> QED
      BY <1>6, <3>1, <3>4
  <2> QED
    BY <2>1, <2>2
<1>8. IsBatch(g, r, n)
  <2>1. g = [i \in 0 .. n |-> g[i]]
    OBVIOUS
  <2> HIDE DEF g
  <2> QED
    BY <1>7, <2>1 DEF IsBatch
<1> QED
  BY <1>2, <1>8

\* What holds of a source, and is kept by next_event, is kept by next_batch.
LEMMA BatchKeeps ==
  ASSUME StoreInv, NEW r, SourceInv(r), NEW max \in Nat
  PROVE  /\ SourceInv(NextBatch(r, max))
         /\ intact /\ Finished(r) => Finished(NextBatch(r, max))
<1> DEFINE f == CHOOSE f : f = [n \in 0 .. max |->
                 IF n = 0 THEN r
                 ELSE IF Len(f[n - 1].delivered) = Len(r.delivered) + n - 1
                      THEN NextEvent(f[n - 1])
                      ELSE f[n - 1]]
           Good(s) == SourceInv(s) /\ (intact /\ Finished(r) => Finished(s))
<1>1. \E g : g = [n \in 0 .. max |->
                 IF n = 0 THEN r
                 ELSE IF Len(g[n - 1].delivered) = Len(r.delivered) + n - 1
                      THEN NextEvent(g[n - 1])
                      ELSE g[n - 1]]
  <2>1. PICK g : IsBatch(g, r, max)
    BY BatchExists
  <2> QED
    BY <2>1 DEF IsBatch
<1>2. f = [n \in 0 .. max |->
                 IF n = 0 THEN r
                 ELSE IF Len(f[n - 1].delivered) = Len(r.delivered) + n - 1
                      THEN NextEvent(f[n - 1])
                      ELSE f[n - 1]]
  BY <1>1
<1>3. NextBatch(r, max) = f[max]
  BY DEF NextBatch
<1> HIDE DEF f
<1>4. \A n \in 0 .. max :
        f[n] = IF n = 0 THEN r
               ELSE IF Len(f[n - 1].delivered) = Len(r.delivered) + n - 1
                    THEN NextEvent(f[n - 1])
                    ELSE f[n - 1]
  BY <1>2
<1> DEFINE Bad == {n \in 0 .. max : ~Good(f[n])}
<1>5. ASSUME Bad # {} PROVE FALSE
  <2>1. PICK n \in Bad : \A m \in Bad : n <= m
    <3>1. Bad \in SUBSET Nat
      OBVIOUS
    <3> HIDE DEF Bad
    <3> QED
      BY <3>1, <1>5, LeastNatural
  <2>2. n \in 0 .. max /\ ~Good(f[n])
    BY <2>1
  <2>3. n # 0
    <3>1. Good(r)
      OBVIOUS
    <3>2. n = 0 => f[n] = r
      BY <1>4, <2>2
    <3> QED
      BY <2>2, <3>1, <3>2
  <2>4. n - 1 \in 0 .. max /\ n - 1 \notin Bad
    BY <2>1, <2>3
  <2>5. Good(f[n - 1])
    BY <2>4
  <2>6. f[n] = NextEvent(f[n - 1]) \/ f[n] = f[n - 1]
    BY <1>4, <2>2, <2>3
  <2>7. Good(NextEvent(f[n - 1]))
    BY <2>5, NextEventKeeps, NextEventFinishes
  <2> QED
    BY <2>2, <2>5, <2>6, <2>7
<1>6. Good(f[max])
  BY <1>5
<1> QED
  BY <1>3, <1>6

-----------------------------------------------------------------------------
(***************************************************************************)
(* The inductive invariant of the file, its store and its source.          *)
(***************************************************************************)
FileInv == StoreInv /\ SourceInv(reader)

LEMMA NewReaderGood ==
  ASSUME StoreInv
  PROVE  SourceInv(NewReader)
<1>1. NewReader \in Sources
  <2>1. <<>> \in Seq(Decodable)
    BY EmptySeq
  <2> QED
    BY <2>1 DEF NewReader, Sources
<1>2. Len(file) \in Nat /\ Sound \in Nat
  BY SoundIsCount, LenProperties DEF StoreInv, StoreTypes
<1>3. Len(Upto(appended, 0)) = 0
  BY UptoZero, AllRecordsAreBytes DEF StoreInv, StoreTypes
<1> QED
  BY <1>1, <1>2, <1>3 DEF SourceInv, OnTrack, NewReader

\* The store's steps leave the source where it is, in a file that has all that
\* the source has read.
LEMMA StoreStepKeepsSource ==
  ASSUME FileInv, StoreInv', Moves, reader' = reader
  PROVE  SourceInv(reader)'
<1> DEFINE r == reader
           d == Len(r.delivered)
<1>0. RecordsAreBytes
  BY AllRecordsAreBytes
<1>1. /\ r \in Sources /\ r.offset <= Len(file)
      /\ \A i \in 1 .. d : i <= Sound => r.delivered[i] = appended[i]
      /\ OnTrack(r) \/ BehindDamage(r)
      /\ r.stream = "failed" => r.threw
  BY DEF FileInv, SourceInv
<1>2. /\ Sound \in Nat /\ Sound \in 0 .. Len(appended) /\ Len(appended) \in Nat
      /\ appended \in Seq(Valid) /\ file \in Seq(Byte) /\ Len(file) \in Nat
  BY SoundIsCount, LenProperties DEF FileInv, StoreInv, StoreTypes
<1>3. /\ Sound' \in Nat /\ Sound' <= Len(appended') /\ Len(appended') \in Nat
      /\ appended' \in Seq(Valid) /\ Len(file') \in Nat
  BY LenProperties DEF StoreInv, StoreTypes, Sound
<1>4. d \in Nat /\ r.offset \in Nat
  BY <1>1, LenProperties DEF Sources
<1>5. /\ Len(file) <= Len(file')
      /\ \A j \in 0 .. Sound : Len(Upto(appended, j)) <= Len(file) => j <= Sound'
      /\ \A i \in 1 .. Sound : i <= Sound' => appended'[i] = appended[i]
      /\ ~intact => ~intact' /\ Sound' = Sound
  BY DEF Moves
<1>6. r.offset <= Len(file')
  BY <1>1, <1>2, <1>3, <1>4, <1>5
<1>7. CASE OnTrack(r)
  <2>1. d \in 0 .. Sound /\ r.offset = Len(Upto(appended, d)) /\ d <= Sound'
    BY <1>1, <1>2, <1>4, <1>5, <1>7 DEF OnTrack
  <2>2. \A i \in 1 .. d : appended[i] = appended'[i]
    BY <1>2, <1>3, <1>5, <2>1
  <2>3. Upto(appended, d) = Upto(appended', d)
    <3>1. d \in 0 .. Len(appended) /\ d <= Len(appended')
      BY <1>2, <1>3, <2>1
    <3> QED
      BY <1>0, <1>2, <1>3, <2>2, <3>1, UptoAgree
  <2>4. OnTrack(reader)'
    BY <2>1, <2>3 DEF OnTrack
  <2>5. \A i \in 1 .. d : r.delivered[i] = appended'[i]
    BY <1>1, <1>2, <2>1, <2>2
  <2> QED
    BY <1>1, <1>6, <2>4, <2>5 DEF SourceInv
<1>8. CASE BehindDamage(r)
  <2>1. /\ ~intact /\ d >= Sound /\ r.offset >= Len(Upto(appended, Sound))
        /\ ~intact' /\ Sound' = Sound
    BY <1>5, <1>8 DEF BehindDamage
  <2>2. \A i \in 1 .. Sound : appended[i] = appended'[i]
    BY <1>2, <1>5, <2>1
  <2>3. Upto(appended, Sound) = Upto(appended', Sound)
    <3>1. Sound <= Len(appended')
      BY <1>3, <2>1
    <3> QED
      BY <1>0, <1>2, <1>3, <2>2, <3>1, UptoAgree
  <2>4. BehindDamage(reader)'
    BY <2>1, <2>3 DEF BehindDamage
  <2>5. \A i \in 1 .. d : i <= Sound' => r.delivered[i] = appended'[i]
    BY <1>1, <1>2, <2>1, <2>2
  <2> QED
    BY <1>1, <1>6, <2>4, <2>5 DEF SourceInv
<1> QED
  BY <1>1, <1>7, <1>8

LEMMA InitGood ==
  ASSUME Init
  PROVE  FileInv
<1>1. StoreInv
  BY InitStore
<1>2. reader = NewReader
  BY DEF Init
<1> QED
  BY <1>1, <1>2, NewReaderGood DEF FileInv

\* A step that leaves the store and the file alone.
LEMMA SourceStepKeeps ==
  ASSUME StoreInv, UNCHANGED storeVars, NEW r, SourceInv(r), reader' = r
  PROVE  FileInv'
<1>1. /\ file' = file /\ store' = store /\ pending' = pending
      /\ appended' = appended /\ flushed' = flushed /\ intact' = intact
      /\ sound' = sound
  BY DEF storeVars
<1>2. StoreInv'
  BY <1>1 DEF StoreInv, StoreTypes, Sound
<1>3. SourceInv(reader)'
  BY <1>1 DEF SourceInv, OnTrack, BehindDamage, Sound
<1> QED
  BY <1>2, <1>3 DEF FileInv

LEMMA StepKeeps ==
  ASSUME FileInv, [Next]_vars
  PROVE  FileInv'
<1>1. StoreInv /\ SourceInv(reader)
  BY DEF FileInv
<1>2. ASSUME StoreInv' /\ Moves, reader' = reader
      PROVE  FileInv'
  BY <1>2, StoreStepKeepsSource DEF FileInv
<1>3. CASE Open
  <2>1. StoreInv' /\ Moves
    BY <1>1, <1>3, OpenKeeps
  <2> QED
    BY <1>2, <1>3, <2>1 DEF Open
<1>4. CASE \E e \in Events : AppendEvent(e)
  <2>1. PICK e \in Events : AppendEvent(e)
    BY <1>4
  <2>2. StoreInv' /\ Moves
    BY <1>1, <2>1, AppendKeeps
  <2> QED
    BY <1>2, <2>1, <2>2 DEF AppendEvent
<1>5. CASE \E e \in Events : AppendFails(e)
  <2>1. PICK e \in Events : AppendFails(e)
    BY <1>5
  <2>2. StoreInv' /\ Moves
    BY <1>1, <2>1, AppendFailsKeeps
  <2> QED
    BY <1>2, <2>1, <2>2 DEF AppendFails, WriteFails
<1>6. CASE FlushFails
  <2>1. StoreInv' /\ Moves
    BY <1>1, <1>6, FlushFailsKeeps
  <2> QED
    BY <1>2, <1>6, <2>1 DEF FlushFails, WriteFails
<1>7. CASE Flush
  <2>1. StoreInv' /\ Moves
    BY <1>1, <1>7, FlushKeeps
  <2> QED
    BY <1>2, <1>7, <2>1 DEF Flush
<1>8. CASE Close
  <2>1. StoreInv' /\ Moves
    BY <1>1, <1>8, CloseKeeps
  <2> QED
    BY <1>2, <1>8, <2>1 DEF Close
<1>9. CASE Crash
  <2>1. StoreInv' /\ Moves
    BY <1>1, <1>9, CrashKeeps
  <2> QED
    BY <1>2, <1>9, <2>1 DEF Crash
<1>10. CASE Read
  <2>1. PICK max \in 1 .. MaxBatch : reader' = NextBatch(reader, max)
    BY <1>10 DEF Read
  <2>2. max \in Nat
    BY BoundsAssumption
  <2>3. SourceInv(NextBatch(reader, max))
    BY <1>1, <2>2, BatchKeeps
  <2>4. UNCHANGED storeVars
    BY <1>10 DEF Read
  <2> QED
    BY <1>1, <2>1, <2>3, <2>4, SourceStepKeeps
<1>11. CASE Reset
  <2>1. reader' = NewReader /\ UNCHANGED storeVars
    BY <1>11 DEF Reset
  <2> QED
    BY <1>1, <2>1, NewReaderGood, SourceStepKeeps
<1>12. CASE UNCHANGED vars
  BY <1>1, <1>12, SourceStepKeeps DEF vars
<1> QED
  BY <1>3, <1>4, <1>5, <1>6, <1>7, <1>8, <1>9, <1>10, <1>11, <1>12
     DEF Next, AppendInvalid

\* The writer may append any events, in any number of sessions, and stop, fail
\* or die at any place; the reader may take batches of any size at any time.
THEOREM FileInvariant == Spec => []FileInv
<1>1. Init => FileInv
  BY InitGood
<1>2. FileInv /\ [Next]_vars => FileInv'
  BY StepKeeps
<1> QED
  BY <1>1, <1>2, PTL DEF Spec

\* The file, the buffer and the source have their types: the bytes are bytes, the
\* source stays within the file, and only valid events are written or delivered.
THEOREM FileTypesStay == Spec => []TypeOK
<1>1. FileInv => TypeOK
  <2> SUFFICES ASSUME FileInv PROVE TypeOK
    OBVIOUS
  <2>1. StoreTypes /\ reader \in Sources /\ reader.offset <= Len(file)
    BY DEF FileInv, StoreInv, SourceInv
  <2>2. Bytes(file) /\ Bytes(pending)
    <3>1. file \in Seq(Byte) /\ pending \in Seq(Byte)
      BY <2>1 DEF StoreTypes
    <3>2. /\ DOMAIN file = 1 .. Len(file) /\ DOMAIN pending = 1 .. Len(pending)
          /\ \A i \in 1 .. Len(file) : file[i] \in Byte
          /\ \A i \in 1 .. Len(pending) : pending[i] \in Byte
      BY <3>1, LenProperties, ElementOfSeq
    <3> QED
      BY <3>2 DEF Bytes
  <2>3. reader.offset \in 0 .. Len(file) /\ reader.stream \in {"good", "failed"}
    BY <2>1, LenProperties DEF StoreTypes, Sources
  <2>4. \A e \in Range(appended) : IsValidEvent(e)
    <3>1. appended \in Seq(Valid) /\ DOMAIN appended = 1 .. Len(appended)
      BY <2>1, LenProperties DEF StoreTypes
    <3>2. \A i \in 1 .. Len(appended) : appended[i] \in Valid
      BY <3>1, ElementOfSeq
    <3> QED
      BY <3>1, <3>2 DEF Range, Valid
  <2>5. \A e \in Range(reader.delivered) : IsValidEvent(e)
    <3> DEFINE v == reader.delivered
    <3>1. v \in Seq(Decodable) /\ DOMAIN v = 1 .. Len(v)
      BY <2>1, LenProperties DEF Sources
    <3>2. \A i \in 1 .. Len(v) : v[i] \in Decodable
      BY <3>1, ElementOfSeq
    <3> QED
      BY <3>1, <3>2, DecodableIsValid DEF Range
  <2> QED
    BY <2>1, <2>2, <2>3, <2>4, <2>5 DEF StoreTypes, TypeOK
<1> QED
  BY <1>1, FileInvariant, PTL

\* No crash, failed write or reopened file loses an event that a successful flush
\* of EventStore covered: its record stays at its place in the file.
THEOREM FlushedStays == Spec => []FlushedSurvives
<1>1. FileInv => FlushedSurvives
  <2> SUFFICES ASSUME FileInv PROVE FlushedSurvives
    OBVIOUS
  <2>1. flushed \in 0 .. Len(appended) /\ Begins(Upto(appended, flushed), file)
    BY FlushedInFile DEF FileInv
  <2>2. Upto(appended, flushed) \in Seq(Byte) /\ file \in Seq(Byte)
    BY <2>1, UptoType, AllRecordsAreBytes DEF FileInv, StoreInv, StoreTypes
  <2>3. IsPrefix(Upto(appended, flushed), file)
    BY <2>1, <2>2, BeginsIsPrefix
  <2> QED
    BY <2>3 DEF FileInv, StoreInv, FlushedSurvives, Upto
<1> QED
  BY <1>1, FileInvariant, PTL

\* PersistentReplaySource delivers what EventStore was given, in order and
\* nothing else, as long as no store was opened on a torn file, and up to the
\* tear when one was.
THEOREM ReadsStayExact == Spec => []ReadsWhatWasWritten
<1>1. FileInv => ReadsWhatWasWritten
  <2> SUFFICES ASSUME FileInv PROVE ReadsWhatWasWritten
    OBVIOUS
  <2> DEFINE v == reader.delivered
  <2>1. DOMAIN v = 1 .. Len(v)
    BY LenProperties DEF FileInv, SourceInv, Sources
  <2>2. \A i \in 1 .. Len(v) : i <= Sound => v[i] = appended[i]
    BY DEF FileInv, SourceInv
  <2>3. intact => Len(v) <= Len(appended)
    BY DEF FileInv, SourceInv, OnTrack, BehindDamage, Sound
  <2> QED
    BY <2>1, <2>2, <2>3 DEF ReadsWhatWasWritten
<1> QED
  BY <1>1, FileInvariant, PTL

\* No torn record passes for the end of the file: a source that is exhausted
\* without having thrown has delivered every byte of it as an event.
THEOREM CleanEndsAreComplete == Spec => CleanEndIsComplete
<1> DEFINE Clean == (/\ intact /\ ~reader.threw
                     /\ ~reader.exhausted /\ reader'.exhausted
                     /\ ~reader'.threw) => file = Records(reader'.delivered)
<1>1. FileInv /\ [Next]_vars => [Clean]_vars
  <2> SUFFICES ASSUME FileInv, [Next]_vars, intact, ~reader.exhausted,
                      reader'.exhausted, ~reader'.threw
               PROVE  file = Records(reader'.delivered)
    OBVIOUS
  <2>1. CASE Read
    <3>1. PICK max \in 1 .. MaxBatch : reader' = NextBatch(reader, max)
      BY <2>1 DEF Read
    <3>2. max \in Nat
      BY BoundsAssumption
    <3>3. Finished(reader)
      BY DEF Finished
    <3>4. Finished(NextBatch(reader, max))
      BY <3>2, <3>3, BatchKeeps DEF FileInv
    <3> QED
      BY <3>1, <3>4 DEF Finished
  <2>2. CASE Reset
    BY <2>2 DEF Reset, NewReader
  <2>3. CASE reader' = reader
    BY <2>3
  <2> QED
    BY <2>1, <2>2, <2>3
       DEF Next, vars, Open, AppendEvent, AppendInvalid, AppendFails, WriteFails,
           FlushFails, Flush, Close, Crash
<1> QED
  BY <1>1, FileInvariant, PTL DEF Spec, CleanEndIsComplete

=============================================================================
