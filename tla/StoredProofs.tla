---------------------------- MODULE StoredProofs ----------------------------
(***************************************************************************)
(* Proofs about what is replicated or kept on disk: that the log of the    *)
(* cluster, RaftReplication, keeps the promise of ReplicatedLog, for every *)
(* set of nodes; that the nodes agree on the state they make of it,        *)
(* ClusterState; and the tokens of ApiTokens, the secrets and runtimes of  *)
(* ApiRecords and the contexts of Contexts, each for every set of requests *)
(* or commands.  The five share nothing; each has its own variables.       *)
(***************************************************************************)
EXTENDS Stored, FiniteSetTheorems, WellFoundedInduction, NaturalsInduction, TLAPS

-----------------------------------------------------------------------------
(* Sequences of numbers *)

\* Two sequences, one after the other.
LEMMA ConcatLen ==
  ASSUME NEW s \in Seq(Nat), NEW t \in Seq(Nat)
  PROVE  s \o t \in Seq(Nat) /\ Len(s \o t) = Len(s) + Len(t)
OBVIOUS

\* The elements of the concatenation.
LEMMA ConcatAt ==
  ASSUME NEW s \in Seq(Nat), NEW t \in Seq(Nat)
  PROVE  \A i \in 1..Len(s \o t) :
           (s \o t)[i] = IF i <= Len(s) THEN s[i] ELSE t[i - Len(s)]
OBVIOUS

\* Concatenation is associative.
LEMMA ConcatAssoc ==
  ASSUME NEW s \in Seq(Nat), NEW t \in Seq(Nat), NEW u \in Seq(Nat)
  PROVE  (s \o t) \o u = s \o (t \o u)
BY SMTT(30)

\* A part of a sequence.
LEMMA PartOf ==
  ASSUME NEW s \in Seq(Nat), NEW i \in 1..(Len(s) + 1), NEW j \in 0..Len(s),
         i <= j + 1
  PROVE  /\ SubSeq(s, i, j) \in Seq(Nat)
         /\ Len(SubSeq(s, i, j)) = j - i + 1
         /\ \A k \in 1..(j - i + 1) : SubSeq(s, i, j)[k] = s[i + k - 1]
OBVIOUS

\* A part that ends before it begins.
LEMMA EmptyPart ==
  ASSUME NEW s \in Seq(Nat), NEW i \in Int, NEW j \in Int, j < i
  PROVE  SubSeq(s, i, j) = <<>>
OBVIOUS

\* Sequences with the same elements.
LEMMA SameSeq ==
  ASSUME NEW s \in Seq(Nat), NEW t \in Seq(Nat), Len(s) = Len(t),
         \A i \in 1..Len(s) : s[i] = t[i]
  PROVE  s = t
OBVIOUS

\* The sequence without elements.
LEMMA EmptySeq ==
  ASSUME NEW s \in Seq(Nat)
  PROVE  Len(s) \in Nat /\ (s = <<>> <=> Len(s) = 0)
OBVIOUS

-----------------------------------------------------------------------------
(* Replication: what the log of a node holds, and its operators *)

LogType == [first : Nat, entries : Seq(Nat), saved : Seq(Nat)]

\* The entries of a node: those in its snapshot and those in its log.
Full(l) == l.saved \o l.entries

\* A log that follows its snapshot, and was not emptied by a compaction.
Whole(l) ==
  /\ l.first = Len(l.saved) + 1
  /\ l.entries = <<>> => l.saved = <<>>

\* The sequences x and y have the same first c elements.
SameTo(x, y, c) == \A j \in 1..c : x[j] = y[j]

\* What a log is made of.
LEMMA FullTyped ==
  ASSUME NEW l \in LogType
  PROVE  /\ Full(l) \in Seq(Nat)
         /\ Len(Full(l)) = Len(l.saved) + Len(l.entries)
         /\ \A i \in 1..Len(Full(l)) :
              Full(l)[i] = IF i <= Len(l.saved) THEN l.saved[i]
                                                ELSE l.entries[i - Len(l.saved)]
BY ConcatLen, ConcatAt DEF LogType, Full

\* LastIndex, TermAt and LastTerm in terms of the entries of a node.
LEMMA LogReads ==
  ASSUME NEW l \in LogType, Whole(l)
  PROVE  /\ Replication!LastIndex(l) = Len(Full(l))
         /\ \A i \in Nat : Replication!TermAt(l, i) =
              IF i > Len(l.saved) /\ i <= Len(Full(l)) THEN Full(l)[i] ELSE 0
         /\ Replication!LastTerm(l) =
              IF Full(l) = <<>> THEN 0 ELSE Full(l)[Len(Full(l))]
<1> DEFINE f == Full(l)
<1>0. l.saved \in Seq(Nat) /\ l.entries \in Seq(Nat)
  BY DEF LogType
<1>1. /\ f \in Seq(Nat) /\ Len(f) = Len(l.saved) + Len(l.entries)
      /\ Len(l.saved) \in Nat /\ Len(l.entries) \in Nat /\ Len(f) \in Nat
  <2>1. f \in Seq(Nat) /\ Len(f) = Len(l.saved) + Len(l.entries)
    BY FullTyped
  <2> HIDE DEF f
  <2> QED BY <1>0, <2>1, EmptySeq
<1>2. \A i \in 1..Len(f) : f[i] = IF i <= Len(l.saved) THEN l.saved[i]
                                  ELSE l.entries[i - Len(l.saved)]
  BY FullTyped
<1> HIDE DEF f
<1>3. Replication!LastIndex(l) = Len(f)
  BY <1>1, EmptySeq DEF Replication!LastIndex, LogType, Whole
<1>4. ASSUME NEW i \in Nat
      PROVE  Replication!TermAt(l, i) =
               IF i > Len(l.saved) /\ i <= Len(f) THEN f[i] ELSE 0
  <2>1. PICK a \in Nat, e \in Nat, k \in Nat :
          a = Len(l.saved) /\ e = Len(l.entries) /\ k = l.first
    BY <1>1 DEF LogType
  <2>2. k = a + 1 /\ Len(f) = a + e
    BY <1>1, <2>1 DEF Whole
  <2>3. Replication!Has(l, i) <=> i >= k /\ i < k + e
    BY <2>1 DEF Replication!Has
  <2>4. (i >= k /\ i < k + e) <=> (i > a /\ i <= Len(f))
    BY <2>2
  <2>5. CASE i > a /\ i <= Len(f)
    <3>1. Replication!TermAt(l, i) = l.entries[i - k + 1]
      BY <2>1, <2>3, <2>4, <2>5, Zenon DEF Replication!TermAt
    <3>2. i - k + 1 = i - a
      BY <2>2
    <3>3. i > a /\ 1 <= i
      BY <2>5
    <3>4. ~ (i <= a)
      BY <3>3
    <3>5. i \in 1..Len(f)
      <4>1. PICK m \in Nat : m = Len(f) /\ i <= m
        BY <1>1, <2>5
      <4>2. i \in 1..m
        BY <3>3, <4>1
      <4> QED BY <4>1, <4>2, Zenon
    <3> QED BY <1>2, <2>1, <2>5, <3>1, <3>2, <3>4, <3>5
  <2>6. CASE ~ (i > a /\ i <= Len(f))
    <3>1. Replication!TermAt(l, i) = 0
      BY <2>3, <2>4, <2>6, Zenon DEF Replication!TermAt
    <3> QED BY <2>1, <2>6, <3>1
  <2> QED BY <2>5, <2>6
<1>5. Replication!LastTerm(l) = IF f = <<>> THEN 0 ELSE f[Len(f)]
  <2>1. Replication!LastTerm(l) = IF Len(f) > Len(l.saved) THEN f[Len(f)] ELSE 0
    <3>1. Replication!LastTerm(l) = Replication!TermAt(l, Len(f))
      BY <1>3 DEF Replication!LastTerm
    <3>2. Len(f) <= Len(f)
      BY <1>1
    <3> QED BY <1>1, <1>4, <3>1, <3>2
  <2>2. Len(f) > Len(l.saved) <=> f # <<>>
    BY <1>0, <1>1, EmptySeq DEF Whole, LogType
  <2> QED BY <2>1, <2>2
<1> QED BY <1>3, <1>4, <1>5 DEF f

\* Appending to a log.
LEMMA ExtendFull ==
  ASSUME NEW l \in LogType, Whole(l), NEW es \in Seq(Nat), es # <<>>
  PROVE  /\ Replication!Extend(l, es) \in LogType
         /\ Whole(Replication!Extend(l, es))
         /\ Full(Replication!Extend(l, es)) = Full(l) \o es
         /\ Replication!Extend(l, es).saved = l.saved
<1> DEFINE m == Replication!Extend(l, es)
<1>1. /\ m.saved = l.saved /\ m.first = l.first /\ m.entries = l.entries \o es
      /\ m \in LogType
  BY ConcatLen DEF Replication!Extend, LogType
<1>2. m.entries # <<>>
  BY <1>1, ConcatLen, EmptySeq DEF LogType
<1>3. Whole(m)
  BY <1>1, <1>2 DEF Whole
<1>4. Full(m) = Full(l) \o es
  <2>1. Full(m) = l.saved \o (l.entries \o es)
    BY <1>1 DEF Full
  <2>2. l.saved \in Seq(Nat) /\ l.entries \in Seq(Nat)
    BY DEF LogType
  <2> QED BY <2>1, <2>2, ConcatAssoc DEF Full
<1> QED BY <1>1, <1>3, <1>4
\* The larger and the smaller of two numbers.
LEMMA LargerOfTwo ==
  ASSUME NEW a \in Int, NEW b \in Int
  PROVE  /\ Replication!Max({a, b}) = IF a >= b THEN a ELSE b
         /\ Replication!Min({a, b}) = IF a <= b THEN a ELSE b
BY DEF Replication!Max, Replication!Min

\* A set of numbers that is not empty has a smallest one.
LEMMA SmallestIn ==
  ASSUME NEW S \in SUBSET Nat, S # {}
  PROVE  Replication!Min(S) \in S /\ \A y \in S : Replication!Min(S) <= y
<1>1. PICK x \in S : \A y \in S : ~ (<<y, x>> \in OpToRel(<, Nat))
  BY NatLessThanWellFounded, WFMin, Zenon
<1>2. \A y \in S : x <= y
  <2> SUFFICES ASSUME NEW y \in S PROVE x <= y
    OBVIOUS
  <2>1. x \in Nat /\ y \in Nat
    OBVIOUS
  <2>2. ~ (y < x)
    BY <1>1, <2>1 DEF OpToRel
  <2> QED BY <2>1, <2>2
<1> QED BY <1>2 DEF Replication!Min

\* One that is bounded has a largest one.
LEMMA LargestIn ==
  ASSUME NEW S \in SUBSET Nat, S # {}, NEW b \in Nat, \A x \in S : x <= b
  PROVE  Replication!Max(S) \in S /\ \A x \in S : Replication!Max(S) >= x
<1> DEFINE U == {u \in Nat : \A x \in S : x <= u}
<1>1. U \in SUBSET Nat /\ U # {}
  OBVIOUS
<1>2. PICK m : m = Replication!Min(U)
  OBVIOUS
<1>3. m \in U /\ \A u \in U : m <= u
  BY <1>1, <1>2, SmallestIn
<1>4. m \in S
  <2> SUFFICES ASSUME m \notin S PROVE FALSE
    OBVIOUS
  <2>1. PICK x \in S : TRUE
    OBVIOUS
  <2>2. x \in Nat /\ x < m /\ m \in Nat
    BY <1>3, <2>1
  <2>3. m - 1 \in U
    BY <1>3, <2>2
  <2> QED BY <1>3, <2>2, <2>3
<1>5. m \in S /\ \A x \in S : m >= x
  BY <1>3, <1>4
<1> QED BY <1>5 DEF Replication!Max

\* The end of the second of two sequences.
LEMMA EndOfConcat ==
  ASSUME NEW s \in Seq(Nat), NEW e \in Seq(Nat), NEW i \in Nat, i > Len(s)
  PROVE  SubSeq(e, i - Len(s), Len(e)) = SubSeq(s \o e, i, Len(s \o e))
<1>1. /\ Len(s \o e) = Len(s) + Len(e) /\ s \o e \in Seq(Nat)
      /\ Len(s) \in Nat /\ Len(e) \in Nat
  BY ConcatLen, EmptySeq
<1>2. CASE i > Len(s) + Len(e)
  <2>1. SubSeq(e, i - Len(s), Len(e)) = <<>>
    BY <1>1, <1>2, EmptyPart
  <2>2. SubSeq(s \o e, i, Len(s \o e)) = <<>>
    BY <1>1, <1>2, EmptyPart
  <2> QED BY <2>1, <2>2
<1>3. CASE i <= Len(s) + Len(e)
  <2> DEFINE d == i - Len(s)
             x == SubSeq(e, d, Len(e))
             y == SubSeq(s \o e, i, Len(s \o e))
  <2>1. /\ d \in 1..(Len(e) + 1) /\ Len(e) \in 0..Len(e) /\ d <= Len(e) + 1
        /\ i = d + Len(s)
    BY <1>1, <1>3
  <2>2. /\ i \in 1..(Len(s \o e) + 1) /\ Len(s \o e) \in 0..Len(s \o e)
        /\ i <= Len(s \o e) + 1
    BY <1>1, <1>3
  <2> HIDE DEF d
  <2>3. /\ x \in Seq(Nat) /\ Len(x) = Len(e) - d + 1
        /\ \A j \in 1..(Len(e) - d + 1) : x[j] = e[d + j - 1]
    BY <2>1, PartOf
  <2>4. /\ y \in Seq(Nat) /\ Len(y) = Len(s \o e) - i + 1
        /\ \A j \in 1..(Len(s \o e) - i + 1) : y[j] = (s \o e)[i + j - 1]
    BY <1>1, <2>2, PartOf
  <2> HIDE DEF x, y
  <2>7. d \in Nat /\ Len(x) = Len(e) - d + 1 /\ Len(y) = Len(x)
        /\ Len(s \o e) - i + 1 = Len(e) - d + 1
    <3>1. Len(y) = Len(s \o e) - i + 1 /\ Len(x) = Len(e) - d + 1
      BY <2>3, <2>4
    <3> QED BY <1>1, <2>1, <3>1
  <2>5. ASSUME NEW j \in 1..Len(x) PROVE x[j] = y[j]
    <3>1. i + j - 1 \in 1..Len(s \o e) /\ ~ (i + j - 1 <= Len(s))
      BY <1>1, <2>1, <2>7
    <3>2. (s \o e)[i + j - 1] = e[i + j - 1 - Len(s)]
      BY <3>1, ConcatAt
    <3>3. /\ i + j - 1 - Len(s) = d + j - 1 /\ j \in 1..(Len(s \o e) - i + 1)
          /\ j \in 1..(Len(e) - d + 1)
      BY <1>1, <2>1, <2>7
    <3>4. x[j] = e[d + j - 1] /\ y[j] = (s \o e)[i + j - 1]
      BY <2>3, <2>4, <3>3
    <3> QED BY <3>2, <3>3, <3>4
  <2>6. x = y
    <3>1. x \in Seq(Nat) /\ y \in Seq(Nat)
      BY <2>3, <2>4
    <3> QED BY <2>5, <2>7, <3>1, SameSeq
  <2> QED BY <2>6 DEF x, y, d
<1> QED BY <1>1, <1>2, <1>3

\* The ends of what GetRange takes of the entries.
Clamped(l, i, j, a, b) ==
  /\ a = IF i >= l.first THEN i - l.first + 1 ELSE 1
  /\ b = IF j - l.first + 1 <= Len(l.entries) THEN j - l.first + 1
                                              ELSE Len(l.entries)

\* GetRange with its ends.
LEMMA RangeFields ==
  ASSUME NEW l \in LogType, NEW i \in Nat, NEW j \in Nat, NEW a \in Int, NEW b \in Int,
         Clamped(l, i, j, a, b)
  PROVE  Replication!GetRange(l, i, j) = SubSeq(l.entries, a, b)
<1> DEFINE u == i - l.first + 1
           v == j - l.first + 1
           e == l.entries
<1>1. Replication!GetRange(l, i, j) =
        SubSeq(e, Replication!Max({u, 1}), Replication!Min({v, Len(e)}))
  BY Zenon DEF Replication!GetRange
<1>2. u \in Int /\ v \in Int /\ Len(e) \in Int /\ (u >= 1 <=> i >= l.first)
  BY EmptySeq DEF LogType
<1>3. Replication!Max({u, 1}) = IF u >= 1 THEN u ELSE 1
  BY <1>2, LargerOfTwo
<1>4. Replication!Min({v, Len(e)}) = IF v <= Len(e) THEN v ELSE Len(e)
  BY <1>2, LargerOfTwo
<1>5. a = (IF u >= 1 THEN u ELSE 1) /\ b = (IF v <= Len(e) THEN v ELSE Len(e))
  BY <1>2 DEF Clamped
<1> HIDE DEF u, v, e
<1>6. Replication!GetRange(l, i, j) = SubSeq(e, a, b)
  BY <1>1, <1>3, <1>4, <1>5
<1> QED BY <1>6 DEF e

\* GetRange from an entry that is in the log to its end.
LEMMA RangeToEnd ==
  ASSUME NEW l \in LogType, Whole(l), NEW i \in Nat, i > Len(l.saved)
  PROVE  Replication!GetRange(l, i, Replication!LastIndex(l))
           = SubSeq(Full(l), i, Len(Full(l)))
<1>1. PICK s \in Seq(Nat), e \in Seq(Nat), k \in Nat :
        s = l.saved /\ e = l.entries /\ k = l.first /\ k = Len(s) + 1
  BY DEF LogType, Whole
<1>2. PICK m \in Nat : m = Replication!LastIndex(l) /\ m = Len(s) + Len(e)
  BY <1>1, LogReads, FullTyped, EmptySeq
<1>3. Len(s) \in Nat /\ Len(e) \in Nat /\ i > Len(s)
  BY <1>1, EmptySeq
<1>4. PICK a \in Int, b \in Int : a = i - Len(s) /\ b = Len(e)
  BY <1>3
<1>5. Clamped(l, i, m, a, b)
  <2>1. l.first = k /\ l.entries = e /\ k = Len(s) + 1
    BY <1>1
  <2>2. /\ a = IF i >= k THEN i - k + 1 ELSE 1
        /\ b = IF m - k + 1 <= Len(e) THEN m - k + 1 ELSE Len(e)
    BY <1>2, <1>3, <1>4, <2>1
  <2> QED BY <2>1, <2>2 DEF Clamped
<1>6. Replication!GetRange(l, i, m) = SubSeq(e, i - Len(s), Len(e))
  <2>1. Replication!GetRange(l, i, m) = SubSeq(l.entries, a, b)
    BY <1>5, RangeFields
  <2>2. l.entries = e
    BY <1>1
  <2> QED BY <2>1, <2>2, <1>4
<1>7. Full(l) = s \o e
  BY <1>1 DEF Full
<1>8. SubSeq(e, i - Len(s), Len(e)) = SubSeq(s \o e, i, Len(s \o e))
  BY <1>3, EndOfConcat
<1>9. m = Replication!LastIndex(l)
  BY <1>2
<1> QED BY <1>6, <1>7, <1>8, <1>9, Zenon
Later(a, b) == IF a > b THEN a ELSE b

\* The entries of the log s \o e from d to c, which are those of y.
NextOnes(s, e, y, d, c, i, j) ==
  /\ Len(s) <= d /\ d <= c /\ c <= Len(s \o e) /\ c <= Len(y)
  /\ SameTo(s \o e, y, c)
  /\ i = d - Len(s) + 1 /\ j = c - Len(s)

\* Adding to the beginning of y what a log, which agrees with y, holds next.
LEMMA AddNext ==
  ASSUME NEW s \in Seq(Nat), NEW e \in Seq(Nat), NEW y \in Seq(Nat),
         NEW d \in Nat, NEW c \in Nat, NEW i \in Int, NEW j \in Int,
         NextOnes(s, e, y, d, c, i, j)
  PROVE  SubSeq(y, 1, d) \o SubSeq(e, i, j) = SubSeq(y, 1, c)
<1>0. /\ Len(s) <= d /\ d <= c /\ c <= Len(s \o e) /\ c <= Len(y)
      /\ SameTo(s \o e, y, c)
      /\ i = d - Len(s) + 1 /\ j = c - Len(s)
  BY DEF NextOnes
<1>1. /\ Len(s \o e) = Len(s) + Len(e) /\ s \o e \in Seq(Nat)
      /\ Len(s) \in Nat /\ Len(e) \in Nat /\ Len(y) \in Nat
  BY ConcatLen, EmptySeq
<1> DEFINE u == SubSeq(y, 1, d)
           v == SubSeq(e, i, j)
           z == SubSeq(y, 1, c)
<1>2. /\ i \in 1..(Len(e) + 1) /\ j \in 0..Len(e) /\ i <= j + 1
      /\ d \in 0..Len(y) /\ c \in 0..Len(y) /\ 1 \in 1..(Len(y) + 1)
      /\ 1 <= d + 1 /\ 1 <= c + 1
      /\ j - i + 1 = c - d
      /\ \A k \in Int : i + k - 1 = d + k - Len(s)
  BY <1>0, <1>1
<1>3. /\ u \in Seq(Nat) /\ Len(u) = d /\ \A k \in 1..d : u[k] = y[k]
      /\ z \in Seq(Nat) /\ Len(z) = c /\ \A k \in 1..c : z[k] = y[k]
  BY <1>2, PartOf
<1>4. /\ v \in Seq(Nat) /\ Len(v) = c - d
      /\ \A k \in 1..(c - d) : v[k] = e[i + k - 1]
  BY <1>2, PartOf
<1> HIDE DEF u, v, z
<1>5. u \o v \in Seq(Nat) /\ Len(u \o v) = c
  <2>1. u \o v \in Seq(Nat) /\ Len(u \o v) = Len(u) + Len(v)
    BY <1>3, <1>4, ConcatLen
  <2>2. Len(u) = d /\ Len(v) = c - d
    BY <1>3, <1>4
  <2> QED BY <2>1, <2>2
<1>6. ASSUME NEW k \in 1..c PROVE (u \o v)[k] = z[k]
  <2>1. (u \o v)[k] = IF k <= d THEN u[k] ELSE v[k - d]
    <3>1. k \in 1..Len(u \o v) /\ Len(u) = d /\ u \in Seq(Nat) /\ v \in Seq(Nat)
      BY <1>3, <1>4, <1>5
    <3>2. \A h \in 1..Len(u \o v) :
            (u \o v)[h] = IF h <= Len(u) THEN u[h] ELSE v[h - Len(u)]
      BY <3>1, ConcatAt
    <3> QED BY <3>1, <3>2, Zenon
  <2>2. CASE k <= d
    <3>1. k \in 1..d
      BY <2>2
    <3> QED BY <1>3, <2>1, <2>2, <3>1
  <2>3. CASE ~ (k <= d)
    <3>1. k - d \in 1..(c - d) /\ k \in 1..Len(s \o e) /\ ~ (k <= Len(s)) /\ k - d \in Int
      BY <1>0, <1>1, <2>3
    <3>2. v[k - d] = e[i + (k - d) - 1]
      BY <1>4, <3>1
    <3>3. i + (k - d) - 1 = d + (k - d) - Len(s)
      BY <1>2, <3>1
    <3>4. d + (k - d) - Len(s) = k - Len(s)
      BY <1>1
    <3>5. (s \o e)[k] = e[k - Len(s)]
      BY <3>1, ConcatAt
    <3>6. (s \o e)[k] = y[k]
      BY <1>0 DEF SameTo
    <3> QED BY <1>3, <2>1, <2>3, <3>2, <3>3, <3>4, <3>5, <3>6
  <2> QED BY <2>2, <2>3
<1>7. u \o v = z
  BY <1>3, <1>5, <1>6, SameSeq
<1> QED BY <1>7 DEF u, v, z

\* What applyCommitted adds to the state machine.
LEMMA ApplyRange ==
  ASSUME NEW l \in LogType, Whole(l), NEW a \in Nat, NEW c \in Nat, a < c,
         c <= Len(Full(l)), NEW y \in Seq(Nat), c <= Len(y),
         Len(l.saved) <= Len(y), SameTo(Full(l), y, c)
  PROVE  SubSeq(y, 1, Later(a, Len(l.saved))) \o Replication!GetRange(l, a + 1, c)
           = SubSeq(y, 1, Later(c, Len(l.saved)))
<1>1. PICK s \in Seq(Nat), e \in Seq(Nat), k \in Nat :
        s = l.saved /\ e = l.entries /\ k = l.first /\ k = Len(s) + 1
  BY DEF LogType, Whole
<1>2. /\ Full(l) = s \o e /\ Len(s \o e) = Len(s) + Len(e)
      /\ Len(s) \in Nat /\ Len(e) \in Nat /\ Len(y) \in Nat
  BY <1>1, EmptySeq, ConcatLen DEF Full
<1>3. /\ c <= Len(s \o e) /\ SameTo(s \o e, y, c) /\ Len(s) <= Len(y) /\ k = Len(s) + 1
  BY <1>1, <1>2
<1>4. PICK d \in Nat : d = Later(a, Len(s))
  BY <1>2 DEF Later
<1>5. Len(s) <= d /\ d <= Len(y) /\ d >= a /\ (d = a \/ d = Len(s))
  BY <1>2, <1>3, <1>4 DEF Later
<1>61. d - Len(s) + 1 \in Int /\ c - Len(s) \in Int /\ a + 1 \in Nat
  BY <1>2
<1>62. PICK i \in Int : i = d - Len(s) + 1
  BY <1>61, Zenon
<1>63. PICK j \in Int : j = c - Len(s)
  BY <1>61, Zenon
<1>64. PICK b \in Nat : b = a + 1
  BY <1>61, Zenon
<1>6. i = d - Len(s) + 1 /\ j = c - Len(s) /\ b = a + 1
  BY <1>62, <1>63, <1>64
<1>7. Replication!GetRange(l, a + 1, c) = SubSeq(e, i, j)
  <2>1. l.first = k /\ l.entries = e
    BY <1>1
  <2>2. /\ i = IF b >= k THEN b - k + 1 ELSE 1
        /\ j = IF c - k + 1 <= Len(e) THEN c - k + 1 ELSE Len(e)
    BY <1>2, <1>3, <1>4, <1>6 DEF Later
  <2>3. Clamped(l, b, c, i, j)
    BY <2>1, <2>2 DEF Clamped
  <2>4. Replication!GetRange(l, b, c) = SubSeq(l.entries, i, j)
    BY <2>3, RangeFields
  <2> QED BY <1>6, <2>1, <2>4
<1>8. CASE c >= d
  <2>1. Later(c, Len(s)) = c
    BY <1>2, <1>5, <1>8 DEF Later
  <2>2. SubSeq(y, 1, d) \o SubSeq(e, i, j) = SubSeq(y, 1, c)
    <3>1. Len(s) <= d /\ d <= c /\ c <= Len(s \o e) /\ SameTo(s \o e, y, c)
      BY <1>3, <1>5, <1>8
    <3>2. NextOnes(s, e, y, d, c, i, j)
      BY <1>6, <3>1 DEF NextOnes
    <3> QED BY <3>2, AddNext, SMTT(30)
  <2> QED BY <1>1, <1>4, <1>7, <2>1, <2>2
<1>9. CASE ~ (c >= d)
  <2>1. d = Len(s) /\ j < i /\ Later(c, Len(s)) = d
    BY <1>2, <1>5, <1>6, <1>9 DEF Later
  <2>2. SubSeq(e, i, j) = <<>>
    BY <2>1, EmptyPart
  <2>3. SubSeq(y, 1, d) \in Seq(Nat)
    <3>1. d \in 0..Len(y) /\ 1 \in 1..(Len(y) + 1) /\ 1 <= d + 1
      BY <1>2, <1>5
    <3> QED BY <3>1, PartOf
  <2>4. SubSeq(y, 1, d) \o <<>> = SubSeq(y, 1, d)
    BY <2>3
  <2> QED BY <1>1, <1>4, <1>7, <2>1, <2>2, <2>4
<1> QED BY <1>8, <1>9

\* The first i of s \o e are s and the first j of e.
CutsAt(s, e, i, j) == i = j + Len(s) /\ j <= Len(e)

\* The beginning of two sequences, cut within the second.
LEMMA CutFull ==
  ASSUME NEW s \in Seq(Nat), NEW e \in Seq(Nat), NEW i \in Nat, NEW j \in Nat,
         CutsAt(s, e, i, j)
  PROVE  s \o SubSeq(e, 1, j) = SubSeq(s \o e, 1, i)
<1>0. i = j + Len(s) /\ j <= Len(e)
  BY DEF CutsAt
<1> DEFINE f == s \o e
           u == SubSeq(e, 1, j)
           v == SubSeq(f, 1, i)
<1>1. /\ f \in Seq(Nat) /\ Len(f) = Len(s) + Len(e) /\ Len(s) \in Nat /\ Len(e) \in Nat
      /\ \A h \in 1..Len(f) : f[h] = IF h <= Len(s) THEN s[h] ELSE e[h - Len(s)]
  BY ConcatLen, ConcatAt, EmptySeq
<1> HIDE DEF f
<1>2. /\ j \in 0..Len(e) /\ i \in 0..Len(f) /\ 1 <= j + 1 /\ 1 <= i + 1
      /\ 1 \in 1..(Len(e) + 1) /\ 1 \in 1..(Len(f) + 1)
  <2>1. Len(f) = Len(s) + Len(e) /\ Len(s) \in Nat /\ Len(e) \in Nat
    BY <1>1
  <2> QED BY <1>0, <2>1
<1>3. u \in Seq(Nat) /\ Len(u) = j /\ \A h \in 1..j : u[h] = e[h]
  BY <1>2, PartOf
<1>4. v \in Seq(Nat) /\ Len(v) = i /\ \A h \in 1..i : v[h] = f[h]
  <2>1. f \in Seq(Nat)
    BY <1>1
  <2> QED BY <1>2, <2>1, PartOf
<1> HIDE DEF u, v
<1>5. /\ s \o u \in Seq(Nat) /\ Len(s \o u) = i
      /\ \A h \in 1..i : (s \o u)[h] = IF h <= Len(s) THEN s[h] ELSE u[h - Len(s)]
  <2>1. u \in Seq(Nat) /\ Len(u) = j
    BY <1>3
  <2>2. s \o u \in Seq(Nat) /\ Len(s \o u) = Len(s) + Len(u)
    BY <2>1, ConcatLen
  <2>3. Len(s \o u) = i
    BY <1>0, <1>1, <2>1, <2>2
  <2>4. \A h \in 1..Len(s \o u) : (s \o u)[h] = IF h <= Len(s) THEN s[h] ELSE u[h - Len(s)]
    BY <2>1, ConcatAt
  <2> QED BY <2>2, <2>3, <2>4
<1>6. ASSUME NEW h \in 1..i PROVE (s \o u)[h] = v[h]
  <2>1. Len(s) \in Nat /\ Len(e) \in Nat /\ Len(f) = Len(s) + Len(e)
    BY <1>1
  <2>2. h \in 1..Len(f) /\ (~ (h <= Len(s)) => h - Len(s) \in 1..j)
    BY <1>0, <1>2, <2>1
  <2>3. f[h] = IF h <= Len(s) THEN s[h] ELSE e[h - Len(s)]
    BY <1>1, <2>2
  <2>4. ~ (h <= Len(s)) => u[h - Len(s)] = e[h - Len(s)]
    BY <1>3, <2>2
  <2> QED BY <1>4, <1>5, <2>3, <2>4
<1>7. s \o u = v
  BY <1>4, <1>5, <1>6, SameSeq
<1> QED BY <1>7 DEF u, v, f

\* A sequence is its beginning and its end.
LEMMA SplitSeq ==
  ASSUME NEW w \in Seq(Nat), NEW i \in 0..Len(w)
  PROVE  SubSeq(w, 1, i) \o SubSeq(w, i + 1, Len(w)) = w
<1> DEFINE u == SubSeq(w, 1, i)
           v == SubSeq(w, i + 1, Len(w))
<1>1. /\ 1 \in 1..(Len(w) + 1) /\ 1 <= i + 1 /\ i + 1 \in 1..(Len(w) + 1)
      /\ Len(w) \in 0..Len(w) /\ i + 1 <= Len(w) + 1 /\ Len(w) \in Nat
      /\ Len(w) - (i + 1) + 1 = Len(w) - i
  BY EmptySeq
<1>2. u \in Seq(Nat) /\ Len(u) = i /\ \A h \in 1..i : u[h] = w[h]
  BY <1>1, PartOf
<1>3. v \in Seq(Nat) /\ Len(v) = Len(w) - i /\ \A h \in 1..(Len(w) - i) : v[h] = w[i + h]
  <2>1. PICK k \in 1..(Len(w) + 1) : k = i + 1
    BY <1>1, Zenon
  <2>2. k <= Len(w) + 1 /\ Len(w) \in 0..Len(w)
    BY <1>1, <2>1
  <2>3. /\ SubSeq(w, k, Len(w)) \in Seq(Nat)
        /\ Len(SubSeq(w, k, Len(w))) = Len(w) - k + 1
        /\ \A h \in 1..(Len(w) - k + 1) : SubSeq(w, k, Len(w))[h] = w[k + h - 1]
    BY <2>2, PartOf
  <2>4. v = SubSeq(w, k, Len(w)) /\ Len(w) - k + 1 = Len(w) - i
        /\ \A h \in Int : k + h - 1 = i + h
    BY <1>1, <2>1
  <2> HIDE DEF v
  <2>5. ASSUME NEW h \in 1..(Len(w) - i) PROVE v[h] = w[i + h]
    <3>1. v[h] = w[k + h - 1]
      BY <2>3, <2>4
    <3>2. h \in Int
      BY <1>1
    <3> QED BY <2>4, <3>1, <3>2
  <2> QED BY <2>3, <2>4, <2>5
<1> HIDE DEF u, v
<1>4. u \o v \in Seq(Nat) /\ Len(u \o v) = Len(w)
  <2>1. u \in Seq(Nat) /\ v \in Seq(Nat) /\ Len(u) = i /\ Len(v) = Len(w) - i
    BY <1>2, <1>3
  <2>2. u \o v \in Seq(Nat) /\ Len(u \o v) = Len(u) + Len(v)
    BY <2>1, ConcatLen
  <2> QED BY <1>1, <2>1, <2>2
<1>5. ASSUME NEW h \in 1..Len(w) PROVE (u \o v)[h] = w[h]
  <2>1. u \in Seq(Nat) /\ v \in Seq(Nat) /\ Len(u) = i
    BY <1>2, <1>3
  <2>2. \A g \in 1..Len(u \o v) : (u \o v)[g] = IF g <= Len(u) THEN u[g] ELSE v[g - Len(u)]
    BY <2>1, ConcatAt
  <2>3. (u \o v)[h] = IF h <= i THEN u[h] ELSE v[h - i]
    BY <1>4, <2>1, <2>2
  <2>4. (h <= i => h \in 1..i) /\ (~ (h <= i) => h - i \in 1..(Len(w) - i) /\ i + (h - i) = h)
    BY <1>1
  <2> QED BY <1>2, <1>3, <2>3, <2>4
<1>6. u \o v = w
  BY <1>4, <1>5, SameSeq
<1> QED BY <1>6 DEF u, v

\* w ends with es after its first p elements, and k is an index of es.
EndsWith(w, p, es, k) == es = SubSeq(w, p + 1, Len(w)) /\ k \in 1..Len(es)

\* The end of the end of a sequence.
LEMMA EndOfEnd ==
  ASSUME NEW w \in Seq(Nat), NEW p \in Nat, NEW es \in Seq(Nat), NEW k \in Nat,
         EndsWith(w, p, es, k)
  PROVE  /\ p + Len(es) = Len(w)
         /\ \A h \in 1..Len(es) : es[h] = w[p + h]
         /\ SubSeq(es, k, Len(es)) = SubSeq(w, p + k, Len(w))
<1>0. es = SubSeq(w, p + 1, Len(w)) /\ k \in 1..Len(es)
  BY DEF EndsWith
<1>1. Len(w) \in Nat /\ Len(es) \in Nat /\ Len(es) > 0
  BY <1>0, EmptySeq
<1>2. p + 1 <= Len(w)
  <2> SUFFICES ASSUME p + 1 > Len(w) PROVE FALSE
    BY <1>1
  <2>1. es = <<>>
    BY <1>0, <1>1, EmptyPart
  <2> QED BY <1>1, <2>1, EmptySeq
<1>3. PICK a \in 1..(Len(w) + 1) : a = p + 1
  BY <1>1, <1>2
<1>4. /\ Len(es) = Len(w) - p
      /\ \A h \in 1..Len(es) : es[h] = w[p + h]
  <2>1. Len(w) \in 0..Len(w) /\ a <= Len(w) + 1 /\ es = SubSeq(w, a, Len(w))
    BY <1>0, <1>1, <1>3
  <2>2. Len(es) = Len(w) - a + 1 /\ \A h \in 1..(Len(w) - a + 1) : es[h] = w[a + h - 1]
    BY <2>1, PartOf
  <2>3. Len(w) - a + 1 = Len(w) - p /\ \A h \in Int : a + h - 1 = p + h
    BY <1>1, <1>3
  <2>4. ASSUME NEW h \in 1..Len(es) PROVE es[h] = w[p + h]
    <3>1. h \in 1..(Len(w) - a + 1) /\ h \in Int
      BY <1>1, <2>2
    <3> QED BY <2>2, <2>3, <3>1
  <2> QED BY <2>2, <2>3, <2>4
<1> DEFINE x == SubSeq(es, k, Len(es))
           y == SubSeq(w, p + k, Len(w))
<1>5. /\ x \in Seq(Nat) /\ Len(x) = Len(es) - k + 1
      /\ \A h \in 1..(Len(es) - k + 1) : x[h] = es[k + h - 1]
  <2>1. k \in 1..(Len(es) + 1) /\ Len(es) \in 0..Len(es) /\ k <= Len(es) + 1
    BY <1>0, <1>1
  <2> QED BY <2>1, PartOf
<1>6. /\ y \in Seq(Nat) /\ Len(y) = Len(w) - p - k + 1
      /\ \A h \in 1..(Len(w) - p - k + 1) : y[h] = w[p + k + h - 1]
  <2>0. Len(es) = Len(w) - p
    BY <1>4
  <2>1. PICK b \in 1..(Len(w) + 1) : b = p + k
    BY <1>0, <1>1, <2>0
  <2>2. Len(w) \in 0..Len(w) /\ b <= Len(w) + 1
    BY <1>1, <1>4, <2>1
  <2>3. /\ SubSeq(w, b, Len(w)) \in Seq(Nat) /\ Len(SubSeq(w, b, Len(w))) = Len(w) - b + 1
        /\ \A h \in 1..(Len(w) - b + 1) : SubSeq(w, b, Len(w))[h] = w[b + h - 1]
    BY <2>2, PartOf
  <2>4. Len(w) - b + 1 = Len(w) - p - k + 1 /\ y = SubSeq(w, b, Len(w)) /\ b = p + k
    BY <1>1, <2>1
  <2> HIDE DEF y
  <2> QED BY <2>3, <2>4
<1> HIDE DEF x, y
<1>7. Len(x) = Len(y) /\ Len(x) = Len(es) - k + 1
  <2>1. Len(x) = Len(es) - k + 1 /\ Len(y) = Len(w) - p - k + 1 /\ Len(es) = Len(w) - p
    BY <1>4, <1>5, <1>6
  <2> QED BY <1>1, <2>1
<1>8. ASSUME NEW h \in 1..Len(x) PROVE x[h] = y[h]
  <2>0. Len(es) = Len(w) - p
    BY <1>4
  <2>1. /\ h \in 1..(Len(es) - k + 1) /\ h \in 1..(Len(w) - p - k + 1)
        /\ k + h - 1 \in 1..Len(es) /\ p + (k + h - 1) = p + k + h - 1
    BY <1>0, <1>1, <1>7, <2>0
  <2>2. x[h] = es[k + h - 1] /\ y[h] = w[p + k + h - 1]
    BY <1>5, <1>6, <2>1
  <2>3. es[k + h - 1] = w[p + (k + h - 1)]
    BY <1>4, <2>1
  <2> QED BY <2>1, <2>2, <2>3
<1>9. x = y
  <2>1. x \in Seq(Nat) /\ y \in Seq(Nat)
    BY <1>5, <1>6
  <2> QED BY <1>7, <1>8, <2>1, SameSeq
<1>10. p + Len(es) = Len(w)
  <2>1. Len(es) = Len(w) - p
    BY <1>4
  <2> QED BY <1>1, <2>1
<1> QED BY <1>4, <1>9, <1>10 DEF x, y

\* Sequences that agree have the same beginning.
LEMMA SamePart ==
  ASSUME NEW x \in Seq(Nat), NEW w \in Seq(Nat), NEW i \in Nat,
         i <= Len(x), i <= Len(w), SameTo(x, w, i)
  PROVE  SubSeq(x, 1, i) = SubSeq(w, 1, i)
<1>1. /\ i \in 0..Len(x) /\ i \in 0..Len(w) /\ 1 <= i + 1
      /\ 1 \in 1..(Len(x) + 1) /\ 1 \in 1..(Len(w) + 1)
  BY EmptySeq
<1> DEFINE u == SubSeq(x, 1, i)
           v == SubSeq(w, 1, i)
<1>2. u \in Seq(Nat) /\ Len(u) = i /\ \A h \in 1..i : u[h] = x[h]
  BY <1>1, PartOf
<1>3. v \in Seq(Nat) /\ Len(v) = i /\ \A h \in 1..i : v[h] = w[h]
  BY <1>1, PartOf
<1> HIDE DEF u, v
<1>4. u = v
  BY <1>2, <1>3, SameSeq DEF SameTo
<1> QED BY <1>4 DEF u, v

\* w is s, cut and tail.
Parts(s, cut, tail, w, i) ==
  /\ i \in 0..Len(w)
  /\ s \o cut = SubSeq(w, 1, i)
  /\ tail = SubSeq(w, i + 1, Len(w))

\* Three sequences put together.
LEMMA JoinParts ==
  ASSUME NEW s \in Seq(Nat), NEW cut \in Seq(Nat), NEW tail \in Seq(Nat),
         NEW w \in Seq(Nat), NEW i, Parts(s, cut, tail, w, i)
  PROVE  s \o (cut \o tail) = w
<1>1. s \o (cut \o tail) = (s \o cut) \o tail
  BY ConcatAssoc, ZenonT(30)
<1>2. i \in 0..Len(w)
  BY DEF Parts
<1>3. SubSeq(w, 1, i) \o SubSeq(w, i + 1, Len(w)) = w
  BY <1>2, SplitSeq
<1> QED BY <1>1, <1>3 DEF Parts

\* The operators on sequences under names of their own.
Join(s, t) == s \o t
Front(w, i) == SubSeq(w, 1, i)
Rest(w, i) == SubSeq(w, i, Len(w))

\* The lemmas on them.
LEMMA CutJoin ==
  ASSUME NEW s \in Seq(Nat), NEW e \in Seq(Nat), NEW i \in Nat, NEW j \in Nat,
         CutsAt(s, e, i, j)
  PROVE  Join(s, Front(e, j)) = Front(Join(s, e), i)
BY CutFull, ZenonT(30) DEF Join, Front

\* The end of the end of a sequence.
LEMMA RestOfRest ==
  ASSUME NEW w \in Seq(Nat), NEW p \in Nat, NEW es \in Seq(Nat), NEW k \in Nat,
         EndsWith(w, p, es, k)
  PROVE  Rest(es, k) = Rest(w, p + k)
BY EndOfEnd DEF Rest

\* Sequences that agree have the same beginning.
LEMMA SameFront ==
  ASSUME NEW x \in Seq(Nat), NEW w \in Seq(Nat), NEW i \in Nat,
         i <= Len(x), i <= Len(w), SameTo(x, w, i)
  PROVE  Front(x, i) = Front(w, i)
BY SamePart DEF Front

\* Three sequences put together.
LEMMA JoinThree ==
  ASSUME NEW s \in Seq(Nat), NEW cut \in Seq(Nat), NEW tail \in Seq(Nat),
         NEW w \in Seq(Nat), NEW i \in 0..Len(w),
         Join(s, cut) = Front(w, i), tail = Rest(w, i + 1)
  PROVE  Join(s, Join(cut, tail)) = w
<1>1. Parts(s, cut, tail, w, i)
  BY DEF Parts, Join, Front, Rest
<1>2. s \o (cut \o tail) = w
  BY <1>1, JoinParts
<1> QED BY <1>2 DEF Join

\* What a log holds where the sequence w begins to differ from it.
Differs(x, w) ==
  \E i \in 1..Len(w) : /\ i <= Len(x) + 1
                       /\ SameTo(x, w, i - 1)
                       /\ i <= Len(x) => x[i] # w[i]

\* The entries r carries follow those of w, and the log l agrees with w so far.
Carries(l, r, w) ==
  /\ r.prev \in Nat /\ r.start = r.prev + 1
  /\ r.entries = SubSeq(w, r.prev + 1, Len(w))
  /\ r.prev >= Len(l.saved) /\ r.prev <= Len(Full(l)) /\ r.prev < Len(w)
  /\ SameTo(Full(l), w, r.prev)

\* TruncateAfter of an entry that is in the log, or the last of the snapshot.
LEMMA TruncateFields ==
  ASSUME NEW l \in LogType, Whole(l), NEW j \in Nat, NEW i \in Nat,
         i = j + Len(l.saved), j <= Len(l.entries)
  PROVE  Replication!TruncateAfter(l, i) =
           [l EXCEPT !.entries = SubSeq(l.entries, 1, j)]
<1> DEFINE a == i - l.first + 1
           m == Len(l.entries)
<1>1. a = j /\ m \in Nat
  BY EmptySeq DEF LogType, Whole
<1>2. Replication!Max({a, 0}) = j
  BY <1>1, LargerOfTwo
<1>3. Replication!Min({j, m}) = j
  <2>1. j \in Int /\ m \in Int /\ j <= m
    BY <1>1
  <2> HIDE DEF m
  <2> QED BY <2>1, LargerOfTwo
<1>4. Replication!TruncateAfter(l, i) = [l EXCEPT !.entries =
         SubSeq(l.entries, 1, Replication!Min({Replication!Max({a, 0}), m}))]
  BY Zenon DEF Replication!TruncateAfter
<1> HIDE DEF a, m
<1> QED BY <1>2, <1>3, <1>4

\* The entries of es, which follow the first p of w, that x has not.
Missing(x, es, p) == {k \in 1..Len(es) : p + k > Len(x) \/ x[p + k] # es[k]}

\* x, which is a snapshot s and the entries e after it, agrees with w up to p,
\* and the entries es of w follow.
Adjoins(s, e, x, w, es, p) ==
  /\ x = Join(s, e)
  /\ es = Rest(w, p + 1)
  /\ Len(s) <= p /\ p <= Len(x) /\ p < Len(w)
  /\ SameTo(x, w, p)

\* What is true of the sequences then.
LEMMA AdjoinsFacts ==
  ASSUME NEW s \in Seq(Nat), NEW e \in Seq(Nat), NEW x \in Seq(Nat), NEW w \in Seq(Nat), NEW es,
         NEW p \in Nat, Adjoins(s, e, x, w, es, p)
  PROVE  /\ x \in Seq(Nat) /\ Len(x) = Len(s) + Len(e)
         /\ Len(s) \in Nat /\ Len(e) \in Nat /\ Len(x) \in Nat /\ Len(w) \in Nat
         /\ es \in Seq(Nat) /\ Len(es) \in Nat /\ es # <<>> /\ p + Len(es) = Len(w)
         /\ \A h \in 1..Len(es) : es[h] = w[p + h]
<1>1. /\ x \in Seq(Nat) /\ Len(x) = Len(s) + Len(e)
      /\ Len(s) \in Nat /\ Len(e) \in Nat /\ Len(x) \in Nat /\ Len(w) \in Nat
  BY ConcatLen, EmptySeq DEF Adjoins, Join
<1>2. p < Len(w)
  BY DEF Adjoins
<1>3. PICK b \in 1..Len(w) : b = p + 1
  BY <1>1, <1>2
<1>4. b \in 1..(Len(w) + 1) /\ Len(w) \in 0..Len(w) /\ b <= Len(w) + 1
  BY <1>1
<1>5. /\ SubSeq(w, b, Len(w)) \in Seq(Nat) /\ Len(SubSeq(w, b, Len(w))) = Len(w) - b + 1
  BY <1>4, PartOf
<1>6. es = SubSeq(w, b, Len(w)) /\ es = Rest(w, p + 1)
  BY <1>3 DEF Adjoins, Rest
<1>7. es \in Seq(Nat) /\ Len(es) = Len(w) - b + 1
  BY <1>5, <1>6
<1>8. Len(es) \in Nat /\ 1 \in 1..Len(es) /\ es # <<>>
  BY <1>1, <1>7, EmptySeq
<1>9. p + Len(es) = Len(w) /\ \A h \in 1..Len(es) : es[h] = w[p + h]
  <2>1. EndsWith(w, p, es, 1)
    BY <1>6, <1>8 DEF EndsWith, Rest
  <2> QED BY <1>7, <2>1, EndOfEnd
<1> QED BY <1>1, <1>7, <1>8, <1>9

\* Nothing is missing: x holds w.
LEMMA MergeNothing ==
  ASSUME NEW s \in Seq(Nat), NEW e \in Seq(Nat), NEW x \in Seq(Nat),
         NEW w \in Seq(Nat), NEW es \in Seq(Nat),
         NEW p \in Nat, Adjoins(s, e, x, w, es, p), Missing(x, es, p) = {}
  PROVE  Len(w) <= Len(x) /\ SameTo(x, w, Len(w))
<1>1. /\ Len(x) \in Nat /\ Len(w) \in Nat
      /\ Len(es) \in Nat /\ p + Len(es) = Len(w)
  BY AdjoinsFacts
<1>2. \A h \in 1..Len(es) : es[h] = w[p + h]
  BY AdjoinsFacts
<1>3. \A k \in 1..Len(es) : ~ (p + k > Len(x) \/ x[p + k] # es[k])
  BY DEF Missing
<1>4. p <= Len(x) /\ p < Len(w) /\ SameTo(x, w, p)
  BY DEF Adjoins
<1>5. ASSUME NEW i \in 1..Len(w) PROVE i <= Len(x) /\ x[i] = w[i]
  <2>1. CASE i <= p
    <3>1. i <= Len(x) /\ i \in 1..p
      BY <1>1, <1>4, <2>1
    <3> QED BY <1>4, <3>1 DEF SameTo
  <2>2. CASE i > p
    <3>1. PICK k \in 1..Len(es) : p + k = i
      <4>1. i - p \in 1..Len(es) /\ p + (i - p) = i
        BY <1>1, <2>2
      <4> QED BY <4>1
    <3>2. ~ (i > Len(x)) /\ x[i] = es[k] /\ es[k] = w[i]
      BY <1>2, <1>3, <3>1
    <3>3. i <= Len(x)
      BY <1>1, <3>2
    <3> QED BY <3>2, <3>3
  <2> QED BY <1>1, <2>1, <2>2
<1>6. Len(w) \in 1..Len(w)
  BY <1>1, <1>4
<1> QED BY <1>5, <1>6 DEF SameTo

\* x up to i, which are the first i of w, and then es from k on.
GluesAt(s, e, x, w, es, p, k, i, j) ==
  /\ k \in 1..Len(es) /\ i = p + k - 1
  /\ i = j + Len(s) /\ j <= Len(e)
  /\ i <= Len(x) /\ i < Len(w) /\ SameTo(x, w, i)

\* They make w.
LEMMA GlueTogether ==
  ASSUME NEW s \in Seq(Nat), NEW e \in Seq(Nat), NEW x \in Seq(Nat),
         NEW w \in Seq(Nat), NEW es \in Seq(Nat),
         NEW p \in Nat, Adjoins(s, e, x, w, es, p), NEW k \in Nat, NEW i \in Nat,
         NEW j \in Nat, GluesAt(s, e, x, w, es, p, k, i, j)
  PROVE  /\ Front(e, j) \in Seq(Nat)
         /\ Rest(es, k) \in Seq(Nat) /\ Rest(es, k) # <<>>
         /\ Join(s, Join(Front(e, j), Rest(es, k))) = w
<1>1. /\ Len(x) \in Nat /\ Len(w) \in Nat /\ Len(s) \in Nat /\ Len(e) \in Nat
      /\ Len(x) = Len(s) + Len(e)
      /\ Len(es) \in Nat /\ p + Len(es) = Len(w)
  BY AdjoinsFacts
<1>4. SameTo(x, w, p) /\ x = Join(s, e) /\ es = Rest(w, p + 1)
  BY DEF Adjoins
<1>6. k \in 1..Len(es) /\ i = p + k - 1 /\ i = j + Len(s)
  BY DEF GluesAt
<1>9. i <= Len(x) /\ SameTo(x, w, i) /\ i < Len(w) /\ j <= Len(e)
  BY DEF GluesAt
<1>11. PICK cut \in Seq(Nat) : cut = Front(e, j)
  <2>1. j \in 0..Len(e) /\ 1 \in 1..(Len(e) + 1) /\ 1 <= j + 1
    BY <1>1, <1>9
  <2> QED BY <2>1, PartOf DEF Front
<1>12. PICK tail \in Seq(Nat) : tail = Rest(es, k) /\ tail # <<>>
  <2>1. k \in 1..(Len(es) + 1) /\ Len(es) \in 0..Len(es) /\ k <= Len(es) + 1
    BY <1>1, <1>6
  <2>2. /\ Rest(es, k) \in Seq(Nat)
        /\ Len(Rest(es, k)) = Len(es) - k + 1
    BY <2>1, PartOf DEF Rest
  <2>3. PICK tail \in Seq(Nat) : tail = Rest(es, k) /\ Len(tail) = Len(es) - k + 1
    BY <2>2
  <2>4. Len(tail) > 0
    BY <1>1, <1>6, <2>3
  <2>5. tail # <<>>
    BY <2>4, EmptySeq
  <2> QED BY <2>3, <2>5
<1>13. Join(s, cut) = Front(w, i)
  <2>0. CutsAt(s, e, i, j)
    BY <1>6, <1>9 DEF CutsAt
  <2>1. Join(s, Front(e, j)) = Front(Join(s, e), i)
    BY <2>0, CutJoin
  <2>2. Front(x, i) = Front(w, i)
    <3>1. i <= Len(x) /\ i <= Len(w) /\ SameTo(x, w, i)
      BY <1>1, <1>9
    <3> QED BY <3>1, SameFront
  <2> QED BY <1>4, <1>11, <2>1, <2>2
<1>14. tail = Rest(w, i + 1)
  <2>1. Rest(es, k) = Rest(w, p + k)
    <3>1. EndsWith(w, p, es, k)
      BY <1>4, <1>6 DEF EndsWith, Rest
    <3> QED BY <3>1, RestOfRest
  <2>2. p + k = i + 1
    BY <1>6
  <2> QED BY <1>12, <2>1, <2>2
<1>15. Join(s, Join(cut, tail)) = w
  <2>1. i \in 0..Len(w)
    BY <1>1, <1>9
  <2> QED BY <1>13, <1>14, <2>1, JoinThree
<1> QED BY <1>11, <1>12, <1>15

\* w is x up to i, where the first of es that is missing follows, and what
\* follows in es.
MergesAt(s, e, x, w, es, p, k, i, j) ==
  /\ k = Replication!Min(Missing(x, es, p)) /\ i = p + k - 1
  /\ i = j + Len(s) /\ j <= Len(e)
  /\ Front(e, j) \in Seq(Nat)
  /\ Rest(es, k) \in Seq(Nat) /\ Rest(es, k) # <<>>
  /\ Join(s, Join(Front(e, j), Rest(es, k))) = w

\* Something is missing: x up to the first that is missing, and what is missing
\* from there on, are w.
LEMMA MergeMissing ==
  ASSUME NEW s \in Seq(Nat), NEW e \in Seq(Nat), NEW x \in Seq(Nat),
         NEW w \in Seq(Nat), NEW es \in Seq(Nat),
         NEW p \in Nat, Adjoins(s, e, x, w, es, p), Missing(x, es, p) # {}
  PROVE  /\ Differs(x, w)
         /\ \E k \in 1..Len(es) : \E i, j \in Nat : MergesAt(s, e, x, w, es, p, k, i, j)
<1>1. /\ Len(x) \in Nat /\ Len(w) \in Nat /\ Len(s) \in Nat /\ Len(e) \in Nat
      /\ Len(x) = Len(s) + Len(e)
      /\ Len(es) \in Nat /\ p + Len(es) = Len(w)
  BY AdjoinsFacts
<1>2. x \in Seq(Nat) /\ es \in Seq(Nat) /\ \A h \in 1..Len(es) : es[h] = w[p + h]
  BY AdjoinsFacts
<1>3. p <= Len(x) /\ p < Len(w) /\ Len(s) <= p
  BY DEF Adjoins
<1>4. SameTo(x, w, p) /\ x = Join(s, e) /\ es = Rest(w, p + 1)
  BY DEF Adjoins
<1>5. PICK k \in 1..Len(es) : /\ k = Replication!Min(Missing(x, es, p))
                              /\ k \in Missing(x, es, p)
                              /\ \A h \in Missing(x, es, p) : k <= h
  <2>1. Missing(x, es, p) \in SUBSET Nat /\ Missing(x, es, p) \subseteq 1..Len(es)
    BY SMTT(30) DEF Missing
  <2>2. /\ Replication!Min(Missing(x, es, p)) \in Missing(x, es, p)
        /\ \A h \in Missing(x, es, p) : Replication!Min(Missing(x, es, p)) <= h
    BY <2>1, SmallestIn
  <2> QED BY <2>1, <2>2
<1>6. PICK i \in Nat : i = p + k - 1
  <2>1. p + k - 1 \in Nat
    BY <1>1
  <2> QED BY <2>1, Zenon
<1>7. PICK j \in Nat : j = i - Len(s)
  <2>1. i - Len(s) \in Nat
    BY <1>1, <1>3, <1>6
  <2> QED BY <2>1, Zenon
<1>8. ASSUME NEW h \in 1..i PROVE h <= Len(x) /\ x[h] = w[h]
  <2>1. CASE h <= p
    <3>1. h <= Len(x) /\ h \in 1..p
      BY <1>1, <1>3, <2>1
    <3> QED BY <1>4, <3>1 DEF SameTo
  <2>2. CASE h > p
    <3>1. PICK g \in 1..Len(es) : p + g = h /\ ~ (k <= g)
      <4>1. h - p \in 1..Len(es) /\ p + (h - p) = h /\ ~ (k <= h - p)
        BY <1>1, <1>6, <2>2
      <4> QED BY <4>1
    <3>2. g \notin Missing(x, es, p)
      BY <1>5, <3>1
    <3>3. ~ (h > Len(x)) /\ x[h] = es[g] /\ es[g] = w[h]
      BY <1>2, <3>1, <3>2 DEF Missing
    <3>4. h <= Len(x)
      BY <1>1, <3>3
    <3> QED BY <3>3, <3>4
  <2> QED BY <2>1, <2>2
<1>9. i <= Len(x) /\ SameTo(x, w, i) /\ i < Len(w) /\ j <= Len(e)
  <2>1. i <= Len(x)
    <3>1. i = 0 \/ i \in 1..i
      OBVIOUS
    <3> QED BY <1>1, <1>8, <3>1
  <2>2. SameTo(x, w, i)
    BY <1>8 DEF SameTo
  <2>3. i < Len(w)
    BY <1>1, <1>6
  <2>4. j <= Len(e)
    BY <1>1, <1>7, <2>1
  <2> QED BY <2>1, <2>2, <2>3, <2>4
<1>10. Differs(x, w)
  <2>1. PICK b \in 1..Len(w) : b = i + 1
    BY <1>1, <1>9
  <2>2. b - 1 = i /\ b <= Len(x) + 1 /\ b = p + k
    BY <1>1, <1>6, <1>9, <2>1
  <2>3. p + k > Len(x) \/ x[p + k] # es[k]
    BY <1>5 DEF Missing
  <2>4. b <= Len(x) => x[b] # w[b]
    <3>1. es[k] = w[b]
      BY <1>2, <2>2
    <3>2. b > Len(x) \/ x[b] # w[b]
      BY <2>2, <2>3, <3>1
    <3> QED BY <1>1, <3>2
  <2>5. SameTo(x, w, b - 1)
    BY <1>9, <2>2
  <2> QED BY <2>2, <2>4, <2>5 DEF Differs
<1>16. i = j + Len(s)
  BY <1>1, <1>7
<1>17. GluesAt(s, e, x, w, es, p, k, i, j)
  BY <1>6, <1>9, <1>16 DEF GluesAt
<1>18. MergesAt(s, e, x, w, es, p, k, i, j)
  <2>1. /\ Front(e, j) \in Seq(Nat)
        /\ Rest(es, k) \in Seq(Nat) /\ Rest(es, k) # <<>>
        /\ Join(s, Join(Front(e, j), Rest(es, k))) = w
    BY <1>17, GlueTogether, SMTT(30)
  <2> QED BY <1>5, <1>6, <1>9, <1>16, <2>1 DEF MergesAt
<1> QED BY <1>10, <1>18

\* What HandleAppendEntries makes of a log that agrees with w where the new
\* entries begin: it stays if it holds w, and is w if it does not.
LEMMA MergedFull ==
  ASSUME NEW l \in LogType, Whole(l), NEW w \in Seq(Nat), NEW r, Carries(l, r, w)
  PROVE  /\ Replication!Merged(l, r) \in LogType
         /\ Whole(Replication!Merged(l, r))
         /\ Replication!Merged(l, r).saved = l.saved
         /\ \/ /\ Full(Replication!Merged(l, r)) = Full(l)
               /\ Len(w) <= Len(Full(l)) /\ SameTo(Full(l), w, Len(w))
            \/ Full(Replication!Merged(l, r)) = w /\ Differs(Full(l), w)
<1>1. PICK s \in Seq(Nat), e \in Seq(Nat), x \in Seq(Nat) :
        /\ s = l.saved /\ e = l.entries /\ x = Full(l) /\ x = Join(s, e)
        /\ l.first = Len(s) + 1
  BY FullTyped DEF LogType, Full, Whole, Join
<1>2. PICK p \in Nat : p = r.prev /\ r.start - 1 = p
  BY DEF Carries
<1>21. PICK es : es = r.entries
  OBVIOUS
<1>3. Adjoins(s, e, x, w, es, p)
  BY <1>1, <1>2, <1>21 DEF Carries, Adjoins, Rest
<1>4. /\ Len(x) \in Nat /\ Len(w) \in Nat /\ Len(s) \in Nat /\ Len(es) \in Nat
      /\ es \in Seq(Nat)
  BY <1>3, AdjoinsFacts
<1>5. Replication!LastIndex(l) = Len(x)
  BY <1>1, LogReads
<1>6. ASSUME NEW k \in 1..Len(es)
      PROVE  Replication!TermAt(l, p + k) = IF p + k <= Len(x) THEN x[p + k] ELSE 0
  <2>1. PICK i \in Nat : i = p + k
    BY <1>4
  <2>2. i > Len(s)
    BY <1>3, <1>4, <2>1 DEF Adjoins
  <2>3. Replication!TermAt(l, i) = IF i > Len(l.saved) /\ i <= Len(Full(l)) THEN Full(l)[i] ELSE 0
    BY LogReads
  <2>4. Replication!TermAt(l, i) = IF i > Len(s) /\ i <= Len(x) THEN x[i] ELSE 0
    BY <1>1, <2>3, Zenon
  <2> QED BY <2>1, <2>2, <2>4
<1> DEFINE new == Missing(x, es, p)
<1>7. new = {k \in 1..Len(es) : \/ p + k > Replication!LastIndex(l)
                                \/ Replication!TermAt(l, p + k) # es[k]}
  <2>1. ASSUME NEW k \in 1..Len(es)
        PROVE  (p + k > Len(x) \/ x[p + k] # es[k]) <=>
               (p + k > Replication!LastIndex(l) \/ Replication!TermAt(l, p + k) # es[k])
    <3>1. p + k \in Nat
      BY <1>4
    <3>2. CASE p + k > Len(x)
      BY <1>5, <3>2
    <3>3. CASE ~ (p + k > Len(x))
      <4>1. p + k <= Len(x)
        BY <1>4, <3>1, <3>3
      <4> QED BY <1>5, <1>6, <4>1
    <3> QED BY <3>2, <3>3
  <2> QED BY <2>1 DEF Missing
<1>8. Replication!Merged(l, r) =
        IF new = {} THEN l
        ELSE Replication!Extend(
               Replication!TruncateAfter(l, p + Replication!Min(new) - 1),
               SubSeq(es, Replication!Min(new), Len(es)))
  <2>1. new = {k \in 1..Len(r.entries) : \/ r.start - 1 + k > Replication!LastIndex(l)
                                         \/ Replication!TermAt(l, r.start - 1 + k) # r.entries[k]}
    BY <1>2, <1>21, <1>7, Zenon
  <2> HIDE DEF new
  <2>2. Replication!Merged(l, r) =
          IF new = {} THEN l
          ELSE Replication!Extend(
                 Replication!TruncateAfter(l, r.start - 1 + Replication!Min(new) - 1),
                 SubSeq(r.entries, Replication!Min(new), Len(r.entries)))
    BY <2>1, Zenon DEF Replication!Merged
  <2> QED BY <1>2, <1>21, <2>2, Zenon
<1>9. CASE new = {}
  <2>1. Replication!Merged(l, r) = l
    BY <1>8, <1>9
  <2>2. Len(w) <= Len(x) /\ SameTo(x, w, Len(w))
    BY <1>3, <1>4, <1>9, MergeNothing
  <2> QED BY <1>1, <2>1, <2>2
<1>10. CASE new # {}
  <2>1. Differs(x, w)
    BY <1>3, <1>4, <1>10, MergeMissing
  <2>2. PICK k \in 1..Len(es), i \in Nat, j \in Nat : MergesAt(s, e, x, w, es, p, k, i, j)
    BY <1>3, <1>4, <1>10, MergeMissing
  <2>3. PICK cut \in Seq(Nat), tail \in Seq(Nat) :
          /\ cut = Front(e, j) /\ tail = Rest(es, k)
          /\ tail # <<>> /\ Join(s, Join(cut, tail)) = w
    BY <2>2 DEF MergesAt
  <2>4. Replication!TruncateAfter(l, i) = [l EXCEPT !.entries = cut]
    <3>1. i = j + Len(l.saved) /\ j <= Len(l.entries)
      BY <1>1, <2>2 DEF MergesAt
    <3>2. Replication!TruncateAfter(l, i) = [l EXCEPT !.entries = SubSeq(l.entries, 1, j)]
      BY <3>1, TruncateFields
    <3> QED BY <1>1, <2>3, <3>2 DEF Front
  <2> DEFINE m == Replication!Extend([l EXCEPT !.entries = cut], tail)
  <2>5. Replication!Merged(l, r) = m
    <3> HIDE DEF new
    <3>1. k = Replication!Min(new) /\ i = p + Replication!Min(new) - 1
      BY <2>2 DEF new, MergesAt
    <3> QED BY <1>8, <1>10, <2>3, <2>4, <3>1 DEF Rest
  <2>6. /\ m \in LogType /\ m.saved = l.saved /\ m.first = l.first
        /\ m.entries = cut \o tail
    BY ConcatLen DEF Replication!Extend, LogType
  <2>7. cut \o tail # <<>>
    BY <2>3, ConcatLen, EmptySeq
  <2>8. Whole(m)
    BY <2>6, <2>7 DEF Whole
  <2>9. Full(m) = w
    BY <1>1, <2>3, <2>6 DEF Full, Join
  <2> HIDE DEF m
  <2> QED BY <1>1, <2>1, <2>5, <2>6, <2>8, <2>9
<1> QED BY <1>9, <1>10
-----------------------------------------------------------------------------
(* Replication: terms, and the log of the leader of each of them.  T stands  *)
(* for the terms of the nodes, B[t] for the log of the leader of term t, and *)
(* A[q][t] for the highest index that q acknowledged to it.                  *)

Majority == {Q \in SUBSET Node : Cardinality(Q) >= Cardinality(Node) \div 2 + 1}

\* A majority has come to term u.
Reached(T, u) == \E Q \in Majority : \A q \in Q : T[q] >= u

\* The leader of term t appended its entry c itself.
OwnAt(B, t, c) == c \in 1..Len(B[t]) /\ B[t][c] = t

\* Every entry of x is in the log of the leader of its term, after the same ones.
Booked(T, B, x) ==
  \A i \in 1..Len(x) :
    /\ x[i] > 0 /\ Reached(T, x[i])
    /\ i <= Len(B[x[i]]) /\ SameTo(x, B[x[i]], i)

\* x has the first c entries of the leader of term t.
Holds(B, x, t, c) == c <= Len(x) /\ SameTo(x, B[t], c)

\* x has no others up to c.
Agrees(x, y, c) == \A j \in 1..c : j <= Len(x) => x[j] = y[j]

\* A majority has left term t without acknowledging c: it is never committed in
\* term t.
Dead(T, A, t, c) == \E Q \in Majority : \A q \in Q : T[q] > t /\ A[q][t] < c

\* x contradicts nothing that the leader of term t may have committed.
Safe(T, B, A, x, t) ==
  \A c \in Nat : OwnAt(B, t, c) => Agrees(x, B[t], c) \/ Dead(T, A, t, c)

\* A majority acknowledged entry c of term t.
ChosenAt(B, A, t, c) ==
  OwnAt(B, t, c) /\ \E Q \in Majority : \A q \in Q : A[q][t] >= c

\* The first i entries were chosen in a term up to u.
Settled(B, A, u, i) ==
  i = 0 \/ \E t \in 0..u : \E c \in Nat : c >= i /\ ChosenAt(B, A, t, c)

LedgerType(T, B, A) ==
  /\ T \in [Node -> Nat]
  /\ B \in [Nat -> Seq(Nat)]
  /\ A \in [Node -> [Nat -> Nat]]

\* A leader has what may have been chosen before its term.
Complete(T, B, A) ==
  \A t, u, c \in Nat :
    B[t] # <<>> /\ u < t /\ OwnAt(B, u, c) => Holds(B, B[t], u, c) \/ Dead(T, A, u, c)

\* The logs of the leaders.
Ledger(T, B, A) ==
  /\ LedgerType(T, B, A)
  /\ \A t \in Nat : Booked(T, B, B[t])
  /\ \A t \in Nat : \A i \in 1..Len(B[t]) : B[t][i] <= t
  /\ \A t \in Nat : B[t] # <<>> => Reached(T, t)
  /\ Complete(T, B, A)

\* Two majorities have a node in common.
LEMMA MajoritiesMeet ==
  ASSUME NEW P \in Majority, NEW Q \in Majority
  PROVE  \E q \in Node : q \in P /\ q \in Q
<1>1. IsFiniteSet(Node) /\ P \in SUBSET Node /\ Q \in SUBSET Node
  BY ReplicationAssumption DEF Majority
<1>2. Cardinality(Node) \in Nat /\ Cardinality(P) \in Nat /\ Cardinality(Q) \in Nat
  BY <1>1, FS_CardinalityType, FS_Subset
<1>3. /\ Cardinality(P) >= Cardinality(Node) \div 2 + 1
      /\ Cardinality(Q) >= Cardinality(Node) \div 2 + 1
  BY DEF Majority
<1>4. Cardinality(P) + Cardinality(Q) > Cardinality(Node)
  BY <1>2, <1>3
<1>5. P \cap Q # {}
  BY <1>1, <1>4, FS_MajoritiesIntersect
<1> QED BY <1>1, <1>5

\* Cardinality is the same in the instance.
LEMMA SameCardinality ==
  ASSUME NEW S PROVE Replication!Cardinality(S) = Cardinality(S)
BY DEF Replication!Cardinality, Cardinality

\* A quorum is a majority.
LEMMA QuorumMajority ==
  Replication!Quorum \subseteq Majority
<1>1. Cardinality(Node) \in Nat
  BY ReplicationAssumption, FS_CardinalityType
<1>2. Cardinality(Node) \div 2 + 1 >= Cardinality(Node) \div 2 + 1
  BY <1>1
<1>3. ASSUME NEW Q \in Replication!Quorum PROVE Q \in Majority
  <2>1. Q \in SUBSET Node /\ Cardinality(Q) = Cardinality(Node) \div 2 + 1
    BY SameCardinality DEF Replication!Quorum
  <2>2. Cardinality(Q) >= Cardinality(Node) \div 2 + 1
    BY <1>2, <2>1
  <2> QED BY <2>1, <2>2 DEF Majority
<1> QED BY <1>3

\* The leader and the nodes that have an entry are a majority when there are
\* enough of them.
LEMMA CountedMajority ==
  ASSUME NEW n \in Node, NEW S \in SUBSET Node, n \notin S,
         Cardinality(S) + 1 >= Cardinality(Node) \div 2 + 1
  PROVE  S \cup {n} \in Majority
<1>1. IsFiniteSet(S)
  BY ReplicationAssumption, FS_Subset
<1>2. Cardinality(S \cup {n}) = Cardinality(S) + 1
  BY <1>1, FS_AddElement
<1> QED BY <1>2 DEF Majority

\* What was chosen is not dead.
LEMMA ChosenNotDead ==
  ASSUME NEW T, NEW B, NEW A, LedgerType(T, B, A), NEW t \in Nat, NEW c \in Nat,
         ChosenAt(B, A, t, c)
  PROVE  ~ Dead(T, A, t, c)
<1> SUFFICES ASSUME Dead(T, A, t, c) PROVE FALSE
  OBVIOUS
<1>1. PICK P \in Majority : \A q \in P : A[q][t] >= c
  BY DEF ChosenAt
<1>2. PICK Q \in Majority : \A q \in Q : A[q][t] < c
  BY DEF Dead
<1>3. PICK q \in Node : q \in P /\ q \in Q
  BY MajoritiesMeet
<1>4. A[q][t] >= c /\ A[q][t] < c /\ A[q][t] \in Nat
  BY <1>1, <1>2, <1>3 DEF LedgerType
<1> QED BY <1>4

\* A majority that is before term u keeps it from being reached.
LEMMA NotReached ==
  ASSUME NEW T \in [Node -> Nat], NEW Q \in Majority, NEW u \in Nat,
         \A q \in Q : T[q] < u
  PROVE  ~ Reached(T, u)
<1> SUFFICES ASSUME Reached(T, u) PROVE FALSE
  OBVIOUS
<1>1. PICK P \in Majority : \A q \in P : T[q] >= u
  BY DEF Reached
<1>2. PICK q \in Node : q \in P /\ q \in Q
  BY MajoritiesMeet
<1>3. T[q] >= u /\ T[q] < u /\ T[q] \in Nat
  BY <1>1, <1>2
<1> QED BY <1>3

\* Terms before one that was reached were reached.
LEMMA ReachedBefore ==
  ASSUME NEW T \in [Node -> Nat], NEW u \in Nat, NEW v \in Nat, v <= u, Reached(T, u)
  PROVE  Reached(T, v)
<1>1. PICK P \in Majority : \A q \in P : T[q] >= u
  BY DEF Reached
<1>2. ASSUME NEW q \in P PROVE T[q] >= v
  <2>1. q \in Node
    BY DEF Majority
  <2>2. T[q] \in Nat /\ T[q] >= u
    BY <1>1, <2>1
  <2> QED BY <2>2
<1> QED BY <1>2 DEF Reached

\* Two booked sequences with the same entry at i are the same up to it.
LEMMA BookedSame ==
  ASSUME NEW T, NEW B, NEW x, NEW y, NEW i \in Nat,
         Booked(T, B, x), Booked(T, B, y), i \in 1..Len(x), i \in 1..Len(y), x[i] = y[i]
  PROVE  SameTo(x, y, i)
BY DEF Booked, SameTo

\* A booked sequence is the log of the leader of its last term so far.
LEMMA BookedLast ==
  ASSUME NEW T, NEW B, NEW x, NEW i \in 1..Len(x), Booked(T, B, x)
  PROVE  x[i] > 0 /\ Reached(T, x[i]) /\ Holds(B, B[x[i]], x[i], i) /\ SameTo(x, B[x[i]], i)
BY DEF Booked, Holds, SameTo

-----------------------------------------------------------------------------
(* Replication: what a step may do to the terms, the logs of the leaders and *)
(* the acknowledgements, and what it keeps.                                  *)

\* B1 holds what B held.
Longer(B, B1) ==
  \A t \in Nat : Len(B[t]) <= Len(B1[t]) /\ SameTo(B1[t], B[t], Len(B[t]))

\* A later term keeps what the leader of term t adds from being committed.
Late(T, B, T1, B1, A1) ==
  \A t, c, u \in Nat :
    OwnAt(B1, t, c) /\ ~ OwnAt(B, t, c) /\ t < u /\ Reached(T, u) => Dead(T1, A1, t, c)

Frame(T, B, A, T1, B1, A1) ==
  /\ LedgerType(T, B, A) /\ LedgerType(T1, B1, A1)
  /\ \A q \in Node : T[q] <= T1[q]
  /\ Longer(B, B1)
  /\ \A q \in Node : \A t \in Nat :
       A[q][t] <= A1[q][t] /\ (A1[q][t] # A[q][t] => T[q] <= t)
  /\ Late(T, B, T1, B1, A1)

\* What was reached stays so.
LEMMA KeepsReached ==
  ASSUME NEW T, NEW B, NEW A, NEW T1, NEW B1, NEW A1, Frame(T, B, A, T1, B1, A1),
         NEW u \in Nat, Reached(T, u)
  PROVE  Reached(T1, u)
<1>1. PICK P \in Majority : \A q \in P : T[q] >= u
  BY DEF Reached
<1>2. ASSUME NEW q \in P PROVE T1[q] >= u
  <2>1. q \in Node
    BY DEF Majority
  <2>2. T[q] \in Nat /\ T1[q] \in Nat /\ T[q] >= u /\ T[q] <= T1[q]
    BY <1>1, <2>1 DEF Frame, LedgerType
  <2> QED BY <2>2
<1> QED BY <1>2 DEF Reached

\* An entry of a leader stays where it is.
LEMMA KeepsEntry ==
  ASSUME NEW T, NEW B, NEW A, NEW T1, NEW B1, NEW A1, Frame(T, B, A, T1, B1, A1),
         NEW t \in Nat, NEW i \in 1..Len(B[t])
  PROVE  i \in 1..Len(B1[t]) /\ B1[t][i] = B[t][i]
<1>1. Len(B[t]) <= Len(B1[t]) /\ SameTo(B1[t], B[t], Len(B[t]))
  BY DEF Frame, Longer
<1>2. B[t] \in Seq(Nat) /\ B1[t] \in Seq(Nat)
  BY DEF Frame, LedgerType
<1>3. Len(B[t]) \in Nat /\ Len(B1[t]) \in Nat
  BY <1>2, EmptySeq
<1> QED BY <1>1, <1>3 DEF SameTo

\* So does what a leader appended itself.
LEMMA KeepsOwn ==
  ASSUME NEW T, NEW B, NEW A, NEW T1, NEW B1, NEW A1, Frame(T, B, A, T1, B1, A1),
         NEW t \in Nat, NEW c, OwnAt(B, t, c)
  PROVE  OwnAt(B1, t, c)
BY KeepsEntry DEF OwnAt

\* And what agrees with it.
LEMMA KeepsSame ==
  ASSUME NEW T, NEW B, NEW A, NEW T1, NEW B1, NEW A1, Frame(T, B, A, T1, B1, A1),
         NEW t \in Nat, NEW c \in Nat, c <= Len(B[t]), NEW x, SameTo(x, B[t], c)
  PROVE  c <= Len(B1[t]) /\ SameTo(x, B1[t], c)
<1>1. B[t] \in Seq(Nat) /\ B1[t] \in Seq(Nat)
  BY DEF Frame, LedgerType
<1>2. Len(B[t]) \in Nat /\ Len(B1[t]) \in Nat
  BY <1>1, EmptySeq
<1>3. ASSUME NEW j \in 1..c PROVE j \in 1..Len(B1[t]) /\ x[j] = B1[t][j]
  <2>1. j \in 1..Len(B[t])
    BY <1>2
  <2>2. j \in 1..Len(B1[t]) /\ B1[t][j] = B[t][j]
    BY <2>1, KeepsEntry
  <2>3. x[j] = B[t][j]
    BY DEF SameTo
  <2> QED BY <2>2, <2>3
<1>4. c <= Len(B1[t])
  <2>1. CASE c = 0
    BY <1>2, <2>1
  <2>2. CASE c # 0
    <3>1. c \in 1..c
      BY <2>2
    <3>2. c \in 1..Len(B1[t])
      BY <1>3, <3>1
    <3> QED BY <1>2, <3>2
  <2> QED BY <2>1, <2>2
<1> QED BY <1>3, <1>4 DEF SameTo

\* Booked sequences stay booked.
LEMMA KeepsBooked ==
  ASSUME NEW T, NEW B, NEW A, NEW T1, NEW B1, NEW A1, Frame(T, B, A, T1, B1, A1),
         NEW x \in Seq(Nat), Booked(T, B, x)
  PROVE  Booked(T1, B1, x)
<1> SUFFICES ASSUME NEW i \in 1..Len(x)
             PROVE  /\ x[i] > 0 /\ Reached(T1, x[i])
                    /\ i <= Len(B1[x[i]]) /\ SameTo(x, B1[x[i]], i)
  BY DEF Booked
<1>1. PICK t \in Nat : t = x[i]
  OBVIOUS
<1>2. t > 0 /\ Reached(T, t) /\ i <= Len(B[t]) /\ SameTo(x, B[t], i)
  BY <1>1 DEF Booked
<1>3. Reached(T1, t)
  BY <1>2, KeepsReached
<1>4. i \in Nat
  OBVIOUS
<1>5. i <= Len(B1[t]) /\ SameTo(x, B1[t], i)
  BY <1>2, <1>4, KeepsSame
<1> QED BY <1>1, <1>2, <1>3, <1>5

\* What is dead stays so.
LEMMA KeepsDead ==
  ASSUME NEW T, NEW B, NEW A, NEW T1, NEW B1, NEW A1, Frame(T, B, A, T1, B1, A1),
         NEW t \in Nat, NEW c \in Nat, Dead(T, A, t, c)
  PROVE  Dead(T1, A1, t, c)
<1>1. PICK Q \in Majority : \A q \in Q : T[q] > t /\ A[q][t] < c
  BY DEF Dead
<1>2. ASSUME NEW q \in Q PROVE T1[q] > t /\ A1[q][t] < c
  <2>1. q \in Node
    BY DEF Majority
  <2>2. /\ T[q] \in Nat /\ T1[q] \in Nat /\ T[q] > t /\ T[q] <= T1[q]
        /\ A[q][t] < c
        /\ A1[q][t] # A[q][t] => T[q] <= t
    BY <1>1, <2>1 DEF Frame, LedgerType
  <2> QED BY <2>2
<1> QED BY <1>2 DEF Dead

\* What is held is kept.
LEMMA KeepsHolds ==
  ASSUME NEW T, NEW B, NEW A, NEW T1, NEW B1, NEW A1, Frame(T, B, A, T1, B1, A1),
         NEW t \in Nat, NEW c \in Nat, OwnAt(B, t, c), NEW x, Holds(B, x, t, c)
  PROVE  Holds(B1, x, t, c)
<1>1. B[t] \in Seq(Nat)
  BY DEF Frame, LedgerType
<1>2. c <= Len(B[t])
  BY <1>1, EmptySeq DEF OwnAt
<1> QED BY <1>2, KeepsSame DEF Holds

\* What is chosen stays so.
LEMMA KeepsChosenAt ==
  ASSUME NEW T, NEW B, NEW A, NEW T1, NEW B1, NEW A1, Frame(T, B, A, T1, B1, A1),
         NEW t \in Nat, NEW c \in Nat, ChosenAt(B, A, t, c)
  PROVE  ChosenAt(B1, A1, t, c)
<1>1. PICK Q \in Majority : \A q \in Q : A[q][t] >= c
  BY DEF ChosenAt
<1>2. ASSUME NEW q \in Q PROVE A1[q][t] >= c
  <2>1. q \in Node
    BY DEF Majority
  <2>2. A[q][t] \in Nat /\ A1[q][t] \in Nat /\ A[q][t] >= c /\ A[q][t] <= A1[q][t]
    BY <1>1, <2>1, ZenonT(30) DEF Frame, LedgerType
  <2> QED BY <2>2
<1>3. OwnAt(B1, t, c)
  BY KeepsOwn DEF ChosenAt
<1> QED BY <1>2, <1>3 DEF ChosenAt

\* What is settled stays so, in later terms and for fewer entries too.
LEMMA KeepsSettled ==
  ASSUME NEW T, NEW B, NEW A, NEW T1, NEW B1, NEW A1, Frame(T, B, A, T1, B1, A1),
         NEW u \in Nat, NEW v \in Nat, u <= v, NEW i \in Nat, NEW j \in Nat, j <= i,
         Settled(B, A, u, i)
  PROVE  Settled(B1, A1, v, j)
<1>1. CASE i = 0
  BY <1>1 DEF Settled
<1>2. CASE i # 0
  <2>1. PICK t \in 0..u, c \in Nat : c >= i /\ ChosenAt(B, A, t, c)
    BY <1>2 DEF Settled
  <2>2. ChosenAt(B1, A1, t, c)
    BY <2>1, KeepsChosenAt
  <2>3. t \in 0..v /\ c >= j
    BY <2>1
  <2> QED BY <2>2, <2>3 DEF Settled
<1> QED BY <1>1, <1>2

\* What is safe stays so, if the log of term t does not grow or a later term was
\* reached.
LEMMA KeepsSafe ==
  ASSUME NEW T, NEW B, NEW A, NEW T1, NEW B1, NEW A1, Frame(T, B, A, T1, B1, A1),
         NEW t \in Nat, NEW x, Safe(T, B, A, x, t),
         B1[t] = B[t] \/ \E u \in Nat : t < u /\ Reached(T, u)
  PROVE  Safe(T1, B1, A1, x, t)
<1> SUFFICES ASSUME NEW c \in Nat, OwnAt(B1, t, c), ~ Dead(T1, A1, t, c)
             PROVE  Agrees(x, B1[t], c)
  BY DEF Safe
<1>1. OwnAt(B, t, c)
  BY DEF Frame, Late, OwnAt
<1>2. ~ Dead(T, A, t, c)
  BY KeepsDead
<1>3. Agrees(x, B[t], c)
  BY <1>1, <1>2 DEF Safe
<1>4. ASSUME NEW j \in 1..c PROVE B1[t][j] = B[t][j]
  <2>1. B[t] \in Seq(Nat)
    BY DEF Frame, LedgerType
  <2>2. j \in 1..Len(B[t])
    BY <1>1, <2>1, EmptySeq DEF OwnAt
  <2> QED BY <2>2, KeepsEntry
<1> QED BY <1>3, <1>4 DEF Agrees

\* Acknowledgements only grow, and terms.
LEMMA KeepsAcks ==
  ASSUME NEW T, NEW B, NEW A, NEW T1, NEW B1, NEW A1, Frame(T, B, A, T1, B1, A1),
         NEW q \in Node, NEW t \in Nat
  PROVE  /\ A[q][t] \in Nat /\ A1[q][t] \in Nat /\ A[q][t] <= A1[q][t]
         /\ T[q] \in Nat /\ T1[q] \in Nat /\ T[q] <= T1[q]
BY ZenonT(30) DEF Frame, LedgerType

\* The logs of the leaders when no leader appends.
LEMMA LedgerKept ==
  ASSUME NEW T, NEW B, NEW A, NEW T1, NEW A1, Frame(T, B, A, T1, B, A1), Ledger(T, B, A)
  PROVE  Ledger(T1, B, A1)
<1>1. LedgerType(T1, B, A1)
  BY DEF Frame
<1>2. ASSUME NEW t \in Nat PROVE Booked(T1, B, B[t])
  <2>1. B[t] \in Seq(Nat) /\ Booked(T, B, B[t])
    BY DEF Ledger, LedgerType
  <2> QED BY <2>1, KeepsBooked
<1>3. \A t \in Nat : \A i \in 1..Len(B[t]) : B[t][i] <= t
  BY DEF Ledger
<1>4. ASSUME NEW t \in Nat, B[t] # <<>> PROVE Reached(T1, t)
  BY <1>4, KeepsReached DEF Ledger
<1>5. ASSUME NEW t \in Nat, NEW u \in Nat, NEW c \in Nat,
             B[t] # <<>>, u < t, OwnAt(B, u, c)
      PROVE  Holds(B, B[t], u, c) \/ Dead(T1, A1, u, c)
  <2>1. Holds(B, B[t], u, c) \/ Dead(T, A, u, c)
    BY <1>5 DEF Ledger, Complete
  <2> QED BY <2>1, KeepsDead
<1> QED BY <1>1, <1>2, <1>3, <1>4, <1>5 DEF Ledger, Complete

\* The log y of the leader of term t has what the leaders before it may have
\* committed.
Completes(T1, B, A1, y, t) ==
  \A u, c \in Nat : u < t /\ OwnAt(B, u, c) => Holds(B, y, u, c) \/ Dead(T1, A1, u, c)

\* The logs of the leaders when that of term t becomes y.
LEMMA LedgerGrows ==
  ASSUME NEW T, NEW B, NEW A, NEW T1, NEW B1, NEW A1, Frame(T, B, A, T1, B1, A1),
         Ledger(T, B, A), NEW t \in Nat, NEW y \in Seq(Nat), B1 = [B EXCEPT ![t] = y],
         Booked(T1, B1, y), \A i \in 1..Len(y) : y[i] <= t, Reached(T1, t),
         Completes(T1, B, A1, y, t)
  PROVE  Ledger(T1, B1, A1)
<1>1. LedgerType(T1, B1, A1) /\ LedgerType(T, B, A)
  BY DEF Frame
<1>2. B1[t] = y /\ \A v \in Nat : v # t => B1[v] = B[v]
  BY <1>1 DEF LedgerType
<1>3. ASSUME NEW v \in Nat PROVE Booked(T1, B1, B1[v])
  <2>1. CASE v = t
    BY <1>2, <2>1
  <2>2. CASE v # t
    <3>1. B[v] \in Seq(Nat) /\ Booked(T, B, B[v])
      BY DEF Ledger, LedgerType
    <3>2. Booked(T1, B1, B[v])
      BY <3>1, KeepsBooked
    <3> QED BY <1>2, <2>2, <3>2
  <2> QED BY <2>1, <2>2
<1>4. ASSUME NEW v \in Nat, NEW i \in 1..Len(B1[v]) PROVE B1[v][i] <= v
  BY <1>2 DEF Ledger
<1>5. ASSUME NEW v \in Nat, B1[v] # <<>> PROVE Reached(T1, v)
  BY <1>2, <1>5, KeepsReached DEF Ledger
<1>6. ASSUME NEW v \in Nat, NEW u \in Nat, NEW c \in Nat,
             B1[v] # <<>>, u < v, OwnAt(B1, u, c)
      PROVE  Holds(B1, B1[v], u, c) \/ Dead(T1, A1, u, c)
  <2>1. CASE v = t
    <3>1. u # t /\ B1[u] = B[u]
      BY <1>2, <1>6, <2>1
    <3>2. OwnAt(B, u, c)
      BY <1>6, <3>1 DEF OwnAt
    <3>3. Holds(B, y, u, c) \/ Dead(T1, A1, u, c)
      BY <1>6, <2>1, <3>2 DEF Completes
    <3> QED BY <1>2, <2>1, <3>1, <3>3 DEF Holds
  <2>2. CASE v # t
    <3>0. B1[v] = B[v] /\ B[v] # <<>>
      BY <1>2, <1>6, <2>2
    <3>1. CASE OwnAt(B, u, c)
      <4>1. Holds(B, B[v], u, c) \/ Dead(T, A, u, c)
        BY <1>6, <3>0, <3>1 DEF Ledger, Complete
      <4>2. Holds(B1, B[v], u, c) \/ Dead(T1, A1, u, c)
        BY <3>1, <4>1, KeepsDead, KeepsHolds
      <4> QED BY <3>0, <4>2
    <3>2. CASE ~ OwnAt(B, u, c)
      <4>1. Reached(T, v)
        BY <3>0 DEF Ledger
      <4> QED BY <1>6, <3>2, <4>1 DEF Frame, Late
    <3> QED BY <3>1, <3>2
  <2> QED BY <2>1, <2>2
<1> QED BY <1>1, <1>3, <1>4, <1>5, <1>6 DEF Ledger, Complete

\* What node q, which has x, acknowledged in term t.
AckedAt(T, B, A, q, x, t) ==
  /\ A[q][t] > 0 => t <= T[q] /\ Reached(T, t)
  /\ \A c \in Nat : OwnAt(B, t, c) /\ c <= A[q][t] => Holds(B, x, t, c) \/ Dead(T, A, t, c)

Acked(T, B, A, q, x) == \A t \in Nat : AckedAt(T, B, A, q, x, t)

\* y begins with x.
Begins(x, y) == Len(x) <= Len(y) /\ SameTo(x, y, Len(x))

\* Acknowledgements of a log that only grows are kept.
LEMMA KeepsAckedAt ==
  ASSUME NEW T, NEW B, NEW A, NEW T1, NEW B1, NEW A1, Frame(T, B, A, T1, B1, A1),
         NEW q \in Node, NEW x \in Seq(Nat), NEW x1 \in Seq(Nat), Begins(x, x1),
         NEW t \in Nat,
         AckedAt(T, B, A, q, x, t), A1[q][t] = A[q][t],
         B1[t] = B[t] \/ A[q][t] <= Len(B[t])
  PROVE  AckedAt(T1, B1, A1, q, x1, t)
<1>0. /\ T[q] \in Nat /\ T1[q] \in Nat /\ T[q] <= T1[q] /\ A[q][t] \in Nat
      /\ B[t] \in Seq(Nat) /\ B1[t] \in Seq(Nat)
  BY DEF Frame, LedgerType
<1>1. ASSUME A1[q][t] > 0 PROVE t <= T1[q] /\ Reached(T1, t)
  <2>1. t <= T[q] /\ Reached(T, t)
    BY <1>1 DEF AckedAt
  <2> QED BY <1>0, <2>1, KeepsReached
<1>2. ASSUME NEW c \in Nat, OwnAt(B1, t, c), c <= A1[q][t]
      PROVE  Holds(B1, x1, t, c) \/ Dead(T1, A1, t, c)
  <2>1. OwnAt(B, t, c)
    <3>1. CASE B1[t] = B[t]
      BY <1>2, <3>1 DEF OwnAt
    <3>2. CASE A[q][t] <= Len(B[t])
      <4>1. Len(B[t]) \in Nat
        BY <1>0, EmptySeq
      <4>2. c \in 1..Len(B[t])
        BY <1>0, <1>2, <3>2, <4>1 DEF OwnAt
      <4>3. B1[t][c] = B[t][c]
        BY <4>2, KeepsEntry
      <4> QED BY <1>2, <4>2, <4>3 DEF OwnAt
    <3> QED BY <3>1, <3>2
  <2>2. Holds(B, x, t, c) \/ Dead(T, A, t, c)
    BY <1>2, <2>1 DEF AckedAt
  <2>3. ASSUME Holds(B, x, t, c) PROVE Holds(B1, x1, t, c)
    <3>1. Holds(B1, x, t, c)
      BY <2>1, <2>3, KeepsHolds
    <3>2. Len(x) \in Nat /\ Len(x1) \in Nat
      BY EmptySeq
    <3>3. c <= Len(x1)
      BY <3>1, <3>2 DEF Holds, Begins
    <3>4. ASSUME NEW j \in 1..c PROVE x1[j] = B1[t][j]
      <4>1. j \in 1..Len(x)
        BY <3>1, <3>2 DEF Holds
      <4> QED BY <3>1, <4>1 DEF Holds, Begins, SameTo
    <3> QED BY <3>3, <3>4 DEF Holds, SameTo
  <2> QED BY <2>2, <2>3, KeepsDead
<1> QED BY <1>1, <1>2 DEF AckedAt

\* The entries that are chosen: the last was chosen in its own term.
ChosenOk(B, A, y) ==
  /\ y \in Seq(Nat)
  /\ y # <<>> => /\ ChosenAt(B, A, y[Len(y)], Len(y))
                 /\ SameTo(y, B[y[Len(y)]], Len(y))

\* What is chosen at t and c contradicts none of them.
LEMMA ChosenAgree ==
  ASSUME NEW T, NEW B, NEW A, Ledger(T, B, A), NEW y, ChosenOk(B, A, y),
         NEW t \in Nat, NEW c \in Nat, ChosenAt(B, A, t, c)
  PROVE  Agrees(y, B[t], c)
<1> SUFFICES ASSUME NEW j \in 1..c, j <= Len(y) PROVE y[j] = B[t][j]
  BY DEF Agrees
<1>1. y \in Seq(Nat) /\ LedgerType(T, B, A)
  BY DEF ChosenOk, Ledger
<1>2. Len(y) \in Nat /\ y # <<>> /\ Len(y) \in 1..Len(y)
  BY <1>1, EmptySeq
<1>3. PICK d \in Nat : d = Len(y)
  BY <1>2
<1>4. PICK s \in Nat : s = y[d]
  BY <1>1, <1>2, <1>3
<1>5. ChosenAt(B, A, s, d) /\ SameTo(y, B[s], d) /\ j \in 1..d
  BY <1>2, <1>3, <1>4 DEF ChosenOk
<1>6. y[j] = B[s][j]
  BY <1>5 DEF SameTo
<1>7. OwnAt(B, t, c) /\ OwnAt(B, s, d)
  BY <1>5 DEF ChosenAt
<1>8. ~ Dead(T, A, t, c) /\ ~ Dead(T, A, s, d)
  BY <1>1, <1>5, ChosenNotDead
<1>9. B[t] # <<>> /\ B[s] # <<>>
  <2>1. B[t] \in Seq(Nat) /\ B[s] \in Seq(Nat)
    BY <1>1 DEF LedgerType
  <2> QED BY <1>7, <2>1, EmptySeq DEF OwnAt
<1>10. CASE t < s
  <2>1. Holds(B, B[s], t, c)
    BY <1>7, <1>8, <1>9, <1>10 DEF Ledger, Complete
  <2> QED BY <1>6, <2>1 DEF Holds, SameTo
<1>11. CASE s < t
  <2>1. Holds(B, B[t], s, d)
    BY <1>7, <1>8, <1>9, <1>11 DEF Ledger, Complete
  <2> QED BY <1>5, <1>6, <2>1 DEF Holds, SameTo
<1> QED BY <1>6, <1>10, <1>11

\* The last term of a log.
LastOf(x) == IF x = <<>> THEN 0 ELSE x[Len(x)]

\* The log y is at least as up to date as x.
UpToDate(x, y) ==
  \/ LastOf(y) > LastOf(x)
  \/ LastOf(y) = LastOf(x) /\ Len(y) >= Len(x)

\* A log that is at least as up to date as one that holds c of term u holds it
\* too, or it is dead.
LEMMA UpToDateHolds ==
  ASSUME NEW T, NEW B, NEW A, Ledger(T, B, A), NEW x \in Seq(Nat), NEW y \in Seq(Nat),
         Booked(T, B, x), Booked(T, B, y), UpToDate(x, y),
         NEW u \in Nat, NEW c \in Nat, OwnAt(B, u, c), Holds(B, x, u, c)
  PROVE  Holds(B, y, u, c) \/ Dead(T, A, u, c)
<1>1. /\ LedgerType(T, B, A) /\ Len(x) \in Nat /\ Len(y) \in Nat
      /\ \A t \in Nat : B[t] \in Seq(Nat) /\ Len(B[t]) \in Nat
  BY EmptySeq DEF Ledger, LedgerType
<1>2. c \in 1..Len(x) /\ x[c] = u /\ c \in 1..c
  BY <1>1 DEF OwnAt, Holds, SameTo
<1>3. x # <<>> /\ Len(x) \in 1..Len(x)
  BY <1>1, <1>2, EmptySeq
<1>4. PICK v \in Nat : v = x[Len(x)] /\ v = LastOf(x)
  BY <1>3 DEF LastOf
<1>5. v > 0 /\ Len(x) <= Len(B[v]) /\ SameTo(x, B[v], Len(x))
  BY <1>3, <1>4 DEF Booked
<1>6. u <= v
  <2>1. c \in 1..Len(B[v]) /\ B[v][c] = x[c]
    BY <1>1, <1>2, <1>5, SMTT(30) DEF SameTo
  <2> QED BY <1>2, <2>1 DEF Ledger
<1>7. y # <<>>
  BY <1>4, <1>5 DEF UpToDate, LastOf
<1>8. Len(y) \in 1..Len(y)
  BY <1>1, <1>7, EmptySeq
<1>9. PICK s \in Nat : s = y[Len(y)] /\ s = LastOf(y)
  BY <1>7, <1>8 DEF LastOf
<1>10. s > 0 /\ Len(y) <= Len(B[s]) /\ SameTo(y, B[s], Len(y))
  BY <1>8, <1>9 DEF Booked
<1>11. CASE s = v /\ Len(y) >= Len(x)
  <2>1. c <= Len(y)
    BY <1>1, <1>2, <1>11
  <2>2. ASSUME NEW j \in 1..c PROVE y[j] = B[u][j]
    <3>1. j \in 1..Len(x) /\ j \in 1..Len(y)
      BY <1>1, <1>2, <2>1
    <3>2. y[j] = B[s][j] /\ x[j] = B[v][j]
      BY <1>5, <1>10, <3>1 DEF SameTo
    <3>3. x[j] = B[u][j]
      BY DEF Holds, SameTo
    <3> QED BY <1>11, <3>2, <3>3
  <2> QED BY <2>1, <2>2 DEF Holds, SameTo
<1>12. CASE s > v
  <2>1. B[s] # <<>> /\ u < s
    BY <1>1, <1>6, <1>8, <1>10, <1>12, EmptySeq
  <2>2. CASE Dead(T, A, u, c)
    BY <2>2
  <2>3. CASE Holds(B, B[s], u, c)
    <3>1. c <= Len(y)
      <4> SUFFICES ASSUME Len(y) < c PROVE FALSE
        BY <1>1
      <4>1. Len(y) \in 1..c /\ Len(y) \in 1..Len(B[u])
        BY <1>1, <1>8 DEF OwnAt
      <4>2. B[s][Len(y)] = B[u][Len(y)] /\ B[s][Len(y)] = y[Len(y)]
        BY <1>8, <1>10, <2>3, <4>1 DEF Holds, SameTo
      <4>3. B[u][Len(y)] <= u
        BY <4>1 DEF Ledger
      <4> QED BY <1>9, <2>1, <4>2, <4>3
    <3>2. ASSUME NEW j \in 1..c PROVE y[j] = B[u][j]
      <4>1. j \in 1..Len(y)
        BY <1>1, <3>1
      <4> QED BY <1>10, <2>3, <4>1 DEF Holds, SameTo
    <3> QED BY <3>1, <3>2 DEF Holds, SameTo
  <2> QED BY <2>1, <2>2, <2>3 DEF Ledger, Complete
<1>13. (s = v /\ Len(y) >= Len(x)) \/ s > v
  BY <1>4, <1>9 DEF UpToDate
<1> QED BY <1>11, <1>12, <1>13

-----------------------------------------------------------------------------
(* Replication: the invariant.  T, L, G, C and Y stand for term, leads, log, *)
(* commit and chosen.                                                        *)

\* The log of node n.
LogOk(T, B, A, n, l) ==
  /\ l \in LogType /\ Whole(l)
  /\ Booked(T, B, Full(l))
  /\ Reached(T, T[n])
  /\ Acked(T, B, A, n, Full(l))

\* What a node in term u with the log l has committed, c, and applied, a and f.
ApplyOk(B, A, u, l, y, c, a, f) ==
  /\ c \in Nat /\ a \in Nat /\ a <= c
  /\ c <= Len(y) /\ c <= Len(Full(l)) /\ SameTo(Full(l), y, c)
  /\ Settled(B, A, u, c)
  /\ Len(l.saved) <= Len(y) /\ l.saved = Front(y, Len(l.saved))
  /\ f = Front(y, Later(a, Len(l.saved)))

\* A leader n with the entries x and MatchIndex m.
LeaderOk(T, B, A, n, x, m) ==
  /\ T[n] >= 1 /\ x # <<>> /\ x = B[T[n]]
  /\ Len(x) <= A[n][T[n]]
  /\ \A q \in Node : A[q][T[n]] <= Len(x) /\ m[q] <= A[q][T[n]]

\* x contradicts nothing that the leaders up to term u may have committed.
SafeTo(T, B, A, x, u) == \A t \in 0..u : Safe(T, B, A, x, t)

\* What is true of every RPC.
SentOk(T, A, r) ==
  /\ r.from \in Node /\ r.to \in Node /\ r.term \in Nat
  /\ Reached(T, r.term)
  /\ r.kind = "installed" => r.sent \in Nat /\ r.sent < r.term
  /\ r.kind = "reply" =>
       /\ r.conflictIndex \in Nat
       /\ r.success => r.last \in Nat /\ r.last <= A[r.to][r.term]

\* A goroutine of replicateTo reads one after the other what it sends.
Reading == {"begun", "next", "first", "prev", "last"}

\* A goroutine that reads, of a node with commit index c and entries x.
BegunOk(T, B, A, L, r, c, x) ==
  /\ r.commit \in Nat /\ r.commit <= c /\ r.term <= T[r.from]
  /\ r.next \in Nat
  /\ r.kind = "last" => r.last \in Nat /\ r.commit <= r.last
  /\ SafeTo(T, B, A, x, r.term)
  /\ Settled(B, A, r.term, r.commit)
  /\ \A n \in Node : L[n] /\ T[n] = r.term => n = r.from

\* An AppendEntries whose sender had the entries w when it was sent.
AppendOf(T, B, A, L, G, y, r, w) ==
  /\ Booked(T, B, w)
  /\ r.entries = Rest(w, r.prev + 1) /\ r.start = r.prev + 1
  /\ r.prevTerm # 0 => r.prev \in 1..Len(w) /\ w[r.prev] = r.prevTerm
  /\ r.prevTerm = 0 /\ r.prev <= Len(w) => r.prev <= Len(y) /\ SameTo(w, y, r.prev)
  /\ r.commit <= Len(w) /\ r.commit <= Len(y) /\ SameTo(w, y, r.commit)
  /\ SafeTo(T, B, A, w, r.term)
  /\ Settled(B, A, r.term, r.commit)
  /\ \A n \in Node : L[n] /\ T[n] = r.term => Begins(w, Full(G[n]))

AppendOk(T, B, A, L, G, y, r) ==
  /\ r.commit \in Nat /\ r.prev \in Nat
  /\ \E w \in Seq(Nat) : AppendOf(T, B, A, L, G, y, r, w)

RpcOk(T, L, G, C, Y, B, A, r) ==
  /\ SentOk(T, A, r)
  /\ r.kind \in Reading => BegunOk(T, B, A, L, r, C[r.from], Full(G[r.from]))
  /\ r.kind = "append" => AppendOk(T, B, A, L, G, Y, r)

\* Nothing of a log changes that others know of.
LEMMA KeepsLogOk ==
  ASSUME NEW T, NEW B, NEW A, NEW T1, NEW B1, NEW A1, Frame(T, B, A, T1, B1, A1),
         NEW n \in Node, NEW l, LogOk(T, B, A, n, l),
         NEW l1 \in LogType, Whole(l1), Full(l1) = Full(l),
         T1[n] = T[n] \/ Reached(T1, T1[n]),
         \A t \in Nat : A1[n][t] = A[n][t] /\ (B1[t] = B[t] \/ A[n][t] <= Len(B[t]))
  PROVE  LogOk(T1, B1, A1, n, l1)
<1>1. PICK x \in Seq(Nat) : x = Full(l)
  BY FullTyped DEF LogOk
<1>2. Begins(x, x)
  BY EmptySeq DEF Begins, SameTo
<1>3. Booked(T1, B1, x)
  BY <1>1, KeepsBooked DEF LogOk
<1>4. Reached(T1, T1[n])
  <2>1. T[n] \in Nat
    BY DEF Frame, LedgerType
  <2> QED BY <2>1, KeepsReached DEF LogOk
<1>5. ASSUME NEW t \in Nat PROVE AckedAt(T1, B1, A1, n, x, t)
  <2>1. AckedAt(T, B, A, n, x, t)
    BY <1>1 DEF LogOk, Acked
  <2> QED BY <1>2, <2>1, KeepsAckedAt
<1> QED BY <1>1, <1>3, <1>4, <1>5 DEF LogOk, Acked

\* What is at the beginning of the beginning.
LEMMA FrontOfBegins ==
  ASSUME NEW y \in Seq(Nat), NEW y1 \in Seq(Nat), Begins(y, y1), NEW i \in Nat, i <= Len(y)
  PROVE  Front(y1, i) = Front(y, i)
<1>0. Len(y) \in Nat /\ Len(y1) \in Nat /\ Len(y) <= Len(y1) /\ i <= Len(y)
  BY EmptySeq DEF Begins
<1>1. i <= Len(y) /\ i <= Len(y1)
  BY <1>0
<1>2. SameTo(y, y1, i)
  <2>1. \A j \in 1..i : j \in 1..Len(y)
    BY <1>0
  <2> QED BY <2>1 DEF Begins, SameTo
<1> QED BY <1>1, <1>2, SameFront

\* A node that commits and applies nothing.
LEMMA KeepsApplyOk ==
  ASSUME NEW T, NEW B, NEW A, NEW T1, NEW B1, NEW A1, Frame(T, B, A, T1, B1, A1),
         NEW u \in Nat, NEW v \in Nat, u <= v, NEW l \in LogType, NEW l1 \in LogType,
         l1.saved = l.saved, NEW y \in Seq(Nat), NEW y1 \in Seq(Nat), Begins(y, y1),
         NEW c, NEW a, NEW f, ApplyOk(B, A, u, l, y, c, a, f),
         c <= Len(Full(l1)), SameTo(Full(l1), y, c)
  PROVE  ApplyOk(B1, A1, v, l1, y1, c, a, f)
<1>1. c \in Nat /\ a \in Nat /\ a <= c /\ c <= Len(y) /\ Settled(B, A, u, c)
  BY DEF ApplyOk
<1>2. PICK s \in Nat : s = Len(l.saved) /\ s <= Len(y)
  BY EmptySeq DEF ApplyOk, LogType
<1>3. Len(y) \in Nat /\ Len(y1) \in Nat /\ Len(y) <= Len(y1)
  BY EmptySeq DEF Begins
<1>4. Settled(B1, A1, v, c)
  <2>1. c <= c
    BY <1>1
  <2> QED BY <1>1, <2>1, KeepsSettled
<1>5. SameTo(Full(l1), y1, c)
  <2>1. ASSUME NEW j \in 1..c PROVE Full(l1)[j] = y1[j]
    <3>1. j \in 1..Len(y)
      BY <1>1, <1>3
    <3> QED BY <3>1 DEF Begins, SameTo
  <2> QED BY <2>1 DEF SameTo
<1>6. PICK d \in Nat : d = Later(a, s) /\ d <= Len(y)
  BY <1>1, <1>2, <1>3 DEF Later
<1>7. Front(y1, s) = Front(y, s) /\ Front(y1, d) = Front(y, d)
  BY <1>2, <1>6, FrontOfBegins
<1>8. l.saved = Front(y, s) /\ f = Front(y, d)
  BY <1>2, <1>6 DEF ApplyOk
<1>9. c <= Len(y1) /\ s <= Len(y1)
  BY <1>1, <1>2, <1>3
<1> QED BY <1>1, <1>2, <1>4, <1>5, <1>6, <1>7, <1>8, <1>9 DEF ApplyOk

\* A leader that goes on.
LEMMA KeepsLeaderOk ==
  ASSUME NEW T, NEW B, NEW A, NEW T1, NEW B1, NEW A1, Frame(T, B, A, T1, B1, A1),
         NEW n \in Node, NEW x \in Seq(Nat), NEW m \in [Node -> Nat],
         LeaderOk(T, B, A, n, x, m), T1[n] = T[n], B1[T[n]] = B[T[n]],
         \A q \in Node : A1[q][T[n]] <= Len(x)
  PROVE  LeaderOk(T1, B1, A1, n, x, m)
<1>1. PICK t \in Nat : t = T[n]
  BY DEF Frame, LedgerType
<1>2. \A q \in Node : A[q][t] \in Nat /\ A1[q][t] \in Nat /\ A[q][t] <= A1[q][t]
  BY ZenonT(30) DEF Frame, LedgerType
<1>3. Len(x) \in Nat /\ Len(x) <= A1[n][t]
  <2>1. Len(x) \in Nat /\ Len(x) <= A[n][t]
    BY <1>1, EmptySeq DEF LeaderOk
  <2>2. A[n][t] \in Nat /\ A1[n][t] \in Nat /\ A[n][t] <= A1[n][t]
    BY <1>2
  <2> QED BY <2>1, <2>2
<1>4. ASSUME NEW q \in Node PROVE m[q] <= A1[q][t]
  <2>1. m[q] \in Nat /\ m[q] <= A[q][t]
    BY <1>1 DEF LeaderOk
  <2>2. A[q][t] \in Nat /\ A1[q][t] \in Nat /\ A[q][t] <= A1[q][t]
    BY <1>2
  <2> QED BY <2>1, <2>2
<1> QED BY <1>1, <1>3, <1>4 DEF LeaderOk

\* An RPC, whatever leaders come and go.
LEMMA KeepsSentOk ==
  ASSUME NEW T, NEW B, NEW A, NEW T1, NEW B1, NEW A1, Frame(T, B, A, T1, B1, A1),
         NEW r, SentOk(T, A, r)
  PROVE  SentOk(T1, A1, r)
<1>1. PICK p \in Node, t \in Nat : p = r.to /\ t = r.term
  BY DEF SentOk
<1>2. Reached(T1, t)
  BY <1>1, KeepsReached DEF SentOk
<1>21. A[p][t] \in Nat /\ A1[p][t] \in Nat /\ A[p][t] <= A1[p][t]
  BY KeepsAcks
<1>3. ASSUME r.kind = "reply", r.success PROVE r.last \in Nat /\ r.last <= A1[p][t]
  <2>1. PICK k \in Nat : k = r.last /\ k <= A[p][t]
    BY <1>1, <1>3 DEF SentOk
  <2>3. k <= A1[p][t]
    BY <1>21, <2>1
  <2> QED BY <2>1, <2>3
<1> QED BY <1>1, <1>2, <1>3 DEF SentOk

\* Nobody begins to lead in term u.
NoNewLeader(T, L, T1, L1, u) ==
  \A n \in Node : L1[n] /\ T1[n] = u => L[n] /\ T[n] = u

\* A goroutine that has begun, when the log of its node stays safe.
LEMMA KeepsBegunOk ==
  ASSUME NEW T, NEW B, NEW A, NEW T1, NEW B1, NEW A1, Frame(T, B, A, T1, B1, A1),
         NEW L, NEW L1, NEW r, r.from \in Node, r.term \in Nat,
         NEW c \in Nat, NEW c1 \in Nat, c <= c1, NEW x, NEW x1,
         BegunOk(T, B, A, L, r, c, x), SafeTo(T1, B1, A1, x1, r.term),
         NoNewLeader(T, L, T1, L1, r.term)
  PROVE  BegunOk(T1, B1, A1, L1, r, c1, x1)
<1>1. PICK n \in Node, t \in Nat, k \in Nat : n = r.from /\ t = r.term /\ k = r.commit
  BY DEF BegunOk
<1>2. k <= c /\ t <= T[n] /\ Settled(B, A, t, k)
  BY <1>1 DEF BegunOk
<1>3. T[n] \in Nat /\ T1[n] \in Nat /\ T[n] <= T1[n]
  BY DEF Frame, LedgerType
<1>4. Settled(B1, A1, t, k)
  <2>1. t <= t /\ k <= k
    OBVIOUS
  <2> QED BY <1>2, <2>1, KeepsSettled
<1>5. k <= c1 /\ t <= T1[n]
  BY <1>2, <1>3
<1> QED BY <1>1, <1>4, <1>5 DEF BegunOk, NoNewLeader

\* An AppendEntries, when what it carries stays safe.
LEMMA KeepsAppendOf ==
  ASSUME NEW T, NEW B, NEW A, NEW T1, NEW B1, NEW A1, Frame(T, B, A, T1, B1, A1),
         NEW L, NEW L1, NEW G, NEW G1, NEW y \in Seq(Nat), NEW y1 \in Seq(Nat),
         Begins(y, y1), NEW r, r.term \in Nat, r.commit \in Nat, r.prev \in Nat,
         NEW w \in Seq(Nat), AppendOf(T, B, A, L, G, y, r, w),
         SafeTo(T1, B1, A1, w, r.term),
         \A n \in Node : L1[n] /\ T1[n] = r.term => Begins(w, Full(G1[n]))
  PROVE  AppendOf(T1, B1, A1, L1, G1, y1, r, w)
<1>1. PICK t \in Nat, k \in Nat, p \in Nat : t = r.term /\ k = r.commit /\ p = r.prev
  OBVIOUS
<1>2. Booked(T1, B1, w)
  BY KeepsBooked DEF AppendOf
<1>3. Len(y) \in Nat /\ Len(y1) \in Nat /\ Len(y) <= Len(y1) /\ Len(w) \in Nat
  BY EmptySeq DEF Begins
<1>4. Settled(B1, A1, t, k)
  <2>1. t <= t /\ k <= k /\ Settled(B, A, t, k)
    BY <1>1 DEF AppendOf
  <2> QED BY <2>1, KeepsSettled
<1>5. ASSUME NEW i \in Nat, i <= Len(y), SameTo(w, y, i)
      PROVE  i <= Len(y1) /\ SameTo(w, y1, i)
  <2>1. i <= Len(y1)
    BY <1>3, <1>5
  <2>2. ASSUME NEW j \in 1..i PROVE w[j] = y1[j]
    <3>1. j \in 1..Len(y)
      BY <1>3, <1>5
    <3> QED BY <1>5, <3>1 DEF SameTo, Begins
  <2> QED BY <2>1, <2>2 DEF SameTo
<1>6. k <= Len(y1) /\ SameTo(w, y1, k)
  BY <1>1, <1>5 DEF AppendOf
<1>7. r.prevTerm = 0 /\ p <= Len(w) => p <= Len(y1) /\ SameTo(w, y1, p)
  BY <1>1, <1>5 DEF AppendOf
<1> QED BY <1>1, <1>2, <1>4, <1>6, <1>7 DEF AppendOf

\* Who leads after a step led before, and has kept its log.
Deposes(T, L, G, T1, L1, G1) ==
  \A n \in Node : L1[n] => L[n] /\ T1[n] = T[n] /\ Begins(Full(G[n]), Full(G1[n]))

\* One beginning of another.
LEMMA BeginsTwice ==
  ASSUME NEW x \in Seq(Nat), NEW y \in Seq(Nat), NEW z \in Seq(Nat), Begins(x, y), Begins(y, z)
  PROVE  Begins(x, z)
<1>1. /\ Len(x) \in Nat /\ Len(y) \in Nat /\ Len(z) \in Nat
      /\ Len(x) <= Len(y) /\ Len(y) <= Len(z)
  BY EmptySeq DEF Begins
<1>2. ASSUME NEW j \in 1..Len(x) PROVE x[j] = z[j]
  <2>1. j \in 1..Len(y)
    BY <1>1
  <2> QED BY <2>1 DEF Begins, SameTo
<1> QED BY <1>1, <1>2 DEF Begins, SameTo

\* An RPC that is under way, when no leader begins or appends.
LEMMA KeepsRpcOk ==
  ASSUME NEW T, NEW B, NEW A, NEW T1, NEW A1, Frame(T, B, A, T1, B, A1),
         NEW L, NEW L1, NEW G \in [Node -> LogType], NEW G1 \in [Node -> LogType],
         NEW C \in [Node -> Nat], NEW C1 \in [Node -> Nat],
         NEW Y \in Seq(Nat), NEW Y1 \in Seq(Nat), NEW r, RpcOk(T, L, G, C, Y, B, A, r),
         Deposes(T, L, G, T1, L1, G1), Begins(Y, Y1),
         r.kind \in Reading =>
           /\ C[r.from] <= C1[r.from]
           /\ \/ Full(G1[r.from]) = Full(G[r.from])
              \/ SafeTo(T1, B, A1, Full(G1[r.from]), r.term)
  PROVE  RpcOk(T1, L1, G1, C1, Y1, B, A1, r)
<1>1. PICK n \in Node, u \in Nat : n = r.from /\ u = r.term
  BY DEF RpcOk, SentOk
<1>2. SentOk(T1, A1, r)
  BY KeepsSentOk DEF RpcOk
<1>3. ASSUME r.kind \in Reading
      PROVE  BegunOk(T1, B, A1, L1, r, C1[r.from], Full(G1[r.from]))
  <2>1. BegunOk(T, B, A, L, r, C[r.from], Full(G[r.from]))
    BY <1>3 DEF RpcOk
  <2>2. SafeTo(T1, B, A1, Full(G1[r.from]), r.term)
    <3>1. ASSUME NEW t \in 0..u, Full(G1[n]) = Full(G[n])
          PROVE  Safe(T1, B, A1, Full(G1[n]), t)
      <4>1. Safe(T, B, A, Full(G[n]), t)
        BY <1>1, <2>1 DEF BegunOk, SafeTo
      <4> QED BY <3>1, <4>1, KeepsSafe
    <3> QED BY <1>1, <1>3, <3>1 DEF SafeTo
  <2>3. NoNewLeader(T, L, T1, L1, r.term)
    BY DEF Deposes, NoNewLeader
  <2>4. r.from \in Node /\ r.term \in Nat /\ C[r.from] \in Nat /\ C1[r.from] \in Nat
        /\ C[r.from] <= C1[r.from]
    BY <1>1, <1>3
  <2>5. PICK c \in Nat, c1 \in Nat : c = C[r.from] /\ c1 = C1[r.from] /\ c <= c1
    BY <2>4
  <2>6. PICK x : x = Full(G[r.from])
    OBVIOUS
  <2>7. PICK x1 : x1 = Full(G1[r.from])
    OBVIOUS
  <2>8. BegunOk(T, B, A, L, r, c, x) /\ SafeTo(T1, B, A1, x1, r.term)
    BY <2>1, <2>2, <2>5, <2>6, <2>7
  <2>9. BegunOk(T1, B, A1, L1, r, c1, x1)
    BY <2>3, <2>4, <2>5, <2>8, KeepsBegunOk
  <2> QED BY <2>5, <2>7, <2>9
<1>4. ASSUME r.kind = "append" PROVE AppendOk(T1, B, A1, L1, G1, Y1, r)
  <2>1. r.commit \in Nat /\ r.prev \in Nat /\ r.term \in Nat
    BY <1>1, <1>4 DEF RpcOk, AppendOk
  <2>2. PICK w \in Seq(Nat) : AppendOf(T, B, A, L, G, Y, r, w)
    BY <1>4 DEF RpcOk, AppendOk
  <2>3. ASSUME NEW t \in 0..r.term PROVE Safe(T1, B, A1, w, t)
    <3>1. t \in Nat /\ Safe(T, B, A, w, t)
      BY <2>1, <2>2 DEF AppendOf, SafeTo
    <3> QED BY <3>1, KeepsSafe
  <2>4. ASSUME NEW m \in Node, L1[m], T1[m] = r.term PROVE Begins(w, Full(G1[m]))
    <3>1. L[m] /\ T[m] = r.term /\ Begins(Full(G[m]), Full(G1[m]))
      BY <2>4 DEF Deposes
    <3>2. Begins(w, Full(G[m]))
      BY <2>2, <3>1 DEF AppendOf
    <3>3. Full(G[m]) \in Seq(Nat) /\ Full(G1[m]) \in Seq(Nat)
      BY FullTyped
    <3> QED BY <3>1, <3>2, <3>3, BeginsTwice
  <2>31. SafeTo(T1, B, A1, w, r.term)
    BY <2>3 DEF SafeTo
  <2>5. AppendOf(T1, B, A1, L1, G1, Y1, r, w)
    BY <2>1, <2>2, <2>31, <2>4, KeepsAppendOf
  <2> QED BY <2>1, <2>5 DEF AppendOk
<1> QED BY <1>2, <1>3, <1>4 DEF RpcOk

VarTypes ==
  /\ leads \in [Node -> BOOLEAN]
  /\ log \in [Node -> LogType]
  /\ commit \in [Node -> Nat]
  /\ applied \in [Node -> Nat]
  /\ fsm \in [Node -> Seq(Nat)]
  /\ next \in [Node -> [Node -> Nat]]
  /\ match \in [Node -> [Node -> Nat]]

\* The invariant, with the logs of the leaders and the acknowledgements.
Core(B, A) ==
  /\ VarTypes
  /\ Ledger(term, B, A)
  /\ \A n \in Node : LogOk(term, B, A, n, log[n])
  /\ \A n \in Node :
       ApplyOk(B, A, term[n], log[n], chosen, commit[n], applied[n], fsm[n])
  /\ \A n \in Node : leads[n] => LeaderOk(term, B, A, n, Full(log[n]), match[n])
  /\ \A n, m \in Node : leads[n] /\ leads[m] /\ term[n] = term[m] => n = m
  /\ \A r \in rpc : RpcOk(term, leads, log, commit, chosen, B, A, r)
  /\ ChosenOk(B, A, chosen)

\* A step that changes no more than the RPCs and NextIndex.
LEMMA CoreRpcs ==
  ASSUME NEW B, NEW A, Core(B, A),
         UNCHANGED <<term, leads, log, commit, applied, fsm, match, chosen>>,
         next' \in [Node -> [Node -> Nat]],
         \A r \in rpc' : r \in rpc \/ RpcOk(term, leads, log, commit, chosen, B, A, r)
  PROVE  Core(B, A)'
<1>1. VarTypes'
  BY DEF Core, VarTypes
<1>2. \A r \in rpc' : RpcOk(term', leads', log', commit', chosen', B, A, r)
  BY DEF Core
<1>3. /\ Ledger(term', B, A)
      /\ \A n \in Node : LogOk(term', B, A, n, log'[n])
      /\ ChosenOk(B, A, chosen')
  BY DEF Core
<1>4. \A n \in Node :
        ApplyOk(B, A, term'[n], log'[n], chosen', commit'[n], applied'[n], fsm'[n])
  BY DEF Core
<1>5. \A n \in Node : leads'[n] => LeaderOk(term', B, A, n, Full(log'[n]), match'[n])
  BY DEF Core
<1>6. \A n, m \in Node : leads'[n] /\ leads'[m] /\ term'[n] = term'[m] => n = m
  BY DEF Core
<1> QED BY <1>1, <1>2, <1>3, <1>4, <1>5, <1>6 DEF Core

\* A sequence begins with itself.
LEMMA BeginsItself ==
  ASSUME NEW x \in Seq(Nat)
  PROVE  Begins(x, x)
BY EmptySeq DEF Begins, SameTo

\* A step that takes a node to a term that was reached.
LEMMA FollowFrame ==
  ASSUME NEW T, NEW B, NEW A, LedgerType(T, B, A), NEW n \in Node, NEW t \in Nat,
         T[n] <= t
  PROVE  Frame(T, B, A, [T EXCEPT ![n] = t], B, A)
<1> DEFINE T1 == [T EXCEPT ![n] = t]
<1>1. LedgerType(T1, B, A)
  BY DEF LedgerType
<1>2. ASSUME NEW q \in Node PROVE T[q] <= T1[q]
  <2>1. T \in [Node -> Nat] /\ T[q] \in Nat
    BY DEF LedgerType
  <2>2. CASE q = n
    BY <2>1, <2>2
  <2>3. CASE q # n
    BY <2>1, <2>3
  <2> QED BY <2>2, <2>3
<1>3. Longer(B, B)
  <2>1. ASSUME NEW s \in Nat PROVE Len(B[s]) <= Len(B[s])
    <3>1. B[s] \in Seq(Nat)
      BY DEF LedgerType
    <3>2. Len(B[s]) \in Nat
      BY <3>1, EmptySeq
    <3> QED BY <3>2
  <2> QED BY <2>1 DEF Longer, SameTo
<1>4. ASSUME NEW q \in Node, NEW s \in Nat PROVE A[q][s] <= A[q][s]
  <2>1. A[q][s] \in Nat
    BY DEF LedgerType
  <2> QED BY <2>1
<1>5. Late(T, B, T1, B, A)
  BY DEF Late
<1> HIDE DEF T1
<1>6. Frame(T, B, A, T1, B, A)
  BY <1>1, <1>2, <1>3, <1>4, <1>5 DEF Frame
<1> QED BY <1>6 DEF T1

\* A node takes a term and follows.
LEMMA CoreFollow ==
  ASSUME NEW B, NEW A, Core(B, A), NEW n \in Node, NEW t \in Nat, term[n] <= t,
         Reached(term, t), Replication!Follow(n, t),
         UNCHANGED <<log, commit, applied, fsm, chosen>>,
         \A r \in rpc' : r \in rpc \/ (/\ SentOk(term', A, r)
                                       /\ r.kind \notin Reading /\ r.kind # "append")
  PROVE  Core(B, A)'
<1>0. VarTypes /\ Ledger(term, B, A) /\ LedgerType(term, B, A)
  BY DEF Core, Ledger
<1>1. /\ term' = [term EXCEPT ![n] = t]
      /\ leads' = [leads EXCEPT ![n] = FALSE]
      /\ next' = [next EXCEPT ![n] = Replication!Kept(n)]
      /\ match' = [match EXCEPT ![n] = Replication!NoMatch]
  BY DEF Replication!Follow
<1>2. VarTypes'
  <2>1. Replication!Kept(n) \in [Node -> Nat] /\ Replication!NoMatch \in [Node -> Nat]
    BY <1>0 DEF VarTypes, Replication!Kept, Replication!NoNext, Replication!NoMatch
  <2> QED BY <1>0, <1>1, <2>1 DEF VarTypes
<1>3. Frame(term, B, A, term', B, A)
  BY <1>0, <1>1, FollowFrame
<1>4. Ledger(term', B, A)
  BY <1>0, <1>3, LedgerKept
<1>5. \A m \in Node : term'[m] = term[m] \/ (m = n /\ term'[m] = t)
  BY <1>0, <1>1 DEF LedgerType
<1>6. \A m \in Node : leads'[m] => m # n /\ leads[m] /\ term'[m] = term[m] /\ match'[m] = match[m]
  BY <1>0, <1>1 DEF VarTypes, LedgerType
<1>7. Reached(term', t)
  BY <1>3, KeepsReached
<1>8. ASSUME NEW m \in Node PROVE LogOk(term', B, A, m, log'[m])
  <2>1. LogOk(term, B, A, m, log[m]) /\ log[m] \in LogType /\ Whole(log[m])
    BY DEF Core, LogOk
  <2>2. term'[m] = term[m] \/ Reached(term', term'[m])
    BY <1>5, <1>7
  <2>3. LogOk(term', B, A, m, log[m])
    BY <1>3, <2>1, <2>2, KeepsLogOk
  <2> QED BY <2>3
<1>9. ASSUME NEW m \in Node
      PROVE  ApplyOk(B, A, term'[m], log'[m], chosen', commit'[m], applied'[m], fsm'[m])
  <2>1. /\ ApplyOk(B, A, term[m], log[m], chosen, commit[m], applied[m], fsm[m])
        /\ log[m] \in LogType /\ chosen \in Seq(Nat)
    BY DEF Core, VarTypes, ChosenOk
  <2>2. term[m] \in Nat /\ term'[m] \in Nat /\ term[m] <= term'[m]
    BY <1>3 DEF Frame, LedgerType
  <2>3. Begins(chosen, chosen)
    BY <2>1, BeginsItself
  <2>4. commit[m] <= Len(Full(log[m])) /\ SameTo(Full(log[m]), chosen, commit[m])
    BY <2>1 DEF ApplyOk
  <2>5. ApplyOk(B, A, term'[m], log[m], chosen, commit[m], applied[m], fsm[m])
    BY <1>3, <2>1, <2>2, <2>3, <2>4, KeepsApplyOk
  <2> QED BY <2>5
<1>10. ASSUME NEW m \in Node, leads'[m]
       PROVE  LeaderOk(term', B, A, m, Full(log'[m]), match'[m])
  <2>1. /\ LeaderOk(term, B, A, m, Full(log[m]), match[m])
        /\ match[m] \in [Node -> Nat] /\ log[m] \in LogType
    BY <1>6, <1>10 DEF Core, VarTypes
  <2>2. PICK x \in Seq(Nat) : x = Full(log[m])
    BY <2>1, FullTyped
  <2>3. \A q \in Node : A[q][term[m]] <= Len(x)
    BY <2>1, <2>2 DEF LeaderOk
  <2>4. LeaderOk(term', B, A, m, x, match[m])
    BY <1>3, <1>6, <1>10, <2>1, <2>2, <2>3, KeepsLeaderOk
  <2> QED BY <1>6, <1>10, <2>2, <2>4
<1>11. \A i, m \in Node : leads'[i] /\ leads'[m] /\ term'[i] = term'[m] => i = m
  BY <1>6 DEF Core
<1>12. ASSUME NEW r \in rpc' PROVE RpcOk(term', leads', log', commit', chosen', B, A, r)
  <2>1. CASE r \in rpc
    <3>1. RpcOk(term, leads, log, commit, chosen, B, A, r)
      BY <2>1 DEF Core
    <3>2. log \in [Node -> LogType] /\ commit \in [Node -> Nat] /\ chosen \in Seq(Nat)
      BY DEF Core, VarTypes, ChosenOk
    <3>3. Begins(chosen, chosen)
      BY <3>2, BeginsItself
    <3>4. Deposes(term, leads, log, term', leads', log)
      <4>1. ASSUME NEW m \in Node PROVE Begins(Full(log[m]), Full(log[m]))
        <5>1. Full(log[m]) \in Seq(Nat)
          BY <3>2, FullTyped
        <5> QED BY <5>1, BeginsItself
      <4> QED BY <1>6, <4>1 DEF Deposes
    <3>5. r.from \in Node
      BY <3>1 DEF RpcOk, SentOk
    <3>6. commit[r.from] <= commit[r.from]
      BY <3>2, <3>5
    <3>7. RpcOk(term', leads', log, commit, chosen, B, A, r)
      BY <1>3, <3>1, <3>2, <3>3, <3>4, <3>6, KeepsRpcOk
    <3> QED BY <3>7
  <2>2. CASE r \notin rpc
    BY <2>2 DEF RpcOk
  <2> QED BY <2>1, <2>2
<1>13. ChosenOk(B, A, chosen')
  BY DEF Core
<1> QED BY <1>2, <1>4, <1>8, <1>9, <1>10, <1>11, <1>12, <1>13 DEF Core

\* The log of a leader contradicts nothing that was committed up to its term.
LEMMA LeaderSafe ==
  ASSUME NEW T, NEW B, NEW A, Ledger(T, B, A), NEW t \in Nat, B[t] # <<>>
  PROVE  SafeTo(T, B, A, B[t], t)
<1> SUFFICES ASSUME NEW u \in 0..t, NEW c \in Nat, OwnAt(B, u, c), ~ Dead(T, A, u, c)
             PROVE  Agrees(B[t], B[u], c)
  BY DEF SafeTo, Safe
<1>1. CASE u = t
  BY <1>1 DEF Agrees
<1>2. CASE u # t
  <2>1. u < t /\ u \in Nat
    BY <1>2
  <2>2. Holds(B, B[t], u, c)
    BY <2>1 DEF Ledger, Complete
  <2> QED BY <2>2 DEF Holds, Agrees, SameTo
<1> QED BY <1>1, <1>2

\* sendHeartbeats
LEMMA CoreHeartbeats ==
  ASSUME NEW B, NEW A, Core(B, A), NEW n \in Node, NEW p \in Node,
         Replication!sendHeartbeats(n, p)
  PROVE  Core(B, A)'
<1> DEFINE r == [kind |-> "begun", from |-> n, to |-> p, term |-> term[n],
                 commit |-> commit[n], next |-> 0, prevTerm |-> 0, last |-> 0]
<1>1. /\ leads[n] /\ rpc' = rpc \cup {r}
      /\ UNCHANGED <<term, leads, log, commit, applied, fsm, next, match, chosen>>
  BY DEF Replication!sendHeartbeats
<1>2. /\ r.kind = "begun" /\ r.from = n /\ r.to = p /\ r.term = term[n]
      /\ r.commit = commit[n] /\ r.next = 0
  OBVIOUS
<1> HIDE DEF r
<1>3. /\ term[n] \in Nat /\ commit[n] \in Nat /\ Ledger(term, B, A)
      /\ Reached(term, term[n])
      /\ LeaderOk(term, B, A, n, Full(log[n]), match[n])
      /\ Settled(B, A, term[n], commit[n])
      /\ \A m \in Node : leads[m] /\ term[m] = term[n] => m = n
  BY <1>1 DEF Core, VarTypes, Ledger, LedgerType, LogOk, ApplyOk
<1>4. SentOk(term, A, r)
  BY <1>2, <1>3 DEF SentOk
<1>5. SafeTo(term, B, A, Full(log[n]), term[n])
  BY <1>3, LeaderSafe DEF LeaderOk
<1>6. BegunOk(term, B, A, leads, r, commit[n], Full(log[n]))
  <2>1. term[n] <= term[n] /\ commit[n] <= commit[n]
    BY <1>3
  <2> QED BY <1>2, <1>3, <1>5, <2>1 DEF BegunOk
<1>7. RpcOk(term, leads, log, commit, chosen, B, A, r)
  BY <1>2, <1>4, <1>6 DEF RpcOk
<1>8. next' \in [Node -> [Node -> Nat]]
  BY <1>1 DEF Core, VarTypes
<1> QED BY <1>1, <1>7, <1>8, CoreRpcs

\* An RPC that only has to be well-formed.
LEMMA PlainRpc ==
  ASSUME NEW T, NEW L, NEW G, NEW C, NEW Y, NEW B, NEW A, NEW r, SentOk(T, A, r),
         r.kind \notin Reading, r.kind # "append"
  PROVE  RpcOk(T, L, G, C, Y, B, A, r)
BY DEF RpcOk

\* h is where GetRange(l, i, j) ends, or i - 1 when it has nothing.
EndsAt(l, i, j, h) ==
  /\ h <= Len(Full(l)) /\ (h <= j \/ h <= i - 1)
  /\ h = Len(Full(l)) \/ (h >= j /\ h >= i - 1)

\* GetRange from an entry that is in the log, up to any other.
LEMMA RangeTo ==
  ASSUME NEW l \in LogType, Whole(l), NEW i \in Nat, i > Len(l.saved), NEW j \in Nat,
         NEW h \in Nat, EndsAt(l, i, j, h)
  PROVE  Replication!GetRange(l, i, j) = Rest(Front(Full(l), h), i)
<1>1. PICK s \in Seq(Nat), e \in Seq(Nat), k \in Nat, z \in Seq(Nat) :
        s = l.saved /\ e = l.entries /\ k = l.first /\ k = Len(s) + 1 /\ z = Full(l)
  BY FullTyped DEF LogType, Whole
<1>2. PICK d \in Nat, m \in Nat, g \in Nat :
        d = Len(s) /\ m = Len(e) /\ g = Len(z) /\ g = d + m
  <2>1. Len(s) \in Nat /\ Len(e) \in Nat /\ Len(z) \in Nat /\ Len(z) = Len(s) + Len(e)
    BY <1>1, FullTyped, EmptySeq
  <2> QED BY <2>1
<1>3. /\ i > d /\ k = d + 1 /\ h <= g /\ (h <= j \/ h <= i - 1)
      /\ h = g \/ (h >= j /\ h >= i - 1)
  BY <1>1, <1>2 DEF EndsAt
<1>4. PICK a \in Int, b \in Int : a = i - d /\ b = IF j - d <= m THEN j - d ELSE m
  <2>1. i - d \in Int /\ (IF j - d <= m THEN j - d ELSE m) \in Int
    BY <1>2
  <2> QED BY <2>1, Zenon
<1>5. Replication!GetRange(l, i, j) = SubSeq(e, a, b)
  <2>1. /\ a = IF i >= k THEN i - k + 1 ELSE 1
        /\ b = IF j - k + 1 <= m THEN j - k + 1 ELSE m
    BY <1>3, <1>4
  <2>2. Clamped(l, i, j, a, b)
    BY <1>1, <1>2, <2>1 DEF Clamped
  <2> QED BY <1>1, <2>2, RangeFields
<1>6. PICK f \in Seq(Nat) : /\ f = Front(z, h) /\ Len(f) = h
                            /\ \A q \in 1..h : f[q] = z[q]
  <2>1. 1 \in 1..(Len(z) + 1) /\ h \in 0..Len(z) /\ 1 <= h + 1
    BY <1>2, <1>3
  <2>2. /\ Front(z, h) \in Seq(Nat) /\ Len(Front(z, h)) = h - 1 + 1
        /\ \A q \in 1..(h - 1 + 1) : Front(z, h)[q] = z[1 + q - 1]
    BY <2>1, PartOf DEF Front
  <2>3. h - 1 + 1 = h /\ \A q \in 1..h : 1 + q - 1 = q
    OBVIOUS
  <2> QED BY <2>2, <2>3
<1>7. CASE i > h
  <2>1. b < a
    BY <1>2, <1>3, <1>4, <1>7
  <2>2. SubSeq(e, a, b) = <<>>
    BY <2>1, EmptyPart
  <2>3. SubSeq(f, i, Len(f)) = <<>>
    BY <1>6, <1>7, EmptyPart
  <2> QED BY <1>1, <1>5, <1>6, <2>2, <2>3 DEF Rest
<1>8. CASE i <= h
  <2>1. /\ b = h - d /\ a \in 1..(m + 1) /\ b \in 0..m /\ a <= b + 1
        /\ i \in 1..(h + 1) /\ h \in 0..h /\ i <= h + 1
    BY <1>2, <1>3, <1>4, <1>8
  <2>2. PICK x \in Seq(Nat) : /\ x = SubSeq(e, a, b) /\ Len(x) = b - a + 1
                              /\ \A q \in 1..(b - a + 1) : x[q] = e[a + q - 1]
    BY <1>2, <2>1, PartOf
  <2>3. PICK y \in Seq(Nat) : /\ y = SubSeq(f, i, h) /\ Len(y) = h - i + 1
                              /\ \A q \in 1..(h - i + 1) : y[q] = f[i + q - 1]
    <3>1. i \in 1..(Len(f) + 1) /\ h \in 0..Len(f) /\ i <= h + 1
      BY <1>6, <2>1
    <3>2. /\ SubSeq(f, i, h) \in Seq(Nat) /\ Len(SubSeq(f, i, h)) = h - i + 1
          /\ \A q \in 1..(h - i + 1) : SubSeq(f, i, h)[q] = f[i + q - 1]
      BY <3>1, PartOf
    <3> QED BY <3>2, Zenon
  <2>4. b - a + 1 = h - i + 1
    BY <1>4, <2>1
  <2>5. ASSUME NEW q \in 1..(h - i + 1) PROVE x[q] = y[q]
    <3>1. PICK c \in 1..h : c = i + q - 1 /\ c \in 1..g /\ ~ (c <= d) /\ a + q - 1 = c - d
      <4>1. /\ i + q - 1 \in 1..h /\ i + q - 1 \in 1..g /\ ~ (i + q - 1 <= d)
            /\ a + q - 1 = (i + q - 1) - d
        BY <1>2, <1>3, <1>4
      <4> QED BY <4>1
    <3>2. x[q] = e[c - d]
      BY <2>2, <2>4, <3>1
    <3>3. y[q] = z[c]
      BY <1>6, <2>3, <3>1
    <3>4. z[c] = e[c - d]
      BY <1>1, <1>2, <3>1, FullTyped
    <3> QED BY <3>2, <3>3, <3>4
  <2>6. Len(x) = h - i + 1 /\ Len(y) = h - i + 1
    BY <2>2, <2>3, <2>4
  <2>7. x = y
    BY <2>5, <2>6, SameSeq
  <2> QED BY <1>1, <1>5, <1>6, <2>2, <2>3, <2>7 DEF Rest
<1> QED BY <1>7, <1>8, <1>3

\* The beginning of what a node has is as good as all of it.
LEMMA FrontOk ==
  ASSUME NEW T, NEW B, NEW A, NEW x \in Seq(Nat), Booked(T, B, x), NEW u, SafeTo(T, B, A, x, u),
         NEW h \in Nat, h <= Len(x)
  PROVE  /\ Front(x, h) \in Seq(Nat) /\ Len(Front(x, h)) = h
         /\ SameTo(Front(x, h), x, h)
         /\ Begins(Front(x, h), x)
         /\ Booked(T, B, Front(x, h)) /\ SafeTo(T, B, A, Front(x, h), u)
<1>1. PICK f \in Seq(Nat) : f = Front(x, h) /\ Len(f) = h /\ \A q \in 1..h : f[q] = x[q]
  <2>1. 1 \in 1..(Len(x) + 1) /\ h \in 0..Len(x) /\ 1 <= h + 1
    BY EmptySeq
  <2>2. /\ Front(x, h) \in Seq(Nat) /\ Len(Front(x, h)) = h - 1 + 1
        /\ \A q \in 1..(h - 1 + 1) : Front(x, h)[q] = x[1 + q - 1]
    BY <2>1, PartOf DEF Front
  <2>3. h - 1 + 1 = h /\ \A q \in 1..h : 1 + q - 1 = q
    OBVIOUS
  <2> QED BY <2>2, <2>3
<1>2. SameTo(f, x, h) /\ Begins(f, x)
  BY <1>1 DEF SameTo, Begins
<1>3. ASSUME NEW q \in 1..h
      PROVE  f[q] > 0 /\ Reached(T, f[q]) /\ q <= Len(B[f[q]]) /\ SameTo(f, B[f[q]], q)
  <2>1. q \in 1..Len(x) /\ f[q] = x[q]
    BY <1>1, EmptySeq
  <2>2. x[q] > 0 /\ Reached(T, x[q]) /\ q <= Len(B[x[q]]) /\ SameTo(x, B[x[q]], q)
    BY <2>1 DEF Booked
  <2>3. \A j \in 1..q : j \in 1..h
    OBVIOUS
  <2>4. SameTo(f, B[x[q]], q)
    BY <1>1, <2>2, <2>3 DEF SameTo
  <2> QED BY <2>1, <2>2, <2>4
<1>4. Booked(T, B, f)
  BY <1>1, <1>3 DEF Booked
<1>5. SafeTo(T, B, A, f, u)
  <2> SUFFICES ASSUME NEW t \in 0..u, NEW c \in Nat, OwnAt(B, t, c), ~ Dead(T, A, t, c)
               PROVE  Agrees(f, B[t], c)
    BY DEF SafeTo, Safe
  <2>1. Agrees(x, B[t], c)
    BY DEF SafeTo, Safe
  <2>2. \A j \in 1..c : j <= h => j \in 1..h /\ j <= Len(x)
    BY EmptySeq
  <2> QED BY <1>1, <2>1, <2>2 DEF Agrees
<1> QED BY <1>1, <1>2, <1>4, <1>5

\* ReadRange: the AppendEntries that is sent.
LEMMA SentAppend ==
  ASSUME NEW B, NEW A, Core(B, A), NEW r \in rpc, r.kind = "last",
         NEW n \in Node, n = r.from, NEW i \in Nat, i = r.next,
         ~ Replication!Torn(log[n], r),
         NEW s, SentOk(term, A, s), s.kind = "append", s.term = r.term,
         s.commit = r.commit, s.prev = i - 1, s.prevTerm = r.prevTerm,
         s.start = Replication!Max({i, log[n].first}),
         s.entries = Replication!GetRange(log[n], i, r.last)
  PROVE  RpcOk(term, leads, log, commit, chosen, B, A, s)
<1>1. PICK l \in LogType : l = log[n] /\ Whole(l) /\ Booked(term, B, Full(l))
  BY DEF Core, VarTypes, LogOk
<1>2. PICK x \in Seq(Nat) : x = Full(l)
  BY FullTyped
<1>3. PICK d \in Nat : d = Len(l.saved)
  BY EmptySeq DEF LogType
<1>4. l.first = d + 1 /\ Len(x) \in Nat /\ d <= Len(x)
  <2>1. Len(l.entries) \in Nat /\ Len(x) = d + Len(l.entries)
    BY <1>2, <1>3, FullTyped, EmptySeq DEF LogType
  <2>2. l.first = d + 1
    BY <1>1, <1>3 DEF Whole
  <2>3. Len(x) \in Nat /\ d <= Len(x)
    BY <2>1
  <2> QED BY <2>2, <2>3
<1>5. i >= l.first
  <2>1. ~ (r.next < l.first)
    BY <1>1 DEF Replication!Torn
  <2> QED BY <1>4, <2>1
<1>6. PICK p \in Nat : p = i - 1 /\ i > d /\ i = p + 1 /\ p >= d
  <2>1. i - 1 \in Nat /\ i > d /\ i = (i - 1) + 1 /\ i - 1 >= d
    BY <1>4, <1>5
  <2> QED BY <2>1
<1>7. s.start = s.prev + 1
  <2>1. i \in Int /\ l.first \in Int
    BY <1>4
  <2>2. Replication!Max({i, l.first}) = IF i >= l.first THEN i ELSE l.first
    BY <2>1, LargerOfTwo
  <2> QED BY <1>1, <1>5, <1>6, <2>2
<1>8. BegunOk(term, B, A, leads, r, commit[n], Full(log[n])) /\ r.kind \in Reading
  BY DEF Core, RpcOk, Reading
<1>9. ApplyOk(B, A, term[n], l, chosen, commit[n], applied[n], fsm[n]) /\ chosen \in Seq(Nat)
  BY <1>1 DEF Core, ChosenOk
<1>10. PICK k \in Nat, j \in Nat : k = r.commit /\ k <= commit[n] /\ j = r.last /\ k <= j
  BY <1>8 DEF BegunOk
<1>11. /\ commit[n] \in Nat /\ commit[n] <= Len(chosen) /\ commit[n] <= Len(x)
       /\ SameTo(x, chosen, commit[n]) /\ Len(chosen) \in Nat
  BY <1>2, <1>9, EmptySeq DEF ApplyOk
<1>12. PICK h \in Nat : /\ h <= Len(x) /\ (h <= j \/ h <= p)
                        /\ h = Len(x) \/ (h >= j /\ h >= p)
  <2>1. PICK m \in Nat : m = Len(x)
    BY <1>4, Zenon
  <2>2. CASE j >= p /\ j <= m
    BY <2>1, <2>2
  <2>3. CASE j < p /\ p <= m
    BY <2>1, <2>3
  <2>4. CASE m < j \/ m < p
    BY <2>1, <2>4
  <2> QED BY <2>2, <2>3, <2>4
<1>13. PICK w \in Seq(Nat) : w = Front(x, h)
  BY <1>1, <1>2, <1>8, <1>12, FrontOk DEF BegunOk
<1>14. /\ Len(w) = h /\ SameTo(w, x, h) /\ Begins(w, x)
       /\ Booked(term, B, w) /\ SafeTo(term, B, A, w, r.term)
  BY <1>1, <1>2, <1>8, <1>12, <1>13, FrontOk DEF BegunOk
<1>15. s.entries = Rest(w, s.prev + 1)
  <2>1. EndsAt(l, i, j, h)
    BY <1>2, <1>6, <1>12 DEF EndsAt
  <2>2. Replication!GetRange(l, i, j) = Rest(Front(Full(l), h), i)
    BY <1>1, <1>3, <1>6, <2>1, RangeTo
  <2> QED BY <1>1, <1>2, <1>6, <1>10, <1>13, <2>2
<1>16. k <= h /\ k <= Len(chosen) /\ SameTo(w, chosen, k)
  <2>1. k <= h /\ k <= Len(chosen)
    BY <1>4, <1>10, <1>11, <1>12
  <2>2. \A q \in 1..k : q \in 1..commit[n] /\ q \in 1..h
    BY <1>10, <1>11, <2>1
  <2> QED BY <1>11, <1>14, <2>1, <2>2 DEF SameTo
<1>17. \/ r.prevTerm = IF p > d /\ p <= Len(x) THEN x[p] ELSE 0
       \/ p \in 1..d /\ r.prevTerm = l.saved[p]
  <2>1. Replication!TermAt(l, p) = IF p > Len(l.saved) /\ p <= Len(Full(l)) THEN Full(l)[p] ELSE 0
    BY <1>1, LogReads
  <2>2. r.prevTerm = Replication!TermAt(l, p) \/ (p \in 1..Len(l.saved) /\ r.prevTerm = l.saved[p])
    <3>1. \/ r.prevTerm = Replication!TermAt(l, r.next - 1)
          \/ r.next - 1 \in 1..Len(l.saved) /\ r.prevTerm = l.saved[r.next - 1]
      BY <1>1 DEF Replication!Torn
    <3>2. r.next - 1 = p
      BY <1>6
    <3> QED BY <3>1, <3>2
  <2> QED BY <1>2, <1>3, <2>1, <2>2
<1>18. p <= Len(x) => p <= h
  BY <1>4, <1>6, <1>12
<1>19. ASSUME NEW q \in 1..d PROVE x[q] = l.saved[q]
  <2>1. q \in 1..Len(x) /\ q <= Len(l.saved)
    BY <1>3, <1>4
  <2> QED BY <1>2, <2>1, FullTyped
<1>20. r.prevTerm = 0 \/ (p \in 1..h /\ x[p] = r.prevTerm)
  <2>1. CASE p \in 1..d /\ r.prevTerm = l.saved[p]
    <3>1. p <= Len(x) /\ p \in Nat
      BY <1>4, <2>1
    <3>2. p \in 1..h
      BY <1>18, <2>1, <3>1
    <3> QED BY <1>19, <2>1, <3>2
  <2>2. CASE r.prevTerm = IF p > d /\ p <= Len(x) THEN x[p] ELSE 0
    <3>1. CASE p > d /\ p <= Len(x)
      <4>1. p \in 1..h
        BY <1>18, <3>1
      <4> QED BY <2>2, <3>1, <4>1
    <3>2. CASE ~ (p > d /\ p <= Len(x))
      BY <2>2, <3>2
    <3> QED BY <3>1, <3>2
  <2> QED BY <1>17, <2>1, <2>2
<1>21. s.prevTerm # 0 => s.prev \in 1..Len(w) /\ w[s.prev] = s.prevTerm
  <2> SUFFICES ASSUME r.prevTerm # 0 PROVE p \in 1..Len(w) /\ w[p] = r.prevTerm
    BY <1>6
  <2> QED BY <1>14, <1>20 DEF SameTo
<1>22. s.prevTerm = 0 /\ s.prev <= Len(w) => s.prev <= Len(chosen) /\ SameTo(w, chosen, s.prev)
  <2> SUFFICES ASSUME r.prevTerm = 0, p <= h PROVE p <= Len(chosen) /\ SameTo(w, chosen, p)
    BY <1>6, <1>14
  <2>1. p = d
    <3> SUFFICES ASSUME p > d PROVE FALSE
      BY <1>6
    <3>1. p \in 1..Len(x) /\ p <= Len(x) /\ ~ (p \in 1..d)
      BY <1>4, <1>12
    <3>2. x[p] > 0 /\ x[p] = 0
      BY <1>1, <1>2, <1>17, <3>1 DEF Booked
    <3> QED BY <3>2
  <2>2. d <= Len(chosen) /\ l.saved = Front(chosen, d)
    BY <1>3, <1>9 DEF ApplyOk
  <2>3. ASSUME NEW q \in 1..d PROVE w[q] = chosen[q]
    <3>1. q \in 1..h
      BY <2>1
    <3>2. 1 \in 1..(Len(chosen) + 1) /\ d \in 0..Len(chosen) /\ 1 <= d + 1
      BY <1>11, <2>2
    <3>3. Front(chosen, d)[q] = chosen[q]
      BY <1>9, <3>2, PartOf DEF Front
    <3>4. w[q] = x[q] /\ x[q] = l.saved[q]
      BY <1>14, <1>19, <3>1 DEF SameTo
    <3> QED BY <2>2, <3>3, <3>4
  <2> QED BY <2>1, <2>2, <2>3 DEF SameTo
<1>23. \A m \in Node : leads[m] /\ term[m] = s.term => Begins(w, Full(log[m]))
  <2>1. \A m \in Node : leads[m] /\ term[m] = r.term => m = n
    BY <1>8 DEF BegunOk
  <2> QED BY <1>1, <1>2, <1>14, <2>1
<1>24. SafeTo(term, B, A, w, s.term) /\ Settled(B, A, s.term, k)
  BY <1>8, <1>10, <1>14 DEF BegunOk
<1>25. s.commit = k /\ s.prev = p /\ k <= Len(w)
  BY <1>6, <1>10, <1>14, <1>16
<1>26. AppendOf(term, B, A, leads, log, chosen, s, w)
  BY <1>7, <1>14, <1>15, <1>16, <1>21, <1>22, <1>23, <1>24, <1>25 DEF AppendOf
<1>27. AppendOk(term, B, A, leads, log, chosen, s)
  BY <1>25, <1>26 DEF AppendOk
<1>28. s.kind \notin Reading
  BY DEF Reading
<1> QED BY <1>27, <1>28 DEF RpcOk

\* A goroutine that goes on with something that is as good.
LEMMA CoreGoes ==
  ASSUME NEW B, NEW A, Core(B, A), NEW r \in rpc, NEW from, NEW s,
         Replication!Goes(r, from, s), RpcOk(term, leads, log, commit, chosen, B, A, s)
  PROVE  Core(B, A)'
<1>1. /\ rpc' = (rpc \ {r}) \cup {s}
      /\ UNCHANGED <<term, leads, log, commit, applied, fsm, next, match, chosen>>
  BY DEF Replication!Goes, Replication!Replace
<1>2. next' \in [Node -> [Node -> Nat]]
  BY <1>1 DEF Core, VarTypes
<1> QED BY <1>1, <1>2, CoreRpcs

\* One that has read something more.
Reads(r, s) ==
  /\ r.kind \in Reading /\ s.kind \in Reading
  /\ s.from = r.from /\ s.to = r.to /\ s.term = r.term /\ s.commit = r.commit
  /\ s.next \in Nat
  /\ s.kind = "last" => s.last \in Nat /\ s.commit <= s.last

\* It is as good as before.
LEMMA ReadsOk ==
  ASSUME NEW B, NEW A, Core(B, A), NEW r \in rpc, NEW s, Reads(r, s)
  PROVE  RpcOk(term, leads, log, commit, chosen, B, A, s)
<1>1. /\ SentOk(term, A, r)
      /\ BegunOk(term, B, A, leads, r, commit[r.from], Full(log[r.from]))
  BY DEF Core, RpcOk, Reads
<1>2. s.kind # "installed" /\ s.kind # "reply" /\ s.kind # "append"
  BY DEF Reads, Reading
<1>3. SentOk(term, A, s)
  BY <1>1, <1>2 DEF SentOk, Reads
<1>4. BegunOk(term, B, A, leads, s, commit[s.from], Full(log[s.from]))
  BY <1>1 DEF BegunOk, Reads
<1> QED BY <1>2, <1>3, <1>4 DEF RpcOk

\* replicateTo, while nothing is torn
LEMMA CoreReplicateTo ==
  ASSUME NEW B, NEW A, Core(B, A), NEW r \in rpc, Replication!replicateTo(r), harm' = {}
  PROVE  Core(B, A)'
<1>1. SentOk(term, A, r) /\ RpcOk(term, leads, log, commit, chosen, B, A, r)
  BY DEF Core, RpcOk
<1>2. PICK n \in Node, p \in Node : n = r.from /\ p = r.to
  BY <1>1 DEF SentOk
<1>3. r.kind \in Reading => r.next \in Nat /\ r.commit \in Nat /\ r.commit <= commit[n]
  BY <1>1, <1>2 DEF RpcOk, BegunOk
<1>4. CASE Replication!ReadNextIndex(r)
  <2> DEFINE s == [r EXCEPT !.kind = "next", !.next = next[n][p]]
  <2>1. Replication!Goes(r, "begun", s) /\ r.kind = "begun"
    BY <1>2, <1>4 DEF Replication!ReadNextIndex, Replication!Goes
  <2>2. next[n][p] \in Nat
    BY DEF Core, VarTypes
  <2>3. Reads(r, s)
    BY <2>1, <2>2 DEF Reads, Reading
  <2> HIDE DEF s
  <2> QED BY <2>1, <2>3, ReadsOk, CoreGoes
<1>5. CASE Replication!ReadFirstIndex(r)
  <2> DEFINE u == [kind |-> "snapshot", from |-> n, to |-> p, term |-> r.term,
                   state |-> fsm[n]]
             s == [r EXCEPT !.kind = "first"]
  <2>1. /\ Replication!Goes(r, "next", IF r.next < log[n].first THEN u ELSE s)
        /\ r.kind = "next"
    BY <1>2, <1>5 DEF Replication!ReadFirstIndex, Replication!Goes
  <2>2. Reads(r, s)
    BY <1>3, <2>1 DEF Reads, Reading
  <2>3. RpcOk(term, leads, log, commit, chosen, B, A, u)
    <3>1. /\ u.kind = "snapshot" /\ u.from = r.from /\ u.to = r.to /\ u.term = r.term
          /\ u.kind \notin Reading
      BY <1>2 DEF Reading
    <3> HIDE DEF u
    <3>2. SentOk(term, A, u)
      BY <1>1, <3>1 DEF SentOk
    <3> QED BY <3>1, <3>2, PlainRpc
  <2> HIDE DEF s, u
  <2>4. RpcOk(term, leads, log, commit, chosen, B, A, s)
    BY <2>2, ReadsOk
  <2> QED BY <2>1, <2>3, <2>4, CoreGoes
<1>6. CASE Replication!ReadTermAt(r)
  <2> DEFINE s == [r EXCEPT !.kind = "prev",
                            !.prevTerm = Replication!TermAt(log[n], r.next - 1)]
  <2>1. Replication!Goes(r, "first", s) /\ r.kind = "first"
    BY <1>2, <1>6 DEF Replication!ReadTermAt, Replication!Goes
  <2>2. Reads(r, s)
    BY <1>3, <2>1 DEF Reads, Reading
  <2> HIDE DEF s
  <2> QED BY <2>1, <2>2, ReadsOk, CoreGoes
<1>7. CASE Replication!ReadLastIndex(r)
  <2> DEFINE s == [r EXCEPT !.kind = "last", !.last = Replication!LastIndex(log[n])]
  <2>1. Replication!Goes(r, "prev", s) /\ r.kind = "prev"
    BY <1>2, <1>7 DEF Replication!ReadLastIndex, Replication!Goes
  <2>2. PICK l \in LogType : l = log[n] /\ Whole(l)
    BY DEF Core, VarTypes, LogOk
  <2>3. PICK g \in Nat : g = Len(Full(l)) /\ g = Replication!LastIndex(log[n])
    BY <2>2, FullTyped, LogReads, EmptySeq
  <2>4. commit[n] \in Nat /\ commit[n] <= g
    BY <2>2, <2>3 DEF Core, ApplyOk
  <2>5. /\ s.kind = "last" /\ s.from = r.from /\ s.to = r.to /\ s.term = r.term
        /\ s.commit = r.commit /\ s.next = r.next /\ s.last = g
    BY <2>3, <2>1
  <2> HIDE DEF s
  <2>6. r.next \in Nat /\ r.commit \in Nat /\ r.commit <= commit[n]
    BY <1>3, <2>1 DEF Reading
  <2>7. r.commit <= g
    BY <2>4, <2>6
  <2>8. Reads(r, s)
    BY <2>1, <2>5, <2>6, <2>7 DEF Reads, Reading
  <2> QED BY <2>1, <2>8, ReadsOk, CoreGoes
<1>8. CASE Replication!ReadRange(r)
  <2> DEFINE s == [kind |-> "append", from |-> n, to |-> p, term |-> r.term,
                   commit |-> r.commit, prev |-> r.next - 1, prevTerm |-> r.prevTerm,
                   start |-> Replication!Max({r.next, log[n].first}),
                   entries |-> Replication!GetRange(log[n], r.next, r.last)]
  <2>1. Replication!Goes(r, "last", s) /\ r.kind = "last"
    BY <1>2, <1>8 DEF Replication!ReadRange, Replication!Goes
  <2>2. ~ Replication!Torn(log[n], r)
    BY <1>2, <1>8 DEF Replication!ReadRange
  <2>3. /\ s.kind = "append" /\ s.from = r.from /\ s.to = r.to /\ s.term = r.term
        /\ s.commit = r.commit /\ s.prev = r.next - 1 /\ s.prevTerm = r.prevTerm
        /\ s.start = Replication!Max({r.next, log[n].first})
        /\ s.entries = Replication!GetRange(log[n], r.next, r.last)
    BY <1>2
  <2> HIDE DEF s
  <2>4. SentOk(term, A, s)
    BY <1>1, <2>3 DEF SentOk
  <2>5. PICK i \in Nat : i = r.next
    BY <1>3, <2>1 DEF Reading
  <2>6. RpcOk(term, leads, log, commit, chosen, B, A, s)
    BY <1>2, <2>1, <2>2, <2>3, <2>4, <2>5, SentAppend
  <2> QED BY <2>1, <2>6, CoreGoes
<1> QED BY <1>4, <1>5, <1>6, <1>7, <1>8 DEF Replication!replicateTo

\* sendSnapshot
LEMMA CoreSendSnapshot ==
  ASSUME NEW B, NEW A, Core(B, A), NEW r \in rpc, Replication!sendSnapshot(r)
  PROVE  Core(B, A)'
<1> DEFINE s == [kind |-> "install", from |-> r.from, to |-> r.to, term |-> r.term,
                 state |-> r.state, last |-> applied[r.from]]
<1>1. /\ rpc' = (rpc \ {r}) \cup {s}
      /\ UNCHANGED <<term, leads, log, commit, applied, fsm, next, match, chosen>>
  BY DEF Replication!sendSnapshot, Replication!Replace
<1>2. s.kind = "install" /\ s.term = r.term /\ s.from = r.from /\ s.to = r.to
  OBVIOUS
<1> HIDE DEF s
<1>3. SentOk(term, A, r)
  BY DEF Core, RpcOk
<1>4. SentOk(term, A, s)
  BY <1>2, <1>3 DEF SentOk
<1>5. RpcOk(term, leads, log, commit, chosen, B, A, s)
  BY <1>2, <1>4, PlainRpc DEF Reading
<1>6. next' \in [Node -> [Node -> Nat]]
  BY <1>1 DEF Core, VarTypes
<1> QED BY <1>1, <1>5, <1>6, CoreRpcs

\* LoseRPC
LEMMA CoreLoseRPC ==
  ASSUME NEW B, NEW A, Core(B, A), NEW r \in rpc, Replication!LoseRPC(r)
  PROVE  Core(B, A)'
<1>1. /\ rpc' = (rpc \ {r}) \cup {}
      /\ UNCHANGED <<term, leads, log, commit, applied, fsm, next, match, chosen>>
  BY DEF Replication!LoseRPC, Replication!Replace
<1>2. next' \in [Node -> [Node -> Nat]]
  BY <1>1 DEF Core, VarTypes
<1> QED BY <1>1, <1>2, CoreRpcs

\* The index of a conflict is a number.
LEMMA ConflictTyped ==
  ASSUME NEW l \in LogType, NEW r, r.prev \in Nat
  PROVE  Replication!Conflict(l, r).index \in Nat
<1>1. CASE r.prev > Replication!LastIndex(l)
  <2>1. Replication!LastIndex(l) \in Int
    BY EmptySeq DEF LogType, Replication!LastIndex
  <2>2. Replication!LastIndex(l) + 1 \in Nat
    <3>1. l.entries = <<>> \/ Len(l.entries) >= 1
      BY EmptySeq DEF LogType
    <3> QED BY <3>1, EmptySeq DEF LogType, Replication!LastIndex
  <2> QED BY <1>1, <2>2 DEF Replication!Conflict
<1>2. CASE ~ (r.prev > Replication!LastIndex(l))
  <2> DEFINE before == {i \in 1..(r.prev - 1) :
                          Replication!TermAt(l, i) # Replication!TermAt(l, r.prev)}
  <2>1. Replication!Conflict(l, r).index =
          IF before = {} THEN 0 ELSE Replication!Max(before) + 1
    BY <1>2 DEF Replication!Conflict, Replication!ConflictAt
  <2>2. CASE before = {}
    BY <2>1, <2>2
  <2>3. CASE before # {}
    <3>1. before \in SUBSET Nat /\ \A x \in before : x <= r.prev
      OBVIOUS
    <3> HIDE DEF before
    <3>2. Replication!Max(before) \in before
      BY <2>3, <3>1, LargestIn
    <3>3. Replication!Max(before) \in Nat
      BY <3>1, <3>2
    <3>4. Replication!Max(before) + 1 \in Nat
      BY <3>3
    <3> QED BY <2>1, <2>3, <3>4
  <2> QED BY <2>2, <2>3
<1> QED BY <1>1, <1>2

\* A reply that refuses.
LEMMA Refusal ==
  ASSUME NEW T, NEW A, NEW r, r.from \in Node, r.to \in Node, NEW t \in Nat,
         Reached(T, t), NEW i, NEW c, c.index \in Nat
  PROVE  /\ SentOk(T, A, Replication!Reply(r, t, FALSE, i, c))
         /\ Replication!Reply(r, t, FALSE, i, c).kind \notin Reading
         /\ Replication!Reply(r, t, FALSE, i, c).kind # "append"
<1> DEFINE s == Replication!Reply(r, t, FALSE, i, c)
<1>1. /\ s.kind = "reply" /\ s.from = r.from /\ s.to = r.to /\ s.term = t
      /\ s.success = FALSE /\ s.conflictIndex = c.index
  BY DEF Replication!Reply
<1> HIDE DEF s
<1>2. SentOk(T, A, s) /\ s.kind \notin Reading /\ s.kind # "append"
  BY <1>1 DEF SentOk, Reading
<1> QED BY <1>2 DEF s

\* HandleAppendEntries of a node that is in a later term.
LEMMA CoreRefuseOld ==
  ASSUME NEW B, NEW A, Core(B, A), NEW r \in rpc, Replication!HandleAppendEntries(r),
         r.term < term[r.to]
  PROVE  Core(B, A)'
<1>1. SentOk(term, A, r)
  BY DEF Core, RpcOk
<1>2. PICK n \in Node, m \in Node, t \in Nat, u \in Nat :
        n = r.from /\ m = r.to /\ t = r.term /\ u = term[m] /\ t < u
  <2>1. term[r.to] \in Nat /\ r.from \in Node /\ r.to \in Node /\ r.term \in Nat
    BY <1>1 DEF SentOk, Core, Ledger, LedgerType
  <2> QED BY <2>1
<1> DEFINE s == Replication!Reply(r, u, FALSE, 0, Replication!NoConflict)
<1>3. /\ rpc' = (rpc \ {r}) \cup {s}
      /\ UNCHANGED <<term, leads, log, commit, applied, fsm, next, match, chosen>>
  BY <1>2 DEF Replication!HandleAppendEntries, Replication!Replace
<1>4. SentOk(term, A, s) /\ s.kind \notin Reading /\ s.kind # "append"
  <2>1. Reached(term, u)
    BY <1>2 DEF Core, LogOk
  <2>2. Replication!NoConflict.index \in Nat
    BY DEF Replication!NoConflict
  <2> QED BY <1>2, <2>1, <2>2, Refusal
<1> HIDE DEF s
<1>5. RpcOk(term, leads, log, commit, chosen, B, A, s)
  BY <1>4, PlainRpc
<1>6. next' \in [Node -> [Node -> Nat]]
  BY <1>3 DEF Core, VarTypes
<1> QED BY <1>3, <1>5, <1>6, CoreRpcs

\* HandleAppendEntries of a node whose log does not have the entry before.
LEMMA CoreRefuseConflict ==
  ASSUME NEW B, NEW A, Core(B, A), NEW r \in rpc, Replication!HandleAppendEntries(r),
         ~ (r.term < term[r.to]), ~ Replication!Consistent(log[r.to], r)
  PROVE  Core(B, A)'
<1>1. SentOk(term, A, r) /\ r.kind = "append" /\ r.prev \in Nat
  BY DEF Core, RpcOk, AppendOk, Replication!HandleAppendEntries
<1>2. PICK n \in Node, m \in Node, t \in Nat :
        n = r.from /\ m = r.to /\ t = r.term /\ term[m] <= t /\ Reached(term, t)
  <2>1. term[r.to] \in Nat /\ r.from \in Node /\ r.to \in Node /\ r.term \in Nat
    BY <1>1 DEF SentOk, Core, Ledger, LedgerType
  <2> QED BY <1>1, <2>1 DEF SentOk
<1> DEFINE c == Replication!Conflict(log[m], r)
           s == Replication!Reply(r, t, FALSE, 0, c)
<1>3. /\ rpc' = (rpc \ {r}) \cup {s}
      /\ Replication!Follow(m, t)
      /\ UNCHANGED <<log, commit, applied, fsm, chosen>>
  BY <1>2 DEF Replication!HandleAppendEntries, Replication!Replace
<1>4. SentOk(term', A, s) /\ s.kind \notin Reading /\ s.kind # "append"
  <2>1. Reached(term', t)
    <3>1. LedgerType(term, B, A) /\ term' = [term EXCEPT ![m] = t]
      BY <1>3 DEF Core, Ledger, Replication!Follow
    <3>2. Frame(term, B, A, term', B, A)
      BY <1>2, <3>1, FollowFrame
    <3> QED BY <1>2, <3>2, KeepsReached
  <2>2. c.index \in Nat
    <3>1. log[m] \in LogType
      BY DEF Core, VarTypes
    <3> QED BY <1>1, <3>1, ConflictTyped
  <2> HIDE DEF c
  <2> QED BY <1>2, <2>1, <2>2, Refusal
<1> HIDE DEF s
<1> QED BY <1>2, <1>3, <1>4, CoreFollow

\* HandleInstallSnapshot of a node that is in a later term.
LEMMA CoreRefuseSnapshot ==
  ASSUME NEW B, NEW A, Core(B, A), NEW r \in rpc, Replication!HandleInstallSnapshot(r),
         r.term < term[r.to]
  PROVE  Core(B, A)'
<1>1. SentOk(term, A, r)
  BY DEF Core, RpcOk
<1>2. PICK n \in Node, m \in Node, t \in Nat, u \in Nat :
        n = r.from /\ m = r.to /\ t = r.term /\ u = term[m] /\ t < u
  <2>1. term[r.to] \in Nat /\ r.from \in Node /\ r.to \in Node /\ r.term \in Nat
    BY <1>1 DEF SentOk, Core, Ledger, LedgerType
  <2> QED BY <2>1
<1>3. UNCHANGED <<term, leads, log, commit, applied, fsm, next, match, chosen>>
  BY <1>2 DEF Replication!HandleInstallSnapshot
<1> DEFINE s == [kind |-> "installed", from |-> r.from, to |-> m, sent |-> r.term,
                 term |-> u, last |-> r.last]
<1>4. rpc' = (rpc \ {r}) \cup {s}
  BY <1>2, <1>3 DEF Replication!HandleInstallSnapshot, Replication!Replace
<1>5. s.kind = "installed" /\ s.from = n /\ s.to = m /\ s.sent = t /\ s.term = u
  BY <1>2
<1> HIDE DEF s
<1>6. SentOk(term, A, s)
  <2>1. Reached(term, u)
    BY <1>2 DEF Core, LogOk
  <2> QED BY <1>2, <1>5, <2>1 DEF SentOk
<1>7. RpcOk(term, leads, log, commit, chosen, B, A, s)
  BY <1>5, <1>6, PlainRpc DEF Reading
<1>8. next' \in [Node -> [Node -> Nat]]
  BY <1>3 DEF Core, VarTypes
<1> QED BY <1>3, <1>4, <1>7, <1>8, CoreRpcs

\* A newer term in a reply.
LEMMA CoreStepDown ==
  ASSUME NEW B, NEW A, Core(B, A), NEW r \in rpc, Replication!StepDown(r),
         r.term > term[r.from], UNCHANGED <<log, commit, applied, fsm, chosen>>
  PROVE  Core(B, A)'
<1>1. SentOk(term, A, r)
  BY DEF Core, RpcOk
<1>2. PICK n \in Node, t \in Nat : n = r.from /\ t = r.term /\ term[n] <= t /\ Reached(term, t)
  <2>1. term[r.from] \in Nat /\ r.from \in Node /\ r.term \in Nat
    BY <1>1 DEF SentOk, Core, Ledger, LedgerType
  <2> QED BY <1>1, <2>1 DEF SentOk
<1>3. Replication!Follow(n, t) /\ rpc' \subseteq rpc
  BY <1>2 DEF Replication!StepDown
<1> QED BY <1>2, <1>3, CoreFollow

\* ApplyInstalled: a snapshot that was taken is recorded as harm, and one that was
\* refused has the answer of a later term.
LEMMA CoreApplyInstalled ==
  ASSUME NEW B, NEW A, Core(B, A), NEW r \in rpc, Replication!ApplyInstalled(r), harm' = {}
  PROVE  Core(B, A)'
<1>1. SentOk(term, A, r) /\ r.kind = "installed"
      /\ UNCHANGED <<log, commit, applied, fsm, chosen>>
  BY DEF Core, RpcOk, Replication!ApplyInstalled
<1>2. CASE r.term > term[r.from]
  BY <1>1, <1>2, CoreStepDown DEF Replication!ApplyInstalled
<1>3. CASE ~ (r.term > term[r.from])
  <2>1. term[r.from] \in Nat /\ r.from \in Node /\ r.term \in Nat
    BY <1>1 DEF SentOk, Core, Ledger, LedgerType
  <2>2. ~ leads[r.from]
    <3>1. r.sent \in Nat /\ r.sent < r.term
      BY <1>1 DEF SentOk
    <3>2. r.term <= term[r.from] /\ r.sent < term[r.from]
      BY <1>3, <2>1, <3>1
    <3>3. ~ (leads[r.from] /\ r.term <= term[r.from] /\ r.sent < term[r.from])
      BY DEF Replication!ApplyInstalled, Replication!Counted
    <3> QED BY <3>2, <3>3
  <2>3. UNCHANGED <<term, leads, next, match>> /\ rpc' = (rpc \ {r}) \cup {}
    BY <1>3, <2>2 DEF Replication!ApplyInstalled, Replication!Replace
  <2>4. next' \in [Node -> [Node -> Nat]]
    BY <2>3 DEF Core, VarTypes
  <2> QED BY <1>1, <2>3, <2>4, CoreRpcs
<1> QED BY <1>2, <1>3

\* A step in which terms and entries stay, and commit indexes may move.
LEMMA CoreAdvance ==
  ASSUME NEW B, NEW A, Core(B, A), UNCHANGED term, VarTypes',
         \A n \in Node : LogOk(term, B, A, n, log'[n]) /\ Full(log'[n]) = Full(log[n]),
         \A n \in Node : leads'[n] =>
           leads[n] /\ LeaderOk(term, B, A, n, Full(log[n]), match'[n]),
         \A n \in Node :
           ApplyOk(B, A, term[n], log'[n], chosen', commit'[n], applied'[n], fsm'[n]),
         Begins(chosen, chosen'), ChosenOk(B, A, chosen'), rpc' \subseteq rpc,
         \A r \in rpc' : r.kind \in Reading => commit[r.from] <= commit'[r.from]
  PROVE  Core(B, A)'
<1>0. LedgerType(term, B, A)
  BY DEF Core, Ledger
<1>1. ASSUME NEW r \in rpc' PROVE RpcOk(term', leads', log', commit', chosen', B, A, r)
  <2>1. RpcOk(term, leads, log, commit, chosen, B, A, r)
    BY DEF Core
  <2>2. /\ log \in [Node -> LogType] /\ commit \in [Node -> Nat] /\ chosen \in Seq(Nat)
        /\ log' \in [Node -> LogType] /\ commit' \in [Node -> Nat] /\ chosen' \in Seq(Nat)
    BY DEF Core, VarTypes, ChosenOk
  <2>3. PICK n \in Node : n = r.from
    BY <2>1 DEF RpcOk, SentOk
  <2>4. Frame(term, B, A, term, B, A)
    <3>1. term[n] \in Nat /\ term[n] <= term[n] /\ [term EXCEPT ![n] = term[n]] = term
      BY <1>0 DEF LedgerType
    <3> QED BY <1>0, <3>1, FollowFrame
  <2>5. Deposes(term, leads, log, term, leads', log')
    <3>1. ASSUME NEW m \in Node PROVE Begins(Full(log[m]), Full(log'[m]))
      <4>1. Full(log[m]) \in Seq(Nat)
        BY <2>2, FullTyped
      <4> QED BY <4>1, BeginsItself
    <3> QED BY <3>1 DEF Deposes
  <2>6. RpcOk(term, leads', log', commit', chosen', B, A, r)
    BY <2>1, <2>2, <2>3, <2>4, <2>5, KeepsRpcOk
  <2> QED BY <2>6
<1>2. Ledger(term', B, A) /\ \A n \in Node : LogOk(term', B, A, n, log'[n])
  BY DEF Core
<1>3. \A n, m \in Node : leads'[n] /\ leads'[m] /\ term'[n] = term'[m] => n = m
  BY DEF Core
<1>4. /\ \A n \in Node : leads'[n] => LeaderOk(term', B, A, n, Full(log'[n]), match'[n])
      /\ \A n \in Node :
           ApplyOk(B, A, term'[n], log'[n], chosen', commit'[n], applied'[n], fsm'[n])
  OBVIOUS
<1> QED BY <1>1, <1>2, <1>3, <1>4 DEF Core

\* What becomes chosen when entry c of term t does.
LEMMA NextChosen ==
  ASSUME NEW T, NEW B, NEW A, Ledger(T, B, A), NEW y, ChosenOk(B, A, y),
         NEW t \in Nat, NEW c \in Nat, ChosenAt(B, A, t, c), NEW x \in Seq(Nat), x = B[t],
         NEW y1, y1 = IF c > Len(y) THEN Front(x, c) ELSE y
  PROVE  ChosenOk(B, A, y1) /\ Begins(y, y1) /\ c <= Len(y1) /\ SameTo(x, y1, c)
<1>1. y \in Seq(Nat) /\ Len(y) \in Nat /\ Len(x) \in Nat
  BY EmptySeq DEF ChosenOk
<1>2. Agrees(y, x, c)
  BY ChosenAgree
<1>3. c \in 1..Len(x) /\ x[c] = t
  BY DEF ChosenAt, OwnAt
<1>4. CASE ~ (c > Len(y))
  <2>1. y1 = y /\ c <= Len(y)
    BY <1>1, <1>4
  <2>2. SameTo(x, y, c)
    <3>1. \A j \in 1..c : j <= Len(y)
      BY <1>1, <2>1
    <3> QED BY <1>2, <3>1 DEF Agrees, SameTo
  <2>3. Begins(y, y)
    BY <1>1, BeginsItself
  <2> QED BY <2>1, <2>2, <2>3
<1>5. CASE c > Len(y)
  <2>1. /\ y1 \in Seq(Nat) /\ Len(y1) = c /\ \A k \in 1..c : y1[k] = x[k]
    <3>1. 1 \in 1..(Len(x) + 1) /\ c \in 0..Len(x) /\ 1 <= c + 1 /\ c - 1 + 1 = c
          /\ \A k \in 1..c : 1 + k - 1 = k
      BY <1>1, <1>3
    <3> QED BY <1>5, <3>1, PartOf DEF Front
  <2>2. SameTo(x, y1, c) /\ c <= Len(y1) /\ SameTo(y1, x, c)
    BY <2>1 DEF SameTo
  <2>3. Begins(y, y1)
    <3>1. Len(y) <= c /\ \A j \in 1..Len(y) : j \in 1..c /\ j <= Len(y)
      BY <1>1, <1>5
    <3> QED BY <1>2, <2>1, <3>1 DEF Agrees, Begins, SameTo
  <2>4. y1[Len(y1)] = t
    BY <1>3, <2>1
  <2> QED BY <2>1, <2>2, <2>3, <2>4 DEF ChosenOk
<1> QED BY <1>4, <1>5

\* updateCommitIndex: what it finds was chosen.
LEMMA CommitCounted ==
  ASSUME NEW B, NEW A, Core(B, A), NEW n \in Node, leads[n], NEW m \in [Node -> Nat],
         \A q \in Node : m[q] <= A[q][term[n]]
  PROVE  LET c == Replication!updateCommitIndex(n, m) IN
         \/ c = commit[n]
         \/ /\ c \in Nat /\ c > commit[n] /\ c <= Len(Full(log[n]))
            /\ ChosenAt(B, A, term[n], c)
<1>1. PICK l \in LogType : l = log[n] /\ Whole(l)
  BY DEF Core, VarTypes, LogOk
<1>2. PICK x \in Seq(Nat) : x = Full(l)
  BY FullTyped
<1>3. PICK t \in Nat : t = term[n] /\ t >= 1
  BY DEF Core, Ledger, LedgerType, LeaderOk
<1>4. x = B[t] /\ \A q \in Node : A[q][t] \in Nat /\ m[q] \in Nat /\ m[q] <= A[q][t]
  BY <1>1, <1>2, <1>3 DEF Core, LeaderOk, Ledger, LedgerType
<1>5. Len(x) <= A[n][t] /\ Len(x) \in Nat /\ commit[n] \in Nat
  BY <1>1, <1>2, <1>3, EmptySeq DEF Core, LeaderOk, VarTypes
<1>6. Replication!LastIndex(l) = Len(x)
  BY <1>1, <1>2, LogReads
<1> DEFINE on(i) == {p \in Node \ {n} : m[p] >= i}
           good == {i \in (commit[n] + 1)..Replication!LastIndex(l) :
                      /\ Replication!MayCommit(n, i)
                      /\ Cardinality(on(i)) + 1 >= Cardinality(Node) \div 2 + 1}
<1>7. Replication!updateCommitIndex(n, m) = IF good = {} THEN commit[n] ELSE Replication!Max(good)
  BY <1>1, SameCardinality DEF Replication!updateCommitIndex
<1>8. CASE good = {}
  BY <1>7, <1>8
<1>9. CASE good # {}
  <2>1. good \in SUBSET Nat /\ \A i \in good : i <= Len(x)
    BY <1>5, <1>6
  <2>2. PICK c \in good : c = Replication!Max(good)
    <3> HIDE DEF good
    <3> QED BY <1>5, <1>9, <2>1, LargestIn
  <2>3. /\ c \in Nat /\ c > commit[n] /\ c <= Len(x) /\ c \in 1..Len(x)
        /\ Replication!MayCommit(n, c)
        /\ Cardinality(on(c)) + 1 >= Cardinality(Node) \div 2 + 1
    BY <1>5, <1>6
  <2>4. x[c] = t
    <3>1. Replication!TermAt(l, c) = t
      BY <1>1, <1>3, <2>3 DEF Replication!MayCommit
    <3>2. Replication!TermAt(l, c) = IF c > Len(l.saved) /\ c <= Len(x) THEN x[c] ELSE 0
      BY <1>1, <1>2, <2>3, LogReads
    <3> QED BY <1>3, <3>1, <3>2
  <2>5. on(c) \cup {n} \in Majority
    BY <2>3, CountedMajority
  <2>6. ASSUME NEW q \in on(c) \cup {n} PROVE A[q][t] >= c
    <3>1. CASE q = n
      <4>1. A[n][t] \in Nat
        BY <1>4
      <4> QED BY <1>5, <2>3, <3>1, <4>1
    <3>2. CASE q # n
      <4>1. q \in Node /\ m[q] >= c
        BY <3>2
      <4>2. A[q][t] \in Nat /\ m[q] \in Nat /\ m[q] <= A[q][t]
        BY <1>4, <4>1
      <4> QED BY <2>3, <4>1, <4>2
    <3> QED BY <3>1, <3>2
  <2>7. PICK Q \in Majority : \A q \in Q : A[q][t] >= c
    BY <2>5, <2>6
  <2>8. ChosenAt(B, A, t, c)
    BY <1>4, <2>3, <2>4, <2>7 DEF ChosenAt, OwnAt
  <2> QED BY <1>1, <1>2, <1>3, <1>7, <1>9, <2>2, <2>3, <2>8
<1> QED BY <1>8, <1>9

\* Where a leader goes on after a conflict is a number.
LEMMA BackUpTyped ==
  ASSUME NEW n \in Node, log[n] \in LogType, NEW r, r.conflictIndex \in Nat
  PROVE  Replication!BackUp(n, r) \in Nat
<1>1. PICK l \in LogType : l = log[n]
  OBVIOUS
<1> DEFINE same == {i \in 1..Replication!LastIndex(l) :
                      Replication!TermAt(l, i) = r.conflictTerm}
<1>2. Replication!BackUp(n, r) = IF r.conflictTerm > 0 /\ same # {}
                                 THEN Replication!Max(same) + 1 ELSE r.conflictIndex
  BY <1>1 DEF Replication!BackUp
<1>3. CASE ~ (r.conflictTerm > 0 /\ same # {})
  BY <1>2, <1>3
<1>4. CASE r.conflictTerm > 0 /\ same # {}
  <2>1. Replication!LastIndex(l) \in Int
    BY EmptySeq DEF LogType, Replication!LastIndex
  <2>2. PICK k \in Nat : \A i \in 1..Replication!LastIndex(l) : i <= k
    <3>1. CASE Replication!LastIndex(l) \in Nat
      <4>1. \A i \in 1..Replication!LastIndex(l) : i <= Replication!LastIndex(l)
        BY <3>1
      <4> QED BY <3>1, <4>1, Zenon
    <3>2. CASE Replication!LastIndex(l) \notin Nat
      <4>1. \A i \in 1..Replication!LastIndex(l) : i <= 0
        BY <2>1, <3>2
      <4> QED BY <4>1
    <3> QED BY <3>1, <3>2
  <2>3. same \in SUBSET Nat /\ \A i \in same : i <= k
    BY <2>2
  <2> HIDE DEF same
  <2>4. Replication!Max(same) \in same
    BY <1>4, <2>3, LargestIn
  <2>5. Replication!Max(same) \in Nat
    BY <2>3, <2>4
  <2>6. Replication!Max(same) + 1 \in Nat
    BY <2>5
  <2> QED BY <1>2, <1>4, <2>6
<1> QED BY <1>3, <1>4

\* ApplyReply that moves MatchIndex and perhaps the commit index.
LEMMA CoreCommit ==
  ASSUME NEW B, NEW A, Core(B, A), NEW n \in Node, leads[n], NEW m \in [Node -> Nat],
         \A q \in Node : m[q] <= A[q][term[n]],
         NEW c, c = Replication!updateCommitIndex(n, m),
         UNCHANGED <<term, leads, log, applied, fsm>>, rpc' \subseteq rpc,
         next' \in [Node -> [Node -> Nat]], match' = [match EXCEPT ![n] = m],
         commit' = [commit EXCEPT ![n] = c], chosen' = Replication!Chosen(log[n], c)
  PROVE  Core(B, A)' /\ Begins(chosen, chosen')
<1>1. /\ commit \in [Node -> Nat] /\ match \in [Node -> [Node -> Nat]]
      /\ log \in [Node -> LogType] /\ chosen \in Seq(Nat) /\ Len(chosen) \in Nat
      /\ Ledger(term, B, A) /\ LedgerType(term, B, A)
  BY EmptySeq DEF Core, VarTypes, ChosenOk, Ledger
<1>2. PICK t \in Nat, x \in Seq(Nat) : t = term[n] /\ x = Full(log[n]) /\ x = B[t]
  BY <1>1, FullTyped DEF Core, LeaderOk, LedgerType
<1>3. PICK d \in Nat : d = commit[n] /\ d <= Len(chosen)
  BY <1>1 DEF Core, ApplyOk
<1>4. chosen' = IF c > Len(chosen) THEN Front(x, c) ELSE chosen
  BY <1>2 DEF Replication!Chosen, Front, Full
<1>5. \/ c = d
      \/ c \in Nat /\ c > d /\ c <= Len(x) /\ ChosenAt(B, A, t, c)
  BY <1>2, <1>3, CommitCounted
<1>6. /\ c \in Nat /\ d <= c /\ Begins(chosen, chosen') /\ ChosenOk(B, A, chosen')
      /\ c <= Len(chosen') /\ c <= Len(x) /\ SameTo(x, chosen', c)
      /\ Settled(B, A, t, c)
  <2>1. CASE c = d
    <3>1. c \in Nat /\ d <= c /\ ~ (c > Len(chosen))
      BY <1>1, <1>3, <2>1
    <3>2. chosen' = chosen /\ Begins(chosen, chosen)
      BY <1>1, <1>4, <3>1, BeginsItself
    <3>3. ApplyOk(B, A, t, log[n], chosen, d, applied[n], fsm[n]) /\ ChosenOk(B, A, chosen)
      BY <1>2, <1>3 DEF Core
    <3> QED BY <1>2, <2>1, <3>1, <3>2, <3>3 DEF ApplyOk
  <2>2. CASE c \in Nat /\ c > d /\ c <= Len(x) /\ ChosenAt(B, A, t, c)
    <3>1. ChosenOk(B, A, chosen)
      BY DEF Core
    <3>2. /\ ChosenOk(B, A, chosen') /\ Begins(chosen, chosen')
          /\ c <= Len(chosen') /\ SameTo(x, chosen', c)
      BY <1>1, <1>2, <1>4, <2>2, <3>1, NextChosen
    <3>3. t \in 0..t /\ c >= c /\ d <= c
      BY <2>2
    <3>4. Settled(B, A, t, c)
      BY <2>2, <3>3 DEF Settled
    <3> QED BY <2>2, <3>2, <3>3, <3>4
  <2> QED BY <1>5, <2>1, <2>2
<1>7. VarTypes'
  BY <1>1, <1>6 DEF Core, VarTypes
<1>8. chosen' \in Seq(Nat)
  BY <1>6 DEF ChosenOk
<1>9. ASSUME NEW q \in Node
      PROVE  ApplyOk(B, A, term[q], log'[q], chosen', commit'[q], applied'[q], fsm'[q])
  <2>1. ApplyOk(B, A, term[q], log[q], chosen, commit[q], applied[q], fsm[q])
    BY DEF Core
  <2>2. term[q] \in Nat /\ term[q] <= term[q] /\ log[q] \in LogType
        /\ [term EXCEPT ![q] = term[q]] = term
    BY <1>1 DEF LedgerType
  <2>3. Frame(term, B, A, term, B, A)
    BY <1>1, <2>2, FollowFrame, SMTT(30)
  <2>4. commit[q] <= Len(Full(log[q])) /\ SameTo(Full(log[q]), chosen, commit[q])
    BY <2>1 DEF ApplyOk
  <2>5. ApplyOk(B, A, term[q], log[q], chosen', commit[q], applied[q], fsm[q])
    <3>1. chosen \in Seq(Nat) /\ Begins(chosen, chosen')
      BY <1>1, <1>6
    <3>2. \A l1 \in LogType : l1.saved = log[q].saved /\ l1 = log[q] =>
            ApplyOk(B, A, term[q], l1, chosen', commit[q], applied[q], fsm[q])
      BY <1>8, <2>1, <2>2, <2>3, <2>4, <3>1, KeepsApplyOk
    <3> QED BY <2>2, <3>2
  <2>6. CASE q # n
    BY <1>1, <2>5, <2>6
  <2>7. CASE q = n
    <3>1. applied[n] \in Nat /\ applied[n] <= c
      BY <1>3, <1>6, <2>1, <2>7 DEF ApplyOk
    <3>2. commit'[n] = c
      BY <1>1
    <3> QED BY <1>2, <1>6, <2>5, <2>7, <3>1, <3>2 DEF ApplyOk
  <2> QED BY <2>6, <2>7
<1>10. ASSUME NEW q \in Node, leads'[q]
       PROVE  leads[q] /\ LeaderOk(term, B, A, q, Full(log[q]), match'[q])
  <2>1. leads[q] /\ LeaderOk(term, B, A, q, Full(log[q]), match[q])
    BY <1>10 DEF Core
  <2>2. CASE q # n
    BY <1>1, <2>1, <2>2
  <2>3. CASE q = n
    <3>1. match'[n] = m
      BY <1>1
    <3> QED BY <2>1, <2>3, <3>1 DEF LeaderOk
  <2> QED BY <2>2, <2>3
<1>11. \A r \in rpc' : commit[r.from] <= commit'[r.from]
  <2> SUFFICES ASSUME NEW r \in rpc' PROVE commit[r.from] <= commit'[r.from]
    OBVIOUS
  <2>1. PICK q \in Node : q = r.from
    BY DEF Core, RpcOk, SentOk
  <2>2. CASE q = n
    BY <1>1, <1>3, <1>6, <2>1, <2>2
  <2>3. CASE q # n
    <3>1. commit'[q] = commit[q] /\ commit[q] \in Nat
      BY <1>1, <2>3
    <3> QED BY <2>1, <3>1
  <2> QED BY <2>2, <2>3
<1>12. \A q \in Node : LogOk(term, B, A, q, log'[q]) /\ Full(log'[q]) = Full(log[q])
  BY DEF Core
<1>13. Core(B, A)'
  BY <1>6, <1>7, <1>9, <1>10, <1>11, <1>12, CoreAdvance
<1> QED BY <1>6, <1>13

\* ApplyReply
LEMMA CoreApplyReply ==
  ASSUME NEW B, NEW A, Core(B, A), NEW r \in rpc, Replication!ApplyReply(r), harm' = {}
  PROVE  Core(B, A)' /\ (chosen' = chosen \/ Begins(chosen, chosen'))
<1>1. /\ SentOk(term, A, r) /\ r.kind = "reply"
      /\ UNCHANGED <<log, applied, fsm>>
  BY DEF Core, RpcOk, Replication!ApplyReply
<1>2. PICK n \in Node, p \in Node, t \in Nat : n = r.from /\ p = r.to /\ t = r.term
  BY <1>1 DEF SentOk
<1>3. CASE r.term > term[r.from]
  <2>1. Replication!StepDown(r) /\ UNCHANGED <<commit, chosen>>
    BY <1>3 DEF Replication!ApplyReply
  <2> QED BY <1>1, <1>3, <2>1, CoreStepDown
<1>4. CASE ~ (r.term > term[r.from])
  <2>1. UNCHANGED <<term, leads>> /\ rpc' = (rpc \ {r}) \cup {}
    BY <1>4 DEF Replication!ApplyReply, Replication!Replace
  <2>2. CASE ~ leads[n]
    <3>1. UNCHANGED <<next, match, commit, chosen>>
      BY <1>2, <1>4, <2>2 DEF Replication!ApplyReply
    <3>2. next' \in [Node -> [Node -> Nat]]
      BY <3>1 DEF Core, VarTypes
    <3>3. Core(B, A)'
      BY <1>1, <2>1, <3>1, <3>2, CoreRpcs
    <3> QED BY <3>1, <3>3
  <2>3. CASE leads[n] /\ ~ r.success
    <3>1. /\ next' = [next EXCEPT ![n][p] = Replication!BackUp(n, r)]
          /\ UNCHANGED <<match, commit, chosen>>
      BY <1>2, <1>4, <2>3 DEF Replication!ApplyReply
    <3>2. Replication!BackUp(n, r) \in Nat
      <4>1. r.conflictIndex \in Nat /\ log[n] \in LogType
        BY <1>1 DEF SentOk, Core, VarTypes
      <4> QED BY <4>1, BackUpTyped
    <3>3. next' \in [Node -> [Node -> Nat]]
      BY <3>1, <3>2 DEF Core, VarTypes
    <3>4. Core(B, A)'
      BY <1>1, <2>1, <3>1, <3>3, CoreRpcs
    <3> QED BY <3>1, <3>4
  <2>4. CASE leads[n] /\ r.success
    <3>1. PICK k \in Nat : k = r.last /\ k <= A[p][t]
      BY <1>1, <1>2, <2>4 DEF SentOk
    <3>2. k > 0 => t = term[n]
      <4>1. term[n] \in Nat
        BY DEF Core, Ledger, LedgerType
      <4>2. ~ (leads[n] /\ r.success /\ k > 0 /\ t < term[n])
        BY <1>2, <3>1 DEF Replication!ApplyReply, Replication!Counted
      <4> QED BY <1>2, <1>4, <2>4, <4>1, <4>2
    <3>3. PICK m : m = IF k > 0 THEN [match[n] EXCEPT ![p] = k] ELSE match[n]
      OBVIOUS
    <3>4. /\ next' = IF k > 0 THEN [next EXCEPT ![n][p] = k + 1] ELSE next
          /\ match' = [match EXCEPT ![n] = m]
          /\ commit' = [commit EXCEPT ![n] = Replication!updateCommitIndex(n, m)]
          /\ chosen' = Replication!Chosen(log[n], Replication!updateCommitIndex(n, m))
      BY <1>2, <1>4, <2>4, <3>1, <3>3 DEF Replication!ApplyReply
    <3>5. match[n] \in [Node -> Nat] /\ next \in [Node -> [Node -> Nat]]
      BY DEF Core, VarTypes
    <3>6. m \in [Node -> Nat]
      BY <3>3, <3>5
    <3>7. ASSUME NEW q \in Node PROVE m[q] <= A[q][term[n]]
      <4>1. match[n][q] <= A[q][term[n]]
        BY <2>4 DEF Core, LeaderOk
      <4>2. CASE k > 0 /\ q = p
        BY <3>1, <3>2, <3>3, <3>5, <4>2
      <4>3. CASE ~ (k > 0 /\ q = p)
        BY <3>3, <3>5, <4>1, <4>3
      <4> QED BY <4>2, <4>3
    <3>8. next' \in [Node -> [Node -> Nat]]
      <4>1. k + 1 \in Nat
        OBVIOUS
      <4> QED BY <3>4, <3>5, <4>1
    <3> QED BY <1>1, <2>1, <2>4, <3>4, <3>6, <3>7, <3>8, CoreCommit
  <2> QED BY <2>2, <2>3, <2>4
<1> QED BY <1>3, <1>4

\* The frame of a step that changes neither terms nor what leaders know.
LEMMA SameFrame ==
  ASSUME NEW T, NEW B, NEW A, LedgerType(T, B, A), NEW n \in Node
  PROVE  Frame(T, B, A, T, B, A)
<1>1. T[n] \in Nat /\ T[n] <= T[n] /\ [T EXCEPT ![n] = T[n]] = T
  BY DEF LedgerType
<1> QED BY <1>1, FollowFrame

\* applyCommitted: the entries that it applies are the next of the chosen ones.
LEMMA CoreApply ==
  ASSUME NEW B, NEW A, Core(B, A), NEW n \in Node, Replication!applyCommitted(n)
  PROVE  Core(B, A)'
<1>1. /\ applied[n] < commit[n]
      /\ fsm' = [fsm EXCEPT ![n] =
                   @ \o Replication!GetRange(log[n], applied[n] + 1, commit[n])]
      /\ applied' = [applied EXCEPT ![n] = commit[n]]
      /\ UNCHANGED <<term, leads, log, commit, next, match, rpc, chosen>>
  BY DEF Replication!applyCommitted
<1>2. PICK l \in LogType, c \in Nat, a \in Nat, f \in Seq(Nat) :
        l = log[n] /\ c = commit[n] /\ a = applied[n] /\ f = fsm[n]
  BY DEF Core, VarTypes
<1>3. /\ Whole(l) /\ chosen \in Seq(Nat) /\ a < c /\ Len(l.saved) \in Nat
      /\ ApplyOk(B, A, term[n], l, chosen, c, a, f)
  BY <1>1, <1>2, EmptySeq DEF Core, LogOk, ChosenOk, LogType
<1>4. PICK k \in Nat : k = Later(c, Len(l.saved)) /\ k <= Len(chosen)
  BY <1>3 DEF ApplyOk, Later
<1>5. f \o Replication!GetRange(l, a + 1, c) = Front(chosen, k)
  BY <1>3, <1>4, ApplyRange, ZenonT(30) DEF ApplyOk, Front
<1>6. Front(chosen, k) \in Seq(Nat)
  <2>1. 1 \in 1..(Len(chosen) + 1) /\ k \in 0..Len(chosen) /\ 1 <= k + 1
    BY <1>3, <1>4, EmptySeq
  <2> QED BY <1>3, <2>1, PartOf DEF Front
<1>7. fsm' = [fsm EXCEPT ![n] = Front(chosen, k)] /\ applied' = [applied EXCEPT ![n] = c]
  BY <1>1, <1>2, <1>5
<1>8. VarTypes'
  BY <1>1, <1>6, <1>7, ZenonT(30) DEF Core, VarTypes
<1>9. ASSUME NEW q \in Node
      PROVE  ApplyOk(B, A, term[q], log'[q], chosen', commit'[q], applied'[q], fsm'[q])
  <2>1. ApplyOk(B, A, term[q], log[q], chosen, commit[q], applied[q], fsm[q])
        /\ fsm \in [Node -> Seq(Nat)] /\ applied \in [Node -> Nat]
    BY DEF Core, VarTypes
  <2>2. CASE q # n
    BY <1>1, <1>7, <2>1, <2>2
  <2>3. CASE q = n
    <3>1. applied'[n] = c /\ fsm'[n] = Front(chosen, k) /\ c <= c
      BY <1>7, <2>1
    <3>2. ApplyOk(B, A, term[n], l, chosen, c, c, Front(chosen, k))
      BY <1>3, <1>4, <3>1 DEF ApplyOk
    <3> QED BY <1>1, <1>2, <2>3, <3>1, <3>2
  <2> QED BY <2>2, <2>3
<1>10. Begins(chosen, chosen') /\ ChosenOk(B, A, chosen')
  BY <1>1, <1>3, BeginsItself DEF Core
<1>11. \A r \in rpc' : commit[r.from] <= commit'[r.from]
  BY <1>1, SMTT(30) DEF Core, VarTypes, RpcOk, SentOk
<1>12. \A q \in Node : /\ LogOk(term, B, A, q, log'[q]) /\ Full(log'[q]) = Full(log[q])
                       /\ leads'[q] => leads[q] /\ LeaderOk(term, B, A, q, Full(log[q]), match'[q])
  BY <1>1 DEF Core
<1>13. UNCHANGED term /\ rpc' \subseteq rpc
  BY <1>1
<1> QED BY <1>8, <1>9, <1>10, <1>11, <1>12, <1>13, CoreAdvance

\* A log after maybeCompactLog, which keeps the entries after a.
Compacted(l, l1, y, a) ==
  /\ l1.first = a + 1 /\ l1.saved = Front(y, a) /\ l1.entries = Rest(Full(l), a + 1)
  /\ a <= Len(y) /\ a <= Len(Full(l)) /\ SameTo(Full(l), y, a)

\* It holds the same entries.
LEMMA CompactedFull ==
  ASSUME NEW l \in LogType, NEW l1, NEW y \in Seq(Nat), NEW a \in Nat, Compacted(l, l1, y, a)
  PROVE  /\ l1.saved \in Seq(Nat) /\ l1.entries \in Seq(Nat) /\ Len(l1.saved) = a
         /\ Full(l1) = Full(l)
<1>1. PICK x \in Seq(Nat) : x = Full(l)
  BY FullTyped
<1>2. /\ Len(x) \in Nat /\ Len(y) \in Nat /\ a <= Len(y) /\ a <= Len(x) /\ SameTo(x, y, a)
      /\ l1.saved = Front(y, a) /\ l1.entries = Rest(x, a + 1)
  BY <1>1, EmptySeq DEF Compacted
<1>3. Front(y, a) = Front(x, a)
  BY <1>2, SameFront
<1>4. /\ 1 \in 1..(Len(x) + 1) /\ a \in 0..Len(x) /\ 1 <= a + 1 /\ a - 1 + 1 = a
      /\ a + 1 \in 1..(Len(x) + 1) /\ Len(x) \in 0..Len(x) /\ a + 1 <= Len(x) + 1
  BY <1>2
<1>5. Front(x, a) \in Seq(Nat) /\ Len(Front(x, a)) = a
  BY <1>4, PartOf DEF Front
<1>6. Rest(x, a + 1) \in Seq(Nat)
  BY <1>4, PartOf DEF Rest
<1>7. Join(Front(x, a), Rest(x, a + 1)) = x
  BY <1>4, SplitSeq DEF Join, Front, Rest
<1>8. Full(l1) = Join(l1.saved, l1.entries)
  BY DEF Full, Join
<1> QED BY <1>1, <1>2, <1>3, <1>5, <1>6, <1>7, <1>8

\* maybeCompactLog of a log in which entries are left.
LEMMA CoreCompact ==
  ASSUME NEW B, NEW A, Core(B, A), NEW n \in Node, Replication!maybeCompactLog(n), harm' = {}
  PROVE  Core(B, A)'
<1>1. PICK l \in LogType, c \in Nat, a \in Nat, f \in Seq(Nat) :
        l = log[n] /\ c = commit[n] /\ a = applied[n] /\ f = fsm[n]
  BY DEF Core, VarTypes
<1>2. PICK l1 : l1 = [first |-> a + 1, saved |-> f,
                      entries |-> Replication!GetRange(l, a + 1, Replication!LastIndex(l))]
  OBVIOUS
<1>3. /\ Replication!Has(l, a) /\ log' = [log EXCEPT ![n] = l1]
      /\ UNCHANGED <<term, leads, commit, applied, fsm, next, match, rpc, chosen>>
  BY <1>1, <1>2 DEF Replication!maybeCompactLog
<1>4. log \in [Node -> LogType] /\ chosen \in Seq(Nat) /\ Whole(l) /\ LedgerType(term, B, A)
  BY <1>1 DEF Core, VarTypes, ChosenOk, LogOk, Ledger
<1>5. Replication!LastIndex(l1) > 0
  BY <1>3, <1>4 DEF Replication!maybeCompactLog
<1>6. PICK d \in Nat, x \in Seq(Nat) : d = Len(l.saved) /\ x = Full(l) /\ Len(x) \in Nat
  BY FullTyped, EmptySeq DEF LogType
<1>7. ApplyOk(B, A, term[n], l, chosen, c, a, f)
  BY <1>1 DEF Core
<1>8. a > d /\ a <= Len(x)
  <2>1. PICK j \in Nat, h \in Nat : j = l.first /\ h = Len(l.entries)
    BY EmptySeq DEF LogType
  <2>2. a >= j /\ a < j + h /\ j = d + 1
    BY <1>3, <1>4, <1>6, <2>1 DEF Replication!Has, Whole
  <2>3. Len(x) = d + h
    BY <1>6, <2>1, FullTyped
  <2> QED BY <2>2, <2>3
<1>9. Later(a, d) = a /\ Later(a, a) = a /\ a + 1 > d
  BY <1>8 DEF Later
<1>10. Compacted(l, l1, chosen, a)
  <2>1. f = Front(chosen, a)
    BY <1>6, <1>7, <1>9 DEF ApplyOk
  <2>2. l1.first = a + 1 /\ l1.saved = f
        /\ l1.entries = Replication!GetRange(l, a + 1, Replication!LastIndex(l))
    BY <1>2
  <2>3. l1.entries = Rest(Full(l), a + 1)
    <3>1. a + 1 \in Nat
      OBVIOUS
    <3> QED BY <1>4, <1>6, <1>9, <2>2, <3>1, RangeToEnd DEF Rest
  <2>4. a <= Len(chosen) /\ SameTo(Full(l), chosen, a)
    <3>1. a <= c /\ c <= Len(chosen) /\ SameTo(Full(l), chosen, c) /\ Len(chosen) \in Nat
      BY <1>4, <1>7, EmptySeq DEF ApplyOk
    <3>2. a <= Len(chosen) /\ \A j \in 1..a : j \in 1..c
      BY <3>1
    <3> QED BY <3>1, <3>2 DEF SameTo
  <2> QED BY <1>6, <1>8, <2>1, <2>2, <2>3, <2>4 DEF Compacted
<1>11. /\ l1.saved \in Seq(Nat) /\ l1.entries \in Seq(Nat) /\ Len(l1.saved) = a
       /\ Full(l1) = Full(l)
  BY <1>4, <1>10, CompactedFull
<1>12. l1 \in LogType
  <2>1. a + 1 \in Nat
    OBVIOUS
  <2> QED BY <1>2, <1>11, <2>1 DEF LogType
<1>13. Whole(l1)
  <2>1. l1.first = Len(l1.saved) + 1
    BY <1>2, <1>11
  <2>2. l1.entries # <<>>
    BY <1>5 DEF Replication!LastIndex
  <2> QED BY <2>1, <2>2 DEF Whole
<1>14. log'[n] = l1 /\ \A q \in Node : q # n => log'[q] = log[q]
  BY <1>3, <1>4
<1>15. VarTypes'
  BY <1>3, <1>12 DEF Core, VarTypes
<1>16. ASSUME NEW q \in Node PROVE LogOk(term, B, A, q, log'[q]) /\ Full(log'[q]) = Full(log[q])
  <2>1. LogOk(term, B, A, q, log[q])
    BY DEF Core
  <2>2. CASE q # n
    BY <1>14, <2>1, <2>2
  <2>3. CASE q = n
    BY <1>1, <1>11, <1>12, <1>13, <1>14, <2>1, <2>3 DEF LogOk
  <2> QED BY <2>2, <2>3
<1>17. ASSUME NEW q \in Node
       PROVE  ApplyOk(B, A, term[q], log'[q], chosen', commit'[q], applied'[q], fsm'[q])
  <2>1. ApplyOk(B, A, term[q], log[q], chosen, commit[q], applied[q], fsm[q])
    BY DEF Core
  <2>2. CASE q # n
    BY <1>3, <1>14, <2>1, <2>2
  <2>3. CASE q = n
    <3>1. a <= Len(chosen) /\ l1.saved = Front(chosen, Len(l1.saved))
          /\ f = Front(chosen, Later(a, Len(l1.saved)))
      BY <1>6, <1>7, <1>9, <1>10, <1>11 DEF Compacted, ApplyOk
    <3>2. ApplyOk(B, A, term[n], l1, chosen, c, a, f)
      BY <1>7, <1>11, <3>1 DEF ApplyOk
    <3> QED BY <1>1, <1>3, <1>14, <2>3, <3>2
  <2> QED BY <2>2, <2>3
<1>18. Begins(chosen, chosen') /\ ChosenOk(B, A, chosen')
  BY <1>3, <1>4, BeginsItself DEF Core
<1>19. \A r \in rpc' : commit[r.from] <= commit'[r.from]
  BY <1>3, SMTT(30) DEF Core, VarTypes, RpcOk, SentOk
<1>20. \A q \in Node :
         leads'[q] => leads[q] /\ LeaderOk(term, B, A, q, Full(log[q]), match'[q])
  BY <1>3 DEF Core
<1>21. UNCHANGED term /\ rpc' \subseteq rpc
  BY <1>3
<1> QED BY <1>15, <1>16, <1>17, <1>18, <1>19, <1>20, <1>21, CoreAdvance

\* Crash: the log and its snapshot outlive the process.
LEMMA CoreCrash ==
  ASSUME NEW B, NEW A, Core(B, A), NEW n \in Node, Replication!Crash(n)
  PROVE  Core(B, A)' /\ fsm' = [fsm EXCEPT ![n] = log[n].saved] /\ UNCHANGED chosen
<1>1. /\ leads' = [leads EXCEPT ![n] = FALSE]
      /\ commit' = [commit EXCEPT ![n] = 0]
      /\ applied' = [applied EXCEPT ![n] = 0]
      /\ fsm' = [fsm EXCEPT ![n] = log[n].saved]
      /\ log' = [log EXCEPT ![n].first = Len(log[n].saved) + 1]
      /\ rpc' = {r \in rpc : r.from # n}
      /\ next' = [next EXCEPT ![n] = Replication!NoNext]
      /\ match' = [match EXCEPT ![n] = Replication!NoMatch]
      /\ UNCHANGED <<term, chosen>>
  BY DEF Replication!Crash
<1>2. PICK l \in LogType : l = log[n] /\ Whole(l)
  BY DEF Core, VarTypes, LogOk
<1>3. VarTypes
  BY DEF Core
<1>4. log' = log
  <2>1. l.first = Len(l.saved) + 1
    BY <1>2 DEF Whole
  <2>2. [l EXCEPT !.first = Len(l.saved) + 1] = l
    BY <2>1 DEF LogType
  <2>3. log \in [Node -> LogType] /\ log' = [log EXCEPT ![n] = [l EXCEPT !.first = Len(l.saved) + 1]]
    BY <1>1, <1>2, <1>3 DEF VarTypes
  <2> QED BY <1>2, <2>2, <2>3
<1>5. VarTypes'
  <2>1. Replication!NoNext \in [Node -> Nat] /\ Replication!NoMatch \in [Node -> Nat]
    BY DEF Replication!NoNext, Replication!NoMatch
  <2>2. log[n].saved \in Seq(Nat)
    BY <1>2 DEF LogType
  <2> QED BY <1>1, <1>3, <1>4, <2>1, <2>2 DEF VarTypes
<1>6. ASSUME NEW q \in Node
      PROVE  ApplyOk(B, A, term[q], log'[q], chosen', commit'[q], applied'[q], fsm'[q])
  <2>1. ApplyOk(B, A, term[q], log[q], chosen, commit[q], applied[q], fsm[q])
    BY DEF Core
  <2>2. CASE q # n
    BY <1>1, <1>3, <1>4, <2>1, <2>2 DEF VarTypes
  <2>3. CASE q = n
    <3>1. commit'[n] = 0 /\ applied'[n] = 0 /\ fsm'[n] = l.saved /\ log'[n] = l
      BY <1>1, <1>2, <1>3, <1>4 DEF VarTypes
    <3>2. PICK d \in Nat : d = Len(l.saved) /\ Later(0, d) = d
      BY EmptySeq DEF LogType, Later
    <3>3. d <= Len(chosen) /\ l.saved = Front(chosen, d)
      BY <1>2, <2>1, <2>3, <3>2 DEF ApplyOk
    <3>4. 0 <= Len(chosen) /\ 0 <= Len(Full(l)) /\ SameTo(Full(l), chosen, 0)
      BY FullTyped, EmptySeq DEF SameTo, Core, ChosenOk
    <3>5. ApplyOk(B, A, term[n], l, chosen, 0, 0, l.saved)
      BY <3>2, <3>3, <3>4 DEF ApplyOk, Settled
    <3> QED BY <1>1, <2>3, <3>1, <3>5
  <2> QED BY <2>2, <2>3
<1>7. ASSUME NEW q \in Node, leads'[q]
      PROVE  leads[q] /\ LeaderOk(term, B, A, q, Full(log[q]), match'[q])
  BY <1>1, <1>3, <1>7 DEF Core, VarTypes
<1>8. \A r \in rpc' : commit[r.from] <= commit'[r.from]
  BY <1>1, <1>3 DEF Core, VarTypes, RpcOk, SentOk
<1>9. Begins(chosen, chosen') /\ ChosenOk(B, A, chosen')
  BY <1>1, BeginsItself DEF Core, ChosenOk
<1>10. \A q \in Node : LogOk(term, B, A, q, log'[q]) /\ Full(log'[q]) = Full(log[q])
  BY <1>4 DEF Core
<1>11. UNCHANGED term /\ rpc' \subseteq rpc
  BY <1>1
<1> QED BY <1>1, <1>5, <1>6, <1>7, <1>8, <1>9, <1>10, <1>11, CoreAdvance

\* The entries in a snapshot are the first that were chosen.
LEMMA SavedAgrees ==
  ASSUME NEW l \in LogType, NEW y \in Seq(Nat), NEW d \in Nat, d = Len(l.saved),
         d <= Len(y), l.saved = Front(y, d)
  PROVE  d <= Len(Full(l)) /\ SameTo(Full(l), y, d)
<1>1. PICK x \in Seq(Nat) : x = Full(l)
  BY FullTyped
<1>2. Len(x) \in Nat /\ Len(y) \in Nat /\ d <= Len(x)
  <2>1. PICK h \in Nat : h = Len(l.entries)
    BY EmptySeq DEF LogType
  <2>2. Len(x) = d + h
    BY <1>1, <2>1, FullTyped
  <2>3. Len(x) \in Nat /\ Len(y) \in Nat
    BY EmptySeq
  <2>4. d <= d + h
    OBVIOUS
  <2> QED BY <2>2, <2>3, <2>4, Zenon
<1>3. ASSUME NEW j \in 1..d PROVE x[j] = y[j]
  <2>1. j \in 1..Len(x) /\ j <= Len(l.saved)
    BY <1>2
  <2>2. x[j] = l.saved[j]
    BY <1>1, <2>1, FullTyped
  <2>3. 1 \in 1..(Len(y) + 1) /\ d \in 0..Len(y) /\ 1 <= d + 1
    BY <1>2
  <2>4. Front(y, d)[j] = y[j]
    BY <2>3, PartOf DEF Front
  <2> QED BY <2>2, <2>4
<1> QED BY <1>1, <1>2, <1>3 DEF SameTo

\* Where two sequences that differ agree, both have entries.
LEMMA DiffersLater ==
  ASSUME NEW x \in Seq(Nat), NEW w \in Seq(Nat), Differs(x, w), NEW i \in Nat, i <= Len(x),
         \A j \in 1..i : j <= Len(w) => w[j] = x[j]
  PROVE  i <= Len(w) /\ SameTo(w, x, i)
<1>1. Len(x) \in Nat /\ Len(w) \in Nat
  BY EmptySeq
<1>2. PICK k \in 1..Len(w) : k <= Len(x) => x[k] # w[k]
  BY DEF Differs
<1>3. i <= Len(w)
  <2> SUFFICES ASSUME i > Len(w) PROVE FALSE
    BY <1>1
  <2>1. k \in 1..i /\ k <= Len(w) /\ k <= Len(x)
    BY <1>1
  <2> QED BY <1>2, <2>1
<1>4. \A j \in 1..i : j <= Len(w)
  BY <1>1, <1>3
<1> QED BY <1>3, <1>4 DEF SameTo

\* What HandleAppendEntries makes of the entries x, when those of the sender
\* were w.
Takes(r, x, x1, w) ==
  \/ x1 = x /\ (r.entries # <<>> => Len(w) <= Len(x) /\ SameTo(x, w, Len(w)))
  \/ x1 = w /\ Differs(x, w)

\* The log that receives: its snapshot is the beginning of y.
Receives(T, B, l, y) ==
  /\ l \in LogType /\ Whole(l) /\ Booked(T, B, Full(l))
  /\ Len(l.saved) <= Len(y) /\ l.saved = Front(y, Len(l.saved))

\* An AppendEntries that a log is consistent with.
LEMMA AgreeSoFar ==
  ASSUME NEW T, NEW B, NEW A, NEW L, NEW G, NEW y \in Seq(Nat), NEW l, Receives(T, B, l, y),
         NEW r, NEW p \in Nat, p = r.prev, NEW w \in Seq(Nat), AppendOf(T, B, A, L, G, y, r, w),
         Replication!Consistent(l, r)
  PROVE  /\ p <= Len(Full(l))
         /\ p <= Len(w) => SameTo(Full(l), w, p)
         /\ p > Len(w) => p <= Len(l.saved)
<1>1. PICK x \in Seq(Nat), d \in Nat : x = Full(l) /\ d = Len(l.saved) /\ l \in LogType
  BY FullTyped, EmptySeq DEF Receives, LogType
<1>2. Len(x) \in Nat /\ Len(w) \in Nat /\ Len(y) \in Nat /\ d <= Len(x) /\ SameTo(x, y, d)
  BY <1>1, SavedAgrees, EmptySeq DEF Receives
<1>3. CASE p = 0
  BY <1>1, <1>2, <1>3 DEF SameTo
<1>4. CASE p # 0
  <2>1. Replication!LastIndex(l) = Len(x)
        /\ Replication!TermAt(l, p) = IF p > d /\ p <= Len(x) THEN x[p] ELSE 0
    BY <1>1, LogReads DEF Receives
  <2>2. p <= Len(x) /\ Replication!TermAt(l, p) = r.prevTerm
    BY <1>4, <2>1 DEF Replication!Consistent
  <2>3. CASE p > d
    <3>1. p \in 1..Len(x) /\ r.prevTerm = x[p]
      BY <1>2, <1>4, <2>1, <2>2, <2>3
    <3>2. Booked(T, B, x) /\ Booked(T, B, w)
      BY <1>1 DEF Receives, AppendOf
    <3>3. x[p] # 0
      <4>1. x[p] > 0
        BY <3>1, <3>2 DEF Booked
      <4> QED BY <4>1
    <3>4. p \in 1..Len(w) /\ w[p] = x[p]
      BY <3>1, <3>3 DEF AppendOf
    <3>5. SameTo(x, w, p)
      BY <3>1, <3>2, <3>4, BookedSame
    <3>6. ~ (p > Len(w))
      BY <1>2, <3>4
    <3> QED BY <1>1, <2>2, <3>5, <3>6
  <2>4. CASE ~ (p > d)
    <3>1. p <= d /\ r.prevTerm = 0
      BY <2>1, <2>2, <2>4
    <3>2. ASSUME p <= Len(w) PROVE SameTo(x, w, p)
      <4>1. SameTo(w, y, p)
        BY <3>1, <3>2 DEF AppendOf
      <4>2. \A j \in 1..p : j \in 1..d
        BY <3>1
      <4> QED BY <1>2, <4>1, <4>2 DEF SameTo
    <3> QED BY <1>1, <2>2, <3>1, <3>2
  <2> QED BY <2>3, <2>4
<1> QED BY <1>3, <1>4

\* The entries that come with it, when none of them is before the log.
LEMMA TakesEntries ==
  ASSUME NEW T, NEW B, NEW A, NEW L, NEW G, NEW y \in Seq(Nat), NEW l, Receives(T, B, l, y),
         NEW r, NEW p \in Nat, p = r.prev, r.commit \in Nat,
         NEW w \in Seq(Nat), AppendOf(T, B, A, L, G, y, r, w),
         Replication!Consistent(l, r), ~ Replication!ReachesBack(l, r),
         NEW l1, l1 = Replication!Merged(l, r)
  PROVE  /\ l1 \in LogType /\ Whole(l1) /\ l1.saved = l.saved
         /\ Takes(r, Full(l), Full(l1), w)
         /\ r.commit <= Len(Full(l1)) /\ SameTo(Full(l1), y, r.commit)
         /\ r.entries # <<>> => p + Len(r.entries) = Len(w)
<1>1. PICK x \in Seq(Nat), d \in Nat : x = Full(l) /\ d = Len(l.saved) /\ l \in LogType
  BY FullTyped, EmptySeq DEF Receives, LogType
<1>2. Len(x) \in Nat /\ Len(w) \in Nat /\ Len(y) \in Nat /\ d <= Len(x) /\ SameTo(x, y, d)
  BY <1>1, SavedAgrees, EmptySeq DEF Receives
<1>3. p <= Len(x) /\ (p <= Len(w) => SameTo(x, w, p)) /\ (p > Len(w) => p <= d)
  BY <1>1, AgreeSoFar
<1>4. PICK k \in Nat : k = r.commit /\ k <= Len(w) /\ k <= Len(y) /\ SameTo(w, y, k)
  BY DEF AppendOf
<1>5. PICK es : es = r.entries /\ es = Rest(w, p + 1)
  BY DEF AppendOf
<1>6. CASE p >= Len(w)
  <2>1. es = <<>>
    <3>1. p + 1 \in Int /\ Len(w) \in Int /\ Len(w) < p + 1
      BY <1>2, <1>6
    <3> QED BY <1>5, <3>1, EmptyPart DEF Rest
  <2>2. l1 = l
    <3>1. {j \in 1..Len(r.entries) :
             \/ r.start - 1 + j > Replication!LastIndex(l)
             \/ Replication!TermAt(l, r.start - 1 + j) # r.entries[j]} = {}
      <4>1. 1..Len(r.entries) = {}
        BY <1>5, <2>1
      <4> QED BY <4>1
    <3> QED BY <3>1 DEF Replication!Merged
  <2>3. k <= Len(x) /\ SameTo(x, y, k)
    <3>1. CASE p = Len(w)
      <4>1. k <= Len(x) /\ \A j \in 1..k : j \in 1..p
        BY <1>2, <1>3, <1>4, <3>1
      <4>2. SameTo(x, w, p)
        BY <1>2, <1>3, <3>1
      <4> QED BY <1>4, <4>1, <4>2 DEF SameTo
    <3>2. CASE p > Len(w)
      <4>1. k <= Len(x) /\ \A j \in 1..k : j \in 1..d
        BY <1>2, <1>3, <1>4, <3>2, SMTT(30)
      <4> QED BY <1>2, <4>1 DEF SameTo
    <3> QED BY <1>2, <1>6, <3>1, <3>2
  <2>4. Takes(r, Full(l), Full(l1), w)
    BY <1>5, <2>1, <2>2 DEF Takes
  <2>5. l1 \in LogType /\ Whole(l1) /\ l1.saved = l.saved
    BY <2>2 DEF Receives
  <2>6. r.commit <= Len(Full(l1)) /\ SameTo(Full(l1), y, r.commit)
    BY <1>1, <1>4, <2>2, <2>3
  <2> QED BY <1>5, <2>1, <2>4, <2>5, <2>6
<1>7. CASE p < Len(w)
  <2>1. es \in Seq(Nat) /\ p + Len(es) = Len(w) /\ es # <<>>
    <3>1. p + 1 \in 1..(Len(w) + 1) /\ Len(w) \in 0..Len(w) /\ p + 1 <= Len(w) + 1
      BY <1>2, <1>7
    <3>2. es \in Seq(Nat) /\ Len(es) = Len(w) - (p + 1) + 1
      BY <1>5, <3>1, PartOf DEF Rest
    <3>3. p + Len(es) = Len(w) /\ Len(es) # 0
      <4>1. PICK h \in Int : h = Len(es) /\ h = Len(w) - (p + 1) + 1
        <5>1. Len(w) - (p + 1) + 1 \in Int
          BY <1>2
        <5> QED BY <3>2, <5>1
      <4>2. PICK v \in Nat : v = Len(w)
        BY <1>2, Zenon
      <4>3. h = v - (p + 1) + 1 /\ p < v
        BY <1>7, <4>1, <4>2, Zenon
      <4>4. p + h = v /\ h # 0
        BY <4>3, SMTT(30)
      <4> QED BY <4>1, <4>2, <4>4, Zenon
    <3> QED BY <3>2, <3>3, EmptySeq
  <2>2. p >= d
    <3>1. ~ (p + 1 < l.first) /\ l.first = d + 1
      BY <1>1, <1>5, <2>1 DEF Replication!ReachesBack, Receives, Whole, AppendOf
    <3> QED BY <3>1
  <2>3. SameTo(x, w, p)
    BY <1>2, <1>3, <1>7
  <2>4. Carries(l, r, w)
    BY <1>1, <1>3, <1>5, <1>7, <2>2, <2>3 DEF Carries, Rest, AppendOf
  <2>5. /\ l1 \in LogType /\ Whole(l1) /\ l1.saved = l.saved
        /\ \/ Full(l1) = x /\ Len(w) <= Len(x) /\ SameTo(x, w, Len(w))
           \/ Full(l1) = w /\ Differs(x, w)
    BY <1>1, <2>4, MergedFull DEF Receives
  <2>6. Takes(r, Full(l), Full(l1), w)
    BY <1>1, <2>5 DEF Takes
  <2>7. k <= Len(Full(l1)) /\ SameTo(Full(l1), y, k)
    <3>1. CASE Full(l1) = w
      BY <1>4, <3>1
    <3>2. CASE Full(l1) = x /\ Len(w) <= Len(x) /\ SameTo(x, w, Len(w))
      <4>1. k <= Len(x) /\ \A j \in 1..k : j \in 1..Len(w)
        BY <1>2, <1>4, <3>2
      <4> QED BY <1>4, <3>2, <4>1 DEF SameTo
    <3> QED BY <2>5, <3>1, <3>2
  <2> QED BY <1>4, <1>5, <2>1, <2>5, <2>6, <2>7
<1> QED BY <1>2, <1>6, <1>7

\* Node p comes to term t and acknowledges up to k.
AcksTo(T, A, T1, A1, p, t, k) ==
  /\ T[p] <= t /\ A[p][t] <= k
  /\ T1 = [T EXCEPT ![p] = t] /\ A1 = [A EXCEPT ![p] = [A[p] EXCEPT ![t] = k]]

\* What such a step keeps.
LEMMA AckFrame ==
  ASSUME NEW T, NEW B, NEW A, LedgerType(T, B, A), NEW T1, NEW A1,
         NEW p \in Node, NEW t \in Nat, NEW k \in Nat, AcksTo(T, A, T1, A1, p, t, k)
  PROVE  Frame(T, B, A, T1, B, A1)
<1>0. /\ T[p] <= t /\ A[p][t] <= k
      /\ T1 = [T EXCEPT ![p] = t] /\ A1 = [A EXCEPT ![p] = [A[p] EXCEPT ![t] = k]]
  BY DEF AcksTo
<1>1. Frame(T, B, A, T1, B, A)
  BY <1>0, FollowFrame
<1>2. A \in [Node -> [Nat -> Nat]]
  BY DEF LedgerType
<1>3. /\ A1 \in [Node -> [Nat -> Nat]] /\ A1[p][t] = k
      /\ \A u \in Nat : u # t => A1[p][u] = A[p][u]
      /\ \A q \in Node : q # p => A1[q] = A[q]
  BY <1>0, <1>2
<1>4. LedgerType(T1, B, A1)
  BY <1>1, <1>3 DEF Frame, LedgerType
<1>5. ASSUME NEW q \in Node, NEW u \in Nat
      PROVE  A[q][u] <= A1[q][u] /\ (A1[q][u] # A[q][u] => T[q] <= u)
  <2>1. A[q][u] \in Nat /\ A[q][u] <= A[q][u]
    BY <1>2
  <2>2. CASE q = p /\ u = t
    BY <1>0, <1>3, <2>2
  <2>3. CASE ~ (q = p /\ u = t)
    BY <1>3, <2>1, <2>3
  <2> QED BY <2>2, <2>3
<1>6. Late(T, B, T1, B, A1)
  BY DEF Late
<1> QED BY <1>1, <1>3, <1>4, <1>5, <1>6 DEF Frame

\* What node p acknowledges after HandleAppendEntries, it holds.
LEMMA AckedMerge ==
  ASSUME NEW T, NEW B, NEW A, NEW T1, NEW A1, Frame(T, B, A, T1, B, A1),
         NEW p \in Node, NEW t \in Nat, T[p] <= t, T1[p] = t, Reached(T, t),
         NEW x \in Seq(Nat), NEW x1 \in Seq(Nat), NEW w \in Seq(Nat), NEW r,
         Acked(T, B, A, p, x), SafeTo(T, B, A, w, t), Takes(r, x, x1, w),
         A1[p][t] = A[p][t] \/ (r.entries # <<>> /\ A1[p][t] = Later(Len(w), A[p][t])),
         \A u \in Nat : u # t => A1[p][u] = A[p][u]
  PROVE  Acked(T1, B, A1, p, x1)
<1> SUFFICES ASSUME NEW u \in Nat PROVE AckedAt(T1, B, A1, p, x1, u)
  BY DEF Acked
<1>1. /\ AckedAt(T, B, A, p, x, u) /\ A[p][u] \in Nat /\ A1[p][u] \in Nat
      /\ T[p] \in Nat /\ Len(x) \in Nat /\ Len(w) \in Nat
  BY EmptySeq, ZenonT(30) DEF Acked, Frame, LedgerType
<1>2. ASSUME A1[p][u] > 0 PROVE u <= t /\ Reached(T, u)
  <2>1. CASE u = t
    BY <2>1
  <2>2. CASE u # t
    <3>1. u <= T[p] /\ Reached(T, u)
      BY <1>2, <2>2 DEF Acked, AckedAt
    <3> QED BY <1>1, <3>1
  <2> QED BY <2>1, <2>2
<1>3. ASSUME A1[p][u] > 0 PROVE u <= T1[p] /\ Reached(T1, u)
  BY <1>2, <1>3, KeepsReached
<1>4. ASSUME NEW c \in Nat, OwnAt(B, u, c), c <= A1[p][u]
      PROVE  Holds(B, x1, u, c) \/ Dead(T1, A1, u, c)
  <2> SUFFICES ASSUME ~ Dead(T1, A1, u, c) PROVE Holds(B, x1, u, c)
    OBVIOUS
  <2>1. c >= 1 /\ A1[p][u] > 0
    BY <1>1, <1>4 DEF OwnAt
  <2>2. u \in 0..t /\ ~ Dead(T, A, u, c)
    BY <1>2, <2>1, KeepsDead
  <2>3. Agrees(w, B[u], c)
    BY <1>4, <2>2 DEF SafeTo, Safe
  <2>4. CASE c <= A[p][u]
    <3>1. Holds(B, x, u, c)
      BY <1>1, <1>4, <2>2, <2>4 DEF AckedAt
    <3>2. CASE x1 = x
      BY <3>1, <3>2
    <3>3. CASE x1 = w /\ Differs(x, w)
      <4>1. \A j \in 1..c : j <= Len(w) => w[j] = x[j]
        BY <2>3, <3>1 DEF Agrees, Holds, SameTo
      <4>2. c <= Len(w) /\ SameTo(w, x, c)
        BY <3>1, <3>3, <4>1, DiffersLater DEF Holds
      <4> QED BY <3>1, <3>3, <4>2 DEF Holds, SameTo
    <3> QED BY <3>2, <3>3 DEF Takes
  <2>5. CASE ~ (c <= A[p][u])
    <3>1. u = t /\ r.entries # <<>> /\ A1[p][u] = Later(Len(w), A[p][u])
      BY <1>4, <2>5
    <3>2. c <= Len(w)
      BY <1>1, <1>4, <2>5, <3>1 DEF Later
    <3>3. \A j \in 1..c : j \in 1..Len(w) /\ w[j] = B[u][j]
      BY <1>1, <2>3, <3>2, SMTT(30) DEF Agrees
    <3>4. CASE x1 = w
      BY <3>2, <3>3, <3>4 DEF Holds, SameTo
    <3>5. CASE x1 = x /\ Len(w) <= Len(x) /\ SameTo(x, w, Len(w))
      <4>1. c <= Len(x)
        BY <1>1, <3>2, <3>5
      <4> QED BY <3>3, <3>5, <4>1 DEF Holds, SameTo
    <3> QED BY <3>1, <3>4, <3>5 DEF Takes
  <2> QED BY <2>4, <2>5
<1> QED BY <1>3, <1>4 DEF AckedAt

\* HandleAppendEntries leaves what its node has committed.
LEMMA CommitHeld ==
  ASSUME NEW T, NEW B, NEW A, Ledger(T, B, A), NEW y, ChosenOk(B, A, y),
         NEW x \in Seq(Nat), NEW x1 \in Seq(Nat), NEW w \in Seq(Nat), NEW r,
         Takes(r, x, x1, w), NEW c \in Nat, c <= Len(x), c <= Len(y), SameTo(x, y, c),
         NEW u \in Nat, NEW t \in Nat, u <= t, Settled(B, A, u, c), SafeTo(T, B, A, w, t)
  PROVE  c <= Len(x1) /\ SameTo(x1, y, c)
<1>0. Len(x) \in Nat /\ Len(w) \in Nat /\ y \in Seq(Nat) /\ Len(y) \in Nat
  BY EmptySeq DEF ChosenOk
<1>1. CASE x1 = x
  BY <1>1
<1>2. CASE c = 0
  <2>1. Len(x1) \in Nat
    BY EmptySeq
  <2> QED BY <1>2, <2>1 DEF SameTo
<1>3. CASE c # 0 /\ x1 = w /\ Differs(x, w)
  <2>1. PICK v \in 0..u, k \in Nat : k >= c /\ ChosenAt(B, A, v, k)
    BY <1>3 DEF Settled
  <2>2. v \in Nat /\ v \in 0..t
    BY <2>1
  <2>3. OwnAt(B, v, k) /\ ~ Dead(T, A, v, k)
    BY <2>1, <2>2, ChosenNotDead DEF ChosenAt, Ledger
  <2>4. Agrees(w, B[v], k)
    BY <2>2, <2>3 DEF SafeTo, Safe
  <2>5. Agrees(y, B[v], k)
    BY <2>1, <2>2, ChosenAgree
  <2>6. ASSUME NEW j \in 1..c, j <= Len(w) PROVE w[j] = x[j]
    <3>1. j \in 1..k /\ j <= Len(y)
      BY <1>0, <2>1
    <3>2. w[j] = B[v][j] /\ y[j] = B[v][j]
      BY <2>4, <2>5, <2>6, <3>1 DEF Agrees
    <3> QED BY <3>2 DEF SameTo
  <2>7. c <= Len(w) /\ SameTo(w, x, c)
    BY <1>3, <2>6, DiffersLater
  <2> QED BY <1>3, <2>7 DEF SameTo
<1> QED BY <1>1, <1>2, <1>3 DEF Takes

\* What is chosen stays so.
LEMMA KeepsChosenOk ==
  ASSUME NEW T, NEW B, NEW A, NEW T1, NEW B1, NEW A1, Frame(T, B, A, T1, B1, A1),
         NEW y, ChosenOk(B, A, y)
  PROVE  ChosenOk(B1, A1, y)
<1>1. y \in Seq(Nat) /\ Len(y) \in Nat
  BY EmptySeq DEF ChosenOk
<1>2. ASSUME y # <<>>
      PROVE  ChosenAt(B1, A1, y[Len(y)], Len(y)) /\ SameTo(y, B1[y[Len(y)]], Len(y))
  <2>1. Len(y) \in 1..Len(y)
    BY <1>1, <1>2, EmptySeq
  <2>2. PICK c \in Nat, t \in Nat : c = Len(y) /\ t = y[c]
    BY <1>1, <2>1
  <2>3. ChosenAt(B, A, t, c) /\ SameTo(y, B[t], c)
    BY <1>2, <2>2 DEF ChosenOk
  <2>4. ChosenAt(B1, A1, t, c)
    BY <2>3, KeepsChosenAt
  <2>5. c <= Len(B[t])
    <3>1. B[t] \in Seq(Nat) /\ Len(B[t]) \in Nat /\ c \in 1..Len(B[t])
      BY <2>3, EmptySeq DEF Frame, LedgerType, ChosenAt, OwnAt
    <3> QED BY <3>1
  <2>6. SameTo(y, B1[t], c)
    BY <2>3, <2>5, KeepsSame
  <2> QED BY <2>2, <2>4, <2>6
<1> QED BY <1>1, <1>2 DEF ChosenOk

\* What is safe stays so when no leader appends.
LEMMA KeepsSafeTo ==
  ASSUME NEW T, NEW B, NEW A, NEW T1, NEW A1, Frame(T, B, A, T1, B, A1),
         NEW x, NEW t \in Nat, SafeTo(T, B, A, x, t), NEW u \in Nat, u <= t
  PROVE  SafeTo(T1, B, A1, x, u)
<1> SUFFICES ASSUME NEW v \in 0..u PROVE Safe(T1, B, A1, x, v)
  BY DEF SafeTo
<1>1. v \in Nat /\ v \in 0..t
  OBVIOUS
<1>2. Safe(T, B, A, x, v)
  BY <1>1 DEF SafeTo
<1> QED BY <1>1, <1>2, KeepsSafe

\* Node p follows in term t with the log l1, the commit index c and what it
\* acknowledges.
Merging(B, A, A1, p, t, l1, c) ==
  /\ Frame(term, B, A, term', B, A1) /\ term[p] <= t /\ Reached(term, t)
  /\ LogOk(term', B, A1, p, l1)
  /\ commit[p] <= c
  /\ ApplyOk(B, A1, t, l1, chosen, c, applied[p], fsm[p])
  /\ Full(l1) = Full(log[p]) \/ SafeTo(term, B, A, Full(l1), t)
  /\ \A q \in Node : q # p => A1[q] = A[q]
  /\ \A u \in Nat : u # t => A1[p][u] = A[p][u]
  /\ \A m \in Node : leads[m] /\ term[m] = t => A1[p][t] <= Len(Full(log[m]))

\* A step that does so.
LEMMA CoreMerge ==
  ASSUME NEW B, NEW A, NEW A1, Core(B, A), NEW p \in Node, NEW t \in Nat,
         NEW l1 \in LogType, NEW c \in Nat, Merging(B, A, A1, p, t, l1, c),
         Replication!Follow(p, t), UNCHANGED <<applied, fsm, chosen>>,
         log' = [log EXCEPT ![p] = l1], commit' = [commit EXCEPT ![p] = c],
         \A s \in rpc' : s \in rpc \/ (/\ SentOk(term', A1, s)
                                       /\ s.kind \notin Reading /\ s.kind # "append")
  PROVE  Core(B, A1)'
<1>0. /\ VarTypes /\ Ledger(term, B, A) /\ LedgerType(term, B, A)
      /\ Frame(term, B, A, term', B, A1) /\ chosen \in Seq(Nat)
  BY DEF Core, Ledger, Merging, ChosenOk
<1>1. /\ term' = [term EXCEPT ![p] = t]
      /\ leads' = [leads EXCEPT ![p] = FALSE]
      /\ next' = [next EXCEPT ![p] = Replication!Kept(p)]
      /\ match' = [match EXCEPT ![p] = Replication!NoMatch]
  BY DEF Replication!Follow
<1>2. VarTypes'
  <2>1. Replication!Kept(p) \in [Node -> Nat] /\ Replication!NoMatch \in [Node -> Nat]
    BY <1>0 DEF VarTypes, Replication!Kept, Replication!NoNext, Replication!NoMatch
  <2> QED BY <1>0, <1>1, <2>1 DEF VarTypes
<1>3. Ledger(term', B, A1)
  BY <1>0, LedgerKept
<1>4. /\ term'[p] = t /\ log'[p] = l1 /\ commit'[p] = c
      /\ \A m \in Node : m # p => /\ term'[m] = term[m] /\ log'[m] = log[m]
                                  /\ commit'[m] = commit[m]
  BY <1>0, <1>1 DEF VarTypes, LedgerType
<1>5. \A m \in Node : leads'[m] => m # p /\ leads[m] /\ match'[m] = match[m]
  BY <1>0, <1>1 DEF VarTypes
<1>6. ASSUME NEW m \in Node PROVE LogOk(term', B, A1, m, log'[m])
  <2>1. CASE m = p
    BY <1>4, <2>1 DEF Merging
  <2>2. CASE m # p
    <3>1. LogOk(term, B, A, m, log[m]) /\ log[m] \in LogType /\ Whole(log[m])
      BY DEF Core, LogOk
    <3>2. \A u \in Nat : A1[m][u] = A[m][u]
      BY <2>2 DEF Merging
    <3>3. Frame(term, B, A, term', B, A1) /\ term'[m] = term[m]
      BY <1>0, <1>4, <2>2
    <3>4. PICK T1, T : T1 = term' /\ T = term
      OBVIOUS
    <3>5. Frame(T, B, A, T1, B, A1) /\ T1[m] = T[m] /\ LogOk(T, B, A, m, log[m])
      BY <3>1, <3>3, <3>4
    <3>6. LogOk(T1, B, A1, m, log[m])
      BY <3>1, <3>2, <3>5, KeepsLogOk, SMTT(60)
    <3> QED BY <1>4, <2>2, <3>4, <3>6
  <2> QED BY <2>1, <2>2
<1>7. ASSUME NEW m \in Node
      PROVE  ApplyOk(B, A1, term'[m], log'[m], chosen', commit'[m], applied'[m], fsm'[m])
  <2>1. CASE m = p
    BY <1>4, <2>1 DEF Merging
  <2>2. CASE m # p
    <3>1. /\ ApplyOk(B, A, term[m], log[m], chosen, commit[m], applied[m], fsm[m])
          /\ log[m] \in LogType
      BY DEF Core, VarTypes
    <3>2. term[m] \in Nat /\ term[m] <= term[m]
      BY <1>0 DEF LedgerType
    <3>3. Begins(chosen, chosen)
      BY <1>0, BeginsItself
    <3>4. commit[m] <= Len(Full(log[m])) /\ SameTo(Full(log[m]), chosen, commit[m])
      BY <3>1 DEF ApplyOk
    <3>5. ApplyOk(B, A1, term[m], log[m], chosen, commit[m], applied[m], fsm[m])
      BY <1>0, <3>1, <3>2, <3>3, <3>4, KeepsApplyOk
    <3> QED BY <1>4, <2>2, <3>5
  <2> QED BY <2>1, <2>2
<1>8. ASSUME NEW m \in Node, leads'[m]
      PROVE  LeaderOk(term', B, A1, m, Full(log'[m]), match'[m])
  <2>1. /\ LeaderOk(term, B, A, m, Full(log[m]), match[m]) /\ m # p /\ leads[m]
        /\ match[m] \in [Node -> Nat] /\ log[m] \in LogType
    BY <1>5, <1>8 DEF Core, VarTypes
  <2>2. PICK x \in Seq(Nat) : x = Full(log[m])
    BY <2>1, FullTyped
  <2>3. ASSUME NEW q \in Node PROVE A1[q][term[m]] <= Len(x)
    <3>1. A[q][term[m]] <= Len(x) /\ term[m] \in Nat
      BY <1>0, <2>1, <2>2 DEF LeaderOk, LedgerType
    <3>2. CASE q = p /\ term[m] = t
      BY <2>1, <2>2, <3>2 DEF Merging
    <3>3. CASE ~ (q = p /\ term[m] = t)
      BY <3>1, <3>3 DEF Merging
    <3> QED BY <3>2, <3>3
  <2>4. LeaderOk(term', B, A1, m, x, match[m])
    BY <1>0, <1>4, <2>1, <2>2, <2>3, KeepsLeaderOk
  <2> QED BY <1>4, <1>5, <1>8, <2>1, <2>2, <2>4
<1>9. \A i, m \in Node : leads'[i] /\ leads'[m] /\ term'[i] = term'[m] => i = m
  BY <1>4, <1>5 DEF Core
<1>10. Deposes(term, leads, log, term', leads', log')
  <2>1. ASSUME NEW m \in Node PROVE Begins(Full(log[m]), Full(log[m]))
    <3>1. Full(log[m]) \in Seq(Nat)
      BY <1>0, FullTyped DEF VarTypes
    <3> QED BY <3>1, BeginsItself
  <2> QED BY <1>4, <1>5, <2>1 DEF Deposes
<1>11. ASSUME NEW s \in rpc' PROVE RpcOk(term', leads', log', commit', chosen', B, A1, s)
  <2>1. CASE s \in rpc
    <3>1. RpcOk(term, leads, log, commit, chosen, B, A, s)
      BY <2>1 DEF Core
    <3>2. /\ log \in [Node -> LogType] /\ commit \in [Node -> Nat]
          /\ log' \in [Node -> LogType] /\ commit' \in [Node -> Nat]
      BY <1>0, <1>2 DEF VarTypes
    <3>3. Begins(chosen, chosen')
      BY <1>0, BeginsItself
    <3>4. PICK n \in Node, u \in Nat : n = s.from /\ u = s.term
      BY <3>1 DEF RpcOk, SentOk
    <3>5. commit[n] <= commit'[n]
      <4>1. CASE n = p
        BY <1>4, <4>1 DEF Merging
      <4>2. CASE n # p
        BY <1>4, <3>2, <4>2
      <4> QED BY <4>1, <4>2
    <3>6. ASSUME s.kind \in Reading
          PROVE  Full(log'[n]) = Full(log[n]) \/ SafeTo(term', B, A1, Full(log'[n]), u)
      <4>1. CASE n # p
        BY <1>4, <4>1
      <4>2. CASE n = p
        <5>1. u <= term[p] /\ term[p] \in Nat /\ term[p] <= t
          BY <1>0, <3>1, <3>4, <3>6, <4>2 DEF RpcOk, BegunOk, LedgerType, Merging
        <5>2. u <= t
          BY <5>1
        <5>3. CASE SafeTo(term, B, A, Full(l1), t)
          <6>1. SafeTo(term', B, A1, Full(l1), u)
            BY <1>0, <5>2, <5>3, KeepsSafeTo
          <6> QED BY <1>4, <4>2, <6>1
        <5>4. CASE Full(l1) = Full(log[p])
          BY <1>4, <4>2, <5>4
        <5> QED BY <5>3, <5>4 DEF Merging
      <4> QED BY <4>1, <4>2
    <3>7. s.kind \in Reading =>
            /\ commit[s.from] <= commit'[s.from]
            /\ \/ Full(log'[s.from]) = Full(log[s.from])
               \/ SafeTo(term', B, A1, Full(log'[s.from]), s.term)
      BY <3>4, <3>5, <3>6
    <3>8. chosen' \in Seq(Nat)
      BY <1>0
    <3> QED BY <1>0, <1>10, <3>1, <3>2, <3>3, <3>7, <3>8, KeepsRpcOk
  <2>2. CASE s \notin rpc
    BY <2>2 DEF RpcOk
  <2> QED BY <2>1, <2>2
<1>12. ChosenOk(B, A1, chosen')
  <2>1. ChosenOk(B, A, chosen)
    BY DEF Core
  <2>2. ChosenOk(B, A1, chosen)
    BY <1>0, <2>1, KeepsChosenOk
  <2> QED BY <2>2
<1> QED BY <1>2, <1>3, <1>6, <1>7, <1>8, <1>9, <1>11, <1>12 DEF Core

\* A reply that accepts.
LEMMA Acceptance ==
  ASSUME NEW T, NEW A, NEW r, r.from \in Node, r.to \in Node, NEW t \in Nat,
         Reached(T, t), NEW i \in Nat, i <= A[r.to][t]
  PROVE  LET s == Replication!Reply(r, t, TRUE, i, Replication!NoConflict) IN
         SentOk(T, A, s) /\ s.kind \notin Reading /\ s.kind # "append"
<1> DEFINE s == Replication!Reply(r, t, TRUE, i, Replication!NoConflict)
<1>1. /\ s.kind = "reply" /\ s.from = r.from /\ s.to = r.to /\ s.term = t
      /\ s.success = TRUE /\ s.last = i /\ s.conflictIndex = 0
  BY DEF Replication!Reply, Replication!NoConflict
<1> HIDE DEF s
<1>2. SentOk(T, A, s) /\ s.kind \notin Reading /\ s.kind # "append"
  BY <1>1 DEF SentOk, Reading
<1> QED BY <1>2 DEF s

\* The commit index c of a node that had d, when the leader's was k and the log
\* now holds h entries.
Commits(k, h, d, c) == c = IF k > d THEN Replication!Min({k, h}) ELSE d

\* It is one of the two.
LEMMA CommitsOne ==
  ASSUME NEW k \in Nat, NEW h \in Nat, NEW d \in Nat, NEW c, Commits(k, h, d, c), k <= h
  PROVE  c \in Nat /\ d <= c /\ (c = d \/ c = k)
<1>1. k \in Int /\ h \in Int
  OBVIOUS
<1>2. Replication!Min({k, h}) = IF k <= h THEN k ELSE h
  BY <1>1, LargerOfTwo
<1> QED BY <1>2 DEF Commits

\* HandleAppendEntries of a node whose log has the entry before.
LEMMA CoreAppend ==
  ASSUME NEW B, NEW A, Core(B, A), NEW r \in rpc, Replication!HandleAppendEntries(r),
         ~ (r.term < term[r.to]), Replication!Consistent(log[r.to], r), harm' = {}
  PROVE  (\E A1 : Core(B, A1)') /\ chosen' = chosen
<1>0. /\ VarTypes /\ Ledger(term, B, A) /\ LedgerType(term, B, A) /\ ChosenOk(B, A, chosen)
      /\ chosen \in Seq(Nat) /\ Len(chosen) \in Nat
  BY EmptySeq DEF Core, Ledger, ChosenOk
<1>1. /\ SentOk(term, A, r) /\ r.kind = "append" /\ r.prev \in Nat /\ r.commit \in Nat
      /\ AppendOk(term, B, A, leads, log, chosen, r)
  BY DEF Core, RpcOk, AppendOk, Replication!HandleAppendEntries
<1>2. PICK n \in Node, p \in Node, t \in Nat :
        n = r.from /\ p = r.to /\ t = r.term /\ term[p] <= t /\ Reached(term, t)
  <2>1. term[r.to] \in Nat /\ r.from \in Node /\ r.to \in Node /\ r.term \in Nat
    BY <1>0, <1>1 DEF SentOk, LedgerType
  <2> QED BY <1>1, <2>1 DEF SentOk
<1>3. PICK w \in Seq(Nat) : AppendOf(term, B, A, leads, log, chosen, r, w)
  BY <1>1 DEF AppendOk
<1>4. PICK l \in LogType, d \in Nat, k \in Nat, j \in Nat :
        l = log[p] /\ d = commit[p] /\ k = r.commit /\ j = r.prev
  BY <1>0, <1>1 DEF VarTypes
<1>5. LogOk(term, B, A, p, l) /\ ApplyOk(B, A, term[p], l, chosen, d, applied[p], fsm[p])
  BY <1>4 DEF Core
<1>6. Receives(term, B, l, chosen)
  BY <1>5 DEF Receives, LogOk, ApplyOk
<1>7. PICK l1 : l1 = Replication!Merged(l, r)
  OBVIOUS
<1>8. PICK c : Commits(k, Replication!LastIndex(l1), d, c)
  BY DEF Commits
<1>9. PICK last : last = IF r.entries = <<>> THEN 0 ELSE j + Len(r.entries)
  OBVIOUS
<1>31. r.start - 1 = j
  BY <1>3, <1>4 DEF AppendOf
<1>10. /\ Replication!Follow(p, t) /\ log' = [log EXCEPT ![p] = l1]
       /\ commit' = [commit EXCEPT ![p] = c] /\ chosen' = Replication!Chosen(l1, c)
       /\ rpc' = (rpc \ {r}) \cup
                   {Replication!Reply(r, t, TRUE, last, Replication!NoConflict)}
       /\ UNCHANGED <<applied, fsm>> /\ ~ Replication!ReachesBack(l, r)
  BY <1>2, <1>4, <1>7, <1>8, <1>9, <1>31
  DEF Replication!HandleAppendEntries, Replication!Replace, Commits
<1>11. /\ l1 \in LogType /\ Whole(l1) /\ l1.saved = l.saved
       /\ Takes(r, Full(l), Full(l1), w)
       /\ k <= Len(Full(l1)) /\ SameTo(Full(l1), chosen, k)
       /\ r.entries # <<>> => j + Len(r.entries) = Len(w)
  BY <1>0, <1>1, <1>2, <1>3, <1>4, <1>6, <1>7, <1>10, TakesEntries
<1>12. PICK x \in Seq(Nat), x1 \in Seq(Nat) : x = Full(l) /\ x1 = Full(l1)
  BY <1>11, FullTyped
<1>13. /\ SafeTo(term, B, A, w, t) /\ Settled(B, A, t, k) /\ k <= Len(chosen)
       /\ Booked(term, B, w) /\ term[p] \in Nat
       /\ \A m \in Node : leads[m] /\ term[m] = t => Begins(w, Full(log[m]))
  BY <1>0, <1>2, <1>3, <1>4 DEF AppendOf, LedgerType
<1>14. d <= Len(x1) /\ SameTo(x1, chosen, d) /\ d <= Len(chosen) /\ Settled(B, A, term[p], d)
  <2>1. d <= Len(x) /\ d <= Len(chosen) /\ SameTo(x, chosen, d) /\ Settled(B, A, term[p], d)
    BY <1>5, <1>12 DEF ApplyOk
  <2>2. Takes(r, x, x1, w)
    BY <1>11, <1>12
  <2> QED BY <1>0, <1>2, <1>13, <2>1, <2>2, CommitHeld
<1>15. /\ c \in Nat /\ d <= c /\ c <= Len(x1) /\ c <= Len(chosen) /\ SameTo(x1, chosen, c)
       /\ (c = d \/ c = k)
  <2>1. PICK h \in Nat : h = Len(x1) /\ h = Replication!LastIndex(l1) /\ k <= h
    BY <1>11, <1>12, LogReads, EmptySeq
  <2>2. c \in Nat /\ d <= c /\ (c = d \/ c = k)
    BY <1>8, <2>1, CommitsOne
  <2> QED BY <1>11, <1>12, <1>13, <1>14, <2>2
<1>16. chosen' = chosen
  <2>1. ~ (c > Len(chosen))
    BY <1>0, <1>15
  <2> QED BY <1>10, <2>1 DEF Replication!Chosen
<1>17. PICK v \in Nat, v0 \in Nat :
         v0 = A[p][t] /\ v0 <= v /\ (r.entries = <<>> => v = v0)
         /\ (r.entries # <<>> => v = Later(Len(w), v0) /\ Len(w) <= v)
  <2>1. PICK v0 \in Nat : v0 = A[p][t]
    BY <1>0 DEF LedgerType
  <2>2. Later(Len(w), v0) \in Nat /\ v0 <= Later(Len(w), v0) /\ Len(w) <= Later(Len(w), v0)
    BY EmptySeq DEF Later
  <2>3. v0 <= v0
    OBVIOUS
  <2>4. CASE r.entries = <<>>
    BY <2>1, <2>3, <2>4
  <2>5. CASE r.entries # <<>>
    BY <2>1, <2>2, <2>5
  <2> QED BY <2>4, <2>5
<1>18. PICK A1 : A1 = [A EXCEPT ![p] = [A[p] EXCEPT ![t] = v]]
  OBVIOUS
<1>19. term' = [term EXCEPT ![p] = t] /\ leads' = [leads EXCEPT ![p] = FALSE]
  BY <1>10 DEF Replication!Follow
<1>20. /\ Frame(term, B, A, term', B, A1) /\ A1[p][t] = v
       /\ \A u \in Nat : u # t => A1[p][u] = A[p][u]
       /\ \A q \in Node : q # p => A1[q] = A[q]
  <2>1. AcksTo(term, A, term', A1, p, t, v)
    BY <1>2, <1>17, <1>18, <1>19 DEF AcksTo
  <2>2. LedgerType(term, B, A)
    BY <1>0
  <2>3. Frame(term, B, A, term', B, A1)
    BY <2>1, <2>2, AckFrame
  <2>4. /\ A1[p][t] = v
        /\ \A u \in Nat : u # t => A1[p][u] = A[p][u]
        /\ \A q \in Node : q # p => A1[q] = A[q]
    BY <1>18, <2>2 DEF LedgerType
  <2> QED BY <2>3, <2>4
<1>21. term'[p] = t /\ Reached(term', t)
  <2>1. LedgerType(term, B, A) /\ Reached(term, t)
    BY <1>0, <1>2
  <2>2. term'[p] = t
    BY <1>19, <2>1 DEF LedgerType
  <2>3. Reached(term', t)
    BY <1>20, <2>1, KeepsReached
  <2> QED BY <2>2, <2>3
<1>22. LogOk(term', B, A1, p, l1)
  <2>1. Acked(term, B, A, p, x) /\ Booked(term, B, x)
    BY <1>5, <1>12 DEF LogOk
  <2>2. Takes(r, x, x1, w)
    BY <1>11, <1>12
  <2>3. A1[p][t] = A[p][t] \/ (r.entries # <<>> /\ A1[p][t] = Later(Len(w), A[p][t]))
    BY <1>17, <1>20
  <2>4. Acked(term', B, A1, p, x1)
    <3>1. term[p] <= t /\ Reached(term, t) /\ term'[p] = t
      BY <1>2, <1>21
    <3>2. Frame(term, B, A, term', B, A1) /\ \A u \in Nat : u # t => A1[p][u] = A[p][u]
      BY <1>20
    <3>3. SafeTo(term, B, A, w, t) /\ Acked(term, B, A, p, x)
      BY <1>13, <2>1
    <3> QED BY <2>2, <2>3, <3>1, <3>2, <3>3, AckedMerge
  <2>5. Booked(term', B, x1)
    <3>1. Booked(term, B, x1)
      BY <1>13, <2>1, <2>2 DEF Takes
    <3> QED BY <1>20, <3>1, KeepsBooked
  <2> QED BY <1>11, <1>12, <1>21, <2>4, <2>5 DEF LogOk
<1>23. ApplyOk(B, A1, t, l1, chosen, c, applied[p], fsm[p])
  <2>1. Settled(B, A1, t, c)
    <3>1. c <= c /\ t <= t
      BY <1>15
    <3>2. CASE c = d
      <4>1. Settled(B, A, term[p], c)
        BY <1>14, <3>2
      <4> QED BY <1>2, <1>13, <1>15, <1>20, <3>1, <4>1, KeepsSettled
    <3>3. CASE c = k
      <4>1. Settled(B, A, t, c)
        BY <1>13, <3>3
      <4> QED BY <1>15, <1>20, <3>1, <4>1, KeepsSettled
    <3> QED BY <1>15, <3>2, <3>3
  <2>2. applied[p] \in Nat /\ applied[p] <= d
    BY <1>5 DEF ApplyOk
  <2>3. applied[p] <= c
    BY <1>15, <2>2
  <2> QED BY <1>5, <1>11, <1>12, <1>15, <2>1, <2>2, <2>3 DEF ApplyOk
<1>24. ASSUME NEW m \in Node, leads[m], term[m] = t PROVE A1[p][t] <= Len(Full(log[m]))
  <2>1. Begins(w, Full(log[m])) /\ LeaderOk(term, B, A, m, Full(log[m]), match[m])
    BY <1>13, <1>24 DEF Core
  <2>2. PICK z \in Nat, y \in Nat : z = Len(Full(log[m])) /\ y = Len(w) /\ y <= z
    <3>1. log[m] \in LogType
      BY <1>0 DEF VarTypes
    <3>2. Full(log[m]) \in Seq(Nat)
      BY <3>1, FullTyped
    <3> QED BY <2>1, <3>2, EmptySeq DEF Begins
  <2>3. v0 <= z
    BY <1>17, <1>24, <2>1, <2>2 DEF LeaderOk
  <2>4. v <= z
    BY <1>17, <2>2, <2>3 DEF Later
  <2> QED BY <1>20, <2>2, <2>4
<1>25. Full(l1) = Full(log[p]) \/ SafeTo(term, B, A, Full(l1), t)
  BY <1>4, <1>11, <1>13 DEF Takes
<1>26. Merging(B, A, A1, p, t, l1, c)
  BY <1>2, <1>4, <1>15, <1>20, <1>22, <1>23, <1>24, <1>25 DEF Merging
<1>27. PICK s : s = Replication!Reply(r, t, TRUE, last, Replication!NoConflict)
  OBVIOUS
<1>28. SentOk(term', A1, s) /\ s.kind \notin Reading /\ s.kind # "append"
  <2>1. last \in Nat /\ last <= v
    <3>1. CASE r.entries = <<>>
      BY <1>9, <1>17, <3>1
    <3>2. CASE r.entries # <<>>
      <4>1. last = Len(w) /\ Len(w) \in Nat
        BY <1>9, <1>11, <3>2, EmptySeq
      <4> QED BY <1>17, <3>2, <4>1
    <3> QED BY <3>1, <3>2
  <2>2. last <= A1[r.to][t]
    BY <1>2, <1>20, <2>1
  <2> QED BY <1>2, <1>21, <1>27, <2>1, <2>2, Acceptance, ZenonT(30)
<1>29. \A q \in rpc' : q \in rpc \/ (/\ SentOk(term', A1, q)
                                     /\ q.kind \notin Reading /\ q.kind # "append")
  BY <1>10, <1>27, <1>28
<1>30. Core(B, A1)'
  BY <1>10, <1>11, <1>15, <1>16, <1>26, <1>29, CoreMerge
<1> QED BY <1>16, <1>30

-----------------------------------------------------------------------------
(* Replication: a leader appends *)

\* The log of the leader n of term t becomes y.
Appends(T, B, A, T1, B1, A1, n, t, y) ==
  /\ LedgerType(T, B, A) /\ T1 \in [Node -> Nat] /\ \A q \in Node : T[q] <= T1[q]
  /\ B1 = [B EXCEPT ![t] = y] /\ A1 = [A EXCEPT ![n] = [A[n] EXCEPT ![t] = Len(y)]]
  /\ Begins(B[t], y) /\ T[n] <= t
  /\ \A q \in Node : A[q][t] <= Len(B[t])

\* What changes then.
Appended(B, A, T1, B1, A1, n, t, y) ==
  /\ LedgerType(T1, B1, A1) /\ B1[t] = y /\ \A s \in Nat : s # t => B1[s] = B[s]
  /\ A1[n][t] = Len(y) /\ \A s \in Nat : s # t => A1[n][s] = A[n][s]
  /\ \A q \in Node : q # n => A1[q] = A[q]

\* They are the fields of the new functions.
LEMMA AppendsFields ==
  ASSUME NEW T, NEW B, NEW A, NEW T1, NEW B1, NEW A1, NEW n \in Node, NEW t \in Nat,
         NEW y \in Seq(Nat), Appends(T, B, A, T1, B1, A1, n, t, y)
  PROVE  Appended(B, A, T1, B1, A1, n, t, y)
<1>1. B \in [Nat -> Seq(Nat)] /\ A \in [Node -> [Nat -> Nat]] /\ Len(y) \in Nat
  BY EmptySeq DEF Appends, LedgerType
<1>2. B1 = [B EXCEPT ![t] = y] /\ A1 = [A EXCEPT ![n] = [A[n] EXCEPT ![t] = Len(y)]]
  BY DEF Appends
<1>3. B1 \in [Nat -> Seq(Nat)] /\ B1[t] = y /\ \A s \in Nat : s # t => B1[s] = B[s]
  BY <1>1, <1>2
<1>4. PICK k \in Nat : k = Len(y)
  BY <1>1
<1>5. /\ A1 \in [Node -> [Nat -> Nat]]
      /\ A1[n][t] = k /\ \A s \in Nat : s # t => A1[n][s] = A[n][s]
      /\ \A q \in Node : q # n => A1[q] = A[q]
  BY <1>1, <1>2, <1>4
<1> QED BY <1>3, <1>4, <1>5 DEF Appends, LedgerType, Appended

\* What such a step keeps.
LEMMA AppendsFrame ==
  ASSUME NEW T, NEW B, NEW A, NEW T1, NEW B1, NEW A1, NEW n \in Node, NEW t \in Nat,
         NEW y \in Seq(Nat), Appends(T, B, A, T1, B1, A1, n, t, y)
  PROVE  Frame(T, B, A, T1, B1, A1)
<1>1. /\ LedgerType(T1, B1, A1) /\ B1[t] = y /\ \A s \in Nat : s # t => B1[s] = B[s]
      /\ A1[n][t] = Len(y) /\ \A s \in Nat : s # t => A1[n][s] = A[n][s]
      /\ \A q \in Node : q # n => A1[q] = A[q]
  <2>1. Appended(B, A, T1, B1, A1, n, t, y)
    BY AppendsFields
  <2> QED BY <2>1 DEF Appended
<1>2. /\ LedgerType(T, B, A) /\ \A q \in Node : T[q] <= T1[q]
      /\ T[n] <= t /\ \A q \in Node : A[q][t] <= Len(B[t])
      /\ Len(B[t]) <= Len(y) /\ SameTo(B[t], y, Len(B[t]))
  BY DEF Appends, Begins
<1>3. /\ \A s \in Nat : B[s] \in Seq(Nat) /\ Len(B[s]) \in Nat
      /\ Len(y) \in Nat
      /\ \A q \in Node : T[q] \in Nat /\ T1[q] \in Nat
      /\ \A q \in Node : \A s \in Nat : A[q][s] \in Nat
  BY <1>1, <1>2, EmptySeq, ZenonT(30) DEF LedgerType
<1>4. Longer(B, B1)
  <2>1. ASSUME NEW s \in Nat PROVE Len(B[s]) <= Len(B1[s]) /\ SameTo(B1[s], B[s], Len(B[s]))
    <3>1. CASE s = t
      BY <1>1, <1>2, <3>1 DEF SameTo
    <3>2. CASE s # t
      <4>1. B1[s] = B[s] /\ Len(B[s]) <= Len(B[s])
        BY <1>1, <1>3, <3>2
      <4> QED BY <4>1 DEF SameTo
    <3> QED BY <3>1, <3>2
  <2> QED BY <2>1 DEF Longer
<1>5. ASSUME NEW q \in Node, NEW s \in Nat
      PROVE  A[q][s] <= A1[q][s] /\ (A1[q][s] # A[q][s] => T[q] <= s)
  <2>1. CASE q = n /\ s = t
    <3>1. A[n][t] <= Len(B[t]) /\ A[n][t] \in Nat /\ Len(B[t]) \in Nat
      BY <1>2, <1>3
    <3>2. A[n][t] <= Len(y)
      BY <1>2, <1>3, <3>1
    <3> QED BY <1>1, <1>2, <2>1, <3>2
  <2>2. CASE ~ (q = n /\ s = t)
    <3>1. A1[q][s] = A[q][s] /\ A[q][s] \in Nat
      BY <1>1, <1>3, <2>2
    <3> QED BY <3>1
  <2> QED BY <2>1, <2>2
<1>6. ASSUME NEW s \in Nat, NEW c \in Nat, NEW u \in Nat,
             OwnAt(B1, s, c), ~ OwnAt(B, s, c), s < u, Reached(T, u)
      PROVE  Dead(T1, A1, s, c)
  <2>1. s = t
    BY <1>1, <1>6 DEF OwnAt
  <2>2. c \in 1..Len(y) /\ y[c] = t
    BY <1>1, <1>6, <2>1 DEF OwnAt
  <2>3. c > Len(B[t])
    <3> SUFFICES ASSUME ~ (c > Len(B[t])) PROVE FALSE
      OBVIOUS
    <3>1. c \in 1..Len(B[t])
      BY <1>3, <2>2
    <3>2. B[t][c] = t
      BY <1>2, <2>2, <3>1 DEF SameTo
    <3> QED BY <1>6, <2>1, <3>1, <3>2 DEF OwnAt
  <2>4. PICK P \in Majority : \A q \in P : T[q] >= u
    BY <1>6 DEF Reached
  <2>5. ASSUME NEW q \in P PROVE T1[q] > t /\ A1[q][t] < c
    <3>1. q \in Node /\ T[q] >= u
      BY <2>4 DEF Majority
    <3>2. T[q] \in Nat /\ T1[q] \in Nat /\ T[q] <= T1[q] /\ t < u
      BY <1>2, <1>3, <1>6, <2>1, <3>1
    <3>3. T1[q] > t /\ T[q] > t
      BY <3>1, <3>2
    <3>4. q # n
      BY <1>2, <1>3, <3>3
    <3>5. A1[q][t] = A[q][t] /\ A[q][t] <= Len(B[t]) /\ A[q][t] \in Nat
      BY <1>1, <1>2, <1>3, <3>1, <3>4
    <3>6. Len(B[t]) \in Nat
      BY <1>3
    <3> QED BY <2>3, <3>3, <3>5, <3>6
  <2> QED BY <2>1, <2>4, <2>5 DEF Dead
<1>7. Late(T, B, T1, B1, A1)
  BY <1>6 DEF Late
<1> QED BY <1>1, <1>2, <1>4, <1>5, <1>7 DEF Frame

\* A log that grows by entries of its leader's term is booked.
LEMMA BookedGrows ==
  ASSUME NEW T, NEW B, NEW A, NEW T1, NEW B1, NEW A1, Frame(T, B, A, T1, B1, A1),
         NEW x \in Seq(Nat), NEW y \in Seq(Nat), Booked(T, B, x), Begins(x, y),
         NEW t \in Nat, t >= 1, B1[t] = y, Reached(T1, t),
         \A i \in 1..Len(y) : i > Len(x) => y[i] = t
  PROVE  Booked(T1, B1, y)
<1>1. Booked(T1, B1, x)
  BY KeepsBooked
<1>2. Len(x) \in Nat /\ Len(y) \in Nat
  BY EmptySeq
<1>3. ASSUME NEW i \in 1..Len(y)
      PROVE  /\ y[i] > 0 /\ Reached(T1, y[i])
             /\ i <= Len(B1[y[i]]) /\ SameTo(y, B1[y[i]], i)
  <2>1. CASE i > Len(x)
    <3>1. y[i] = t /\ t > 0 /\ i <= Len(y)
      BY <1>2, <2>1
    <3>2. SameTo(y, y, i)
      BY DEF SameTo
    <3> QED BY <3>1, <3>2
  <2>2. CASE ~ (i > Len(x))
    <3>1. i \in 1..Len(x) /\ \A j \in 1..i : j \in 1..Len(x)
      BY <1>2, <2>2
    <3>2. y[i] = x[i] /\ \A j \in 1..i : y[j] = x[j]
      BY <3>1 DEF Begins, SameTo
    <3>3. x[i] > 0 /\ Reached(T1, x[i]) /\ i <= Len(B1[x[i]]) /\ SameTo(x, B1[x[i]], i)
      BY <1>1, <3>1 DEF Booked
    <3> QED BY <3>2, <3>3 DEF SameTo
  <2> QED BY <2>1, <2>2
<1> QED BY <1>3 DEF Booked

\* What a log holds, a longer one holds.
LEMMA HoldsLonger ==
  ASSUME NEW B, NEW x \in Seq(Nat), NEW y \in Seq(Nat), Begins(x, y), NEW u,
         NEW c \in Nat, Holds(B, x, u, c)
  PROVE  Holds(B, y, u, c)
<1>1. Len(x) \in Nat /\ Len(y) \in Nat /\ Len(x) <= Len(y) /\ c <= Len(x)
  BY EmptySeq DEF Begins, Holds
<1>2. c <= Len(y) /\ \A j \in 1..c : j \in 1..Len(x)
  BY <1>1
<1> QED BY <1>2 DEF Begins, Holds, SameTo

\* Node n leads in term t from now on, or did so already, and its log, which held
\* x, holds y.
Grows(B, A, B1, A1, n, t, x, y) ==
  /\ Appends(term, B, A, term', B1, A1, n, t, y)
  /\ Ledger(term', B1, A1) /\ Booked(term', B1, y)
  /\ x = Full(log[n]) /\ Begins(x, y) /\ y # <<>>
  /\ t >= 1 /\ term'[n] = t /\ Reached(term', t)
  /\ \A q \in Node : match'[n][q] <= A[q][t]
  /\ \A m \in Node : term'[m] = term[m] \/ Reached(term', term'[m])
  /\ \A m \in Node : m # n /\ leads'[m] =>
       leads[m] /\ term'[m] = term[m] /\ term[m] # t /\ match'[m] = match[m]
  /\ \A r \in rpc : r.term = t => leads[n] /\ term[n] = t

\* What may be committed, when the log of term t grows to y.
LEMMA GrowsSafe ==
  ASSUME NEW T, NEW B, NEW A, NEW T1, NEW B1, NEW A1, NEW n \in Node, NEW t \in Nat,
         NEW y \in Seq(Nat), Appends(T, B, A, T1, B1, A1, n, t, y),
         NEW u \in Nat, Reached(T, u), NEW z \in Seq(Nat), SafeTo(T, B, A, z, u),
         u = t => Begins(z, y)
  PROVE  SafeTo(T1, B1, A1, z, u)
<1>1. Frame(T, B, A, T1, B1, A1) /\ Appended(B, A, T1, B1, A1, n, t, y)
  BY AppendsFrame, AppendsFields
<1> SUFFICES ASSUME NEW s \in 0..u PROVE Safe(T1, B1, A1, z, s)
  BY DEF SafeTo
<1>2. s \in Nat /\ Safe(T, B, A, z, s)
  BY DEF SafeTo
<1>3. CASE s # t
  <2>1. B1[s] = B[s]
    BY <1>1, <1>2, <1>3 DEF Appended
  <2> QED BY <1>1, <1>2, <2>1, KeepsSafe
<1>4. CASE s = t /\ u # t
  <2>1. s < u
    BY <1>4
  <2> QED BY <1>1, <1>2, <2>1, KeepsSafe
<1>5. CASE s = t /\ u = t
  <2>1. ASSUME NEW c \in Nat PROVE Agrees(z, B1[t], c)
    <3>1. B1[t] = y /\ SameTo(z, y, Len(z)) /\ Len(z) \in Nat
      BY <1>1, <1>5, EmptySeq DEF Appended, Begins
    <3>2. \A j \in 1..c : j <= Len(z) => j \in 1..Len(z)
      BY <3>1
    <3> QED BY <3>1, <3>2 DEF Agrees, SameTo
  <2> QED BY <1>5, <2>1 DEF Safe
<1> QED BY <1>3, <1>4, <1>5

\* The log of a node when that of term t grows.
LEMMA GrowsLogOk ==
  ASSUME NEW B, NEW A, NEW B1, NEW A1, Core(B, A), NEW n \in Node, NEW t \in Nat,
         NEW x \in Seq(Nat), NEW y \in Seq(Nat), Grows(B, A, B1, A1, n, t, x, y),
         NEW l1 \in LogType, Whole(l1), Full(l1) = y, log' = [log EXCEPT ![n] = l1],
         NEW m \in Node
  PROVE  LogOk(term', B1, A1, m, log'[m])
<1>0. Appends(term, B, A, term', B1, A1, n, t, y)
  BY DEF Grows
<1>1. Frame(term, B, A, term', B1, A1) /\ Appended(B, A, term', B1, A1, n, t, y)
  BY <1>0, AppendsFrame, AppendsFields
<1>2. LogOk(term, B, A, m, log[m]) /\ log[m] \in LogType /\ log \in [Node -> LogType]
  BY DEF Core, VarTypes
<1>3. \A q \in Node : A[q][t] <= Len(B[t])
  BY <1>0 DEF Appends
<1>4. \A s \in Nat : B1[s] = B[s] \/ s = t
  BY <1>1 DEF Appended
<1>5. CASE m # n
  <2>1. \A s \in Nat : A1[m][s] = A[m][s] /\ (B1[s] = B[s] \/ A[m][s] <= Len(B[s]))
    BY <1>1, <1>3, <1>4, <1>5 DEF Appended
  <2>2. (term'[m] = term[m] \/ Reached(term', term'[m])) /\ Whole(log[m])
    BY <1>2 DEF Grows, LogOk
  <2>3. LogOk(term', B1, A1, m, log[m])
    <3>1. PICK l \in LogType : l = log[m] /\ Whole(l) /\ LogOk(term, B, A, m, l)
      BY <1>2, <2>2
    <3>2. Frame(term, B, A, term', B1, A1)
      BY <1>1
    <3>3. LogOk(term', B1, A1, m, l)
      BY <2>1, <2>2, <3>1, <3>2, KeepsLogOk
    <3> QED BY <3>1, <3>3
  <2>4. log'[m] = log[m]
    BY <1>2, <1>5
  <2> QED BY <2>3, <2>4
<1>6. CASE m = n
  <2>1. term'[n] = t /\ Reached(term', t) /\ Booked(term', B1, y) /\ Begins(x, y)
        /\ x = Full(log[n])
    BY DEF Grows
  <2>2. ASSUME NEW s \in Nat PROVE AckedAt(term', B1, A1, n, y, s)
    <3>1. CASE s # t
      <4>1. A1[n][s] = A[n][s] /\ B1[s] = B[s]
        BY <1>1, <3>1 DEF Appended
      <4>2. AckedAt(term, B, A, n, x, s)
        BY <1>2, <1>6, <2>1 DEF LogOk, Acked
      <4> QED BY <1>1, <2>1, <4>1, <4>2, KeepsAckedAt
    <3>2. CASE s = t
      <4>1. A1[n][t] = Len(y) /\ B1[t] = y
        BY <1>1 DEF Appended
      <4>2. \A c \in Nat : c <= Len(y) => Holds(B1, y, t, c)
        BY <4>1 DEF Holds, SameTo
      <4>3. t <= t
        OBVIOUS
      <4> QED BY <2>1, <3>2, <4>1, <4>2, <4>3 DEF AckedAt
    <3> QED BY <3>1, <3>2
  <2>3. LogOk(term', B1, A1, n, l1)
    BY <2>1, <2>2 DEF LogOk, Acked
  <2> QED BY <1>2, <1>6, <2>3
<1> QED BY <1>5, <1>6

\* The leaders then.
LEMMA GrowsLeaderOk ==
  ASSUME NEW B, NEW A, NEW B1, NEW A1, Core(B, A), NEW n \in Node, NEW t \in Nat,
         NEW x \in Seq(Nat), NEW y \in Seq(Nat), Grows(B, A, B1, A1, n, t, x, y),
         NEW l1, Full(l1) = y, log' = [log EXCEPT ![n] = l1],
         match' \in [Node -> [Node -> Nat]], NEW m \in Node, leads'[m]
  PROVE  LeaderOk(term', B1, A1, m, Full(log'[m]), match'[m])
<1>0. Appends(term, B, A, term', B1, A1, n, t, y)
  BY DEF Grows
<1>1. /\ Frame(term, B, A, term', B1, A1) /\ Appended(B, A, term', B1, A1, n, t, y)
      /\ log \in [Node -> LogType] /\ LedgerType(term, B, A)
  BY <1>0, AppendsFrame, AppendsFields DEF Core, VarTypes, Ledger
<1>2. CASE m # n
  <2>1. /\ leads[m] /\ term'[m] = term[m] /\ term[m] # t /\ match'[m] = match[m]
        /\ log'[m] = log[m] /\ log[m] \in LogType /\ term[m] \in Nat
    BY <1>1, <1>2 DEF Grows, LedgerType
  <2>2. PICK z \in Seq(Nat) : z = Full(log[m])
    BY <2>1, FullTyped
  <2>3. LeaderOk(term, B, A, m, z, match[m]) /\ match[m] \in [Node -> Nat]
    BY <2>1, <2>2 DEF Core, VarTypes
  <2>4. B1[term[m]] = B[term[m]] /\ \A q \in Node : A1[q][term[m]] = A[q][term[m]]
    BY <1>1, <2>1 DEF Appended
  <2>5. \A q \in Node : A1[q][term[m]] <= Len(z)
    BY <2>3, <2>4 DEF LeaderOk
  <2>6. LeaderOk(term', B1, A1, m, z, match[m])
    BY <1>1, <2>1, <2>3, <2>4, <2>5, KeepsLeaderOk
  <2> QED BY <2>1, <2>2, <2>6
<1>3. CASE m = n
  <2>1. /\ term'[n] = t /\ t >= 1 /\ y # <<>> /\ B1[t] = y /\ A1[n][t] = Len(y)
        /\ log'[n] = l1
    BY <1>1 DEF Grows, Appended
  <2>2. Len(y) \in Nat /\ Len(B[t]) \in Nat /\ Len(B[t]) <= Len(y)
    BY <1>0, <1>1, EmptySeq DEF Appends, Begins, LedgerType
  <2>3. ASSUME NEW q \in Node PROVE A1[q][t] <= Len(y) /\ match'[n][q] <= A1[q][t]
    <3>1. /\ A[q][t] <= Len(B[t]) /\ A[q][t] \in Nat /\ A1[q][t] \in Nat /\ A[q][t] <= A1[q][t]
          /\ match'[n][q] <= A[q][t] /\ match'[n][q] \in Nat
      <4>1. A[q][t] <= Len(B[t])
        BY <1>0 DEF Appends
      <4>2. A[q][t] \in Nat /\ A1[q][t] \in Nat /\ A[q][t] <= A1[q][t]
        BY <1>1, KeepsAcks
      <4>3. match'[n][q] <= A[q][t] /\ match'[n][q] \in Nat
        BY DEF Grows
      <4> QED BY <4>1, <4>2, <4>3
    <3>2. A1[q][t] = A[q][t] \/ A1[q][t] = Len(y)
      BY <1>1 DEF Appended
    <3>3. PICK a \in Nat, a1 \in Nat, h \in Nat : a = A[q][t] /\ a1 = A1[q][t] /\ h = match'[n][q]
      BY <3>1, Zenon
    <3>4. PICK b \in Nat, c \in Nat : b = Len(B[t]) /\ c = Len(y) /\ b <= c
      BY <2>2
    <3>5. h <= a /\ a <= a1 /\ a <= b /\ (a1 = a \/ a1 = c)
      BY <3>1, <3>2, <3>3, <3>4, Zenon
    <3>6. h <= a1 /\ a1 <= c
      BY <3>4, <3>5, SMTT(30)
    <3> QED BY <3>3, <3>4, <3>6, Zenon
  <2>4. Len(y) <= A1[n][t]
    BY <2>1, <2>2
  <2>5. LeaderOk(term', B1, A1, n, y, match'[n])
    BY <2>1, <2>3, <2>4 DEF LeaderOk
  <2> QED BY <1>3, <2>1, <2>5
<1> QED BY <1>2, <1>3

\* The RPCs under way then.
LEMMA GrowsRpcOk ==
  ASSUME NEW B, NEW A, NEW B1, NEW A1, Core(B, A), NEW n \in Node, NEW t \in Nat,
         NEW x \in Seq(Nat), NEW y \in Seq(Nat), Grows(B, A, B1, A1, n, t, x, y),
         NEW l1, Full(l1) = y, log' = [log EXCEPT ![n] = l1], NEW r \in rpc
  PROVE  RpcOk(term', leads', log', commit, chosen, B1, A1, r)
<1>0. /\ Appends(term, B, A, term', B1, A1, n, t, y)
      /\ Begins(x, y) /\ x = Full(log[n]) /\ y # <<>> /\ Ledger(term', B1, A1)
      /\ term'[n] = t
  BY DEF Grows
<1>1. Frame(term, B, A, term', B1, A1) /\ Appended(B, A, term', B1, A1, n, t, y)
  BY <1>0, AppendsFrame, AppendsFields
<1>2. RpcOk(term, leads, log, commit, chosen, B, A, r) /\ SentOk(term, A, r)
  BY DEF Core, RpcOk
<1>3. PICK f \in Node, u \in Nat : f = r.from /\ u = r.term /\ Reached(term, u)
  BY <1>2 DEF SentOk
<1>4. u = t => leads[n] /\ term[n] = t
  BY <1>3 DEF Grows
<1>5. \A m \in Node : m # n /\ leads'[m] => leads[m] /\ term'[m] = term[m]
  BY DEF Grows
<1>6. /\ log \in [Node -> LogType] /\ chosen \in Seq(Nat) /\ commit \in [Node -> Nat]
      /\ log'[n] = l1 /\ \A m \in Node : m # n => log'[m] = log[m]
  BY DEF Core, VarTypes, ChosenOk
<1>7. SentOk(term', A1, r)
  BY <1>1, <1>2, KeepsSentOk
<1>8. ASSUME r.kind \in Reading
      PROVE  BegunOk(term', B1, A1, leads', r, commit[r.from], Full(log'[r.from]))
  <2>1. BegunOk(term, B, A, leads, r, commit[f], Full(log[f]))
    BY <1>2, <1>3, <1>8 DEF RpcOk
  <2>2. NoNewLeader(term, leads, term', leads', u)
    BY <1>0, <1>4, <1>5 DEF NoNewLeader
  <2>3. SafeTo(term', B1, A1, Full(log'[f]), u)
    <3>1. CASE f = n
      <4>1. B1[t] = y
        BY <1>1 DEF Appended
      <4>2. SafeTo(term', B1, A1, y, t)
        BY <1>0, <4>1, LeaderSafe
      <4>3. u <= t
        <5>1. u <= term[n]
          BY <1>3, <2>1, <3>1 DEF BegunOk
        <5>2. term[n] \in Nat /\ term[n] <= t
          BY <1>0, <1>1 DEF Frame, LedgerType
        <5> QED BY <5>1, <5>2
      <4>4. SafeTo(term', B1, A1, y, u)
        <5>1. \A s \in 0..u : s \in 0..t
          BY <4>3
        <5> QED BY <4>2, <5>1 DEF SafeTo
      <4> QED BY <1>6, <3>1, <4>4
    <3>2. CASE f # n
      <4>1. u # t
        BY <1>3, <1>4, <2>1, <3>2 DEF BegunOk
      <4>2. PICK z \in Seq(Nat) : z = Full(log[f])
        BY <1>6, FullTyped
      <4>3. SafeTo(term, B, A, z, u)
        BY <1>3, <2>1, <4>2 DEF BegunOk
      <4>4. SafeTo(term', B1, A1, z, u)
        BY <1>0, <1>3, <4>1, <4>3, GrowsSafe
      <4> QED BY <1>6, <3>2, <4>2, <4>4
    <3> QED BY <3>1, <3>2
  <2>4. PICK c \in Nat : c = commit[f] /\ c <= c
    BY <1>6
  <2>5. PICK z, z1 : z = Full(log[f]) /\ z1 = Full(log'[f])
    OBVIOUS
  <2>6. /\ BegunOk(term, B, A, leads, r, c, z) /\ SafeTo(term', B1, A1, z1, r.term)
        /\ NoNewLeader(term, leads, term', leads', r.term)
        /\ r.from \in Node /\ r.term \in Nat
    BY <1>3, <2>1, <2>2, <2>3, <2>4, <2>5, SMTT(30)
  <2>7. BegunOk(term', B1, A1, leads', r, c, z1)
    BY <1>1, <2>4, <2>6, KeepsBegunOk
  <2> QED BY <1>3, <2>4, <2>5, <2>7
<1>9. ASSUME r.kind = "append" PROVE AppendOk(term', B1, A1, leads', log', chosen, r)
  <2>1. r.commit \in Nat /\ r.prev \in Nat /\ r.term \in Nat
    BY <1>2, <1>3, <1>9 DEF RpcOk, AppendOk
  <2>2. PICK w \in Seq(Nat) : AppendOf(term, B, A, leads, log, chosen, r, w)
    BY <1>2, <1>9 DEF RpcOk, AppendOk
  <2>3. /\ SafeTo(term, B, A, w, u)
        /\ \A m \in Node : leads[m] /\ term[m] = u => Begins(w, Full(log[m]))
    BY <1>3, <2>2 DEF AppendOf
  <2>4. u = t => Begins(w, y)
    <3> SUFFICES ASSUME u = t PROVE Begins(w, y)
      OBVIOUS
    <3>1. Begins(w, x)
      BY <1>0, <1>4, <2>3
    <3> QED BY <1>0, <3>1, BeginsTwice
  <2>5. SafeTo(term', B1, A1, w, u)
    BY <1>0, <1>3, <2>3, <2>4, GrowsSafe
  <2>6. ASSUME NEW m \in Node, leads'[m], term'[m] = u PROVE Begins(w, Full(log'[m]))
    <3>1. CASE m = n
      BY <1>0, <1>6, <2>4, <2>6, <3>1
    <3>2. CASE m # n
      BY <1>5, <1>6, <2>3, <2>6, <3>2
    <3> QED BY <3>1, <3>2
  <2>7. /\ SafeTo(term', B1, A1, w, r.term) /\ Begins(chosen, chosen)
        /\ \A m \in Node : leads'[m] /\ term'[m] = r.term => Begins(w, Full(log'[m]))
    BY <1>3, <1>6, <2>5, <2>6, BeginsItself
  <2>8. AppendOf(term', B1, A1, leads', log', chosen, r, w)
    BY <1>1, <1>6, <2>1, <2>2, <2>7, KeepsAppendOf
  <2> QED BY <2>1, <2>8 DEF AppendOk
<1> QED BY <1>7, <1>8, <1>9 DEF RpcOk

\* A step in which a leader appends.
LEMMA CoreGrows ==
  ASSUME NEW B, NEW A, NEW B1, NEW A1, Core(B, A), NEW n \in Node, NEW t \in Nat,
         NEW x \in Seq(Nat), NEW y \in Seq(Nat), Grows(B, A, B1, A1, n, t, x, y),
         NEW l1 \in LogType, Whole(l1), Full(l1) = y, l1.saved = log[n].saved,
         log' = [log EXCEPT ![n] = l1], VarTypes',
         UNCHANGED <<commit, applied, fsm, rpc, chosen>>
  PROVE  Core(B1, A1)'
<1>0. /\ Appends(term, B, A, term', B1, A1, n, t, y) /\ Ledger(term', B1, A1)
      /\ Begins(x, y) /\ x = Full(log[n])
  BY DEF Grows
<1>1. Frame(term, B, A, term', B1, A1)
  BY <1>0, AppendsFrame
<1>2. \A m \in Node : LogOk(term', B1, A1, m, log'[m])
  BY GrowsLogOk
<1>3. \A m \in Node : leads'[m] => LeaderOk(term', B1, A1, m, Full(log'[m]), match'[m])
  <2>1. match' \in [Node -> [Node -> Nat]]
    BY DEF VarTypes
  <2> QED BY <2>1, GrowsLeaderOk
<1>4. ASSUME NEW m \in Node
      PROVE  ApplyOk(B1, A1, term'[m], log'[m], chosen', commit'[m], applied'[m], fsm'[m])
  <2>1. /\ ApplyOk(B, A, term[m], log[m], chosen, commit[m], applied[m], fsm[m])
        /\ log[m] \in LogType /\ chosen \in Seq(Nat) /\ log \in [Node -> LogType]
    BY DEF Core, VarTypes, ChosenOk
  <2>2. PICK c \in Nat : c = commit[m] /\ c <= Len(Full(log[m])) /\ SameTo(Full(log[m]), chosen, c)
    BY <2>1 DEF ApplyOk
  <2>3. log'[m] \in LogType /\ log'[m].saved = log[m].saved
    BY <2>1
  <2>4. c <= Len(Full(log'[m])) /\ SameTo(Full(log'[m]), chosen, c)
    <3>1. CASE m # n
      BY <2>1, <2>2, <3>1
    <3>2. CASE m = n
      <4>1. log'[m] = l1
        BY <2>1, <3>2
      <4>2. Len(x) \in Nat /\ Len(y) \in Nat /\ Len(x) <= Len(y) /\ SameTo(x, y, Len(x))
        BY <1>0, EmptySeq DEF Begins
      <4>3. c <= Len(x) /\ SameTo(x, chosen, c)
        BY <1>0, <2>2, <3>2
      <4>4. c <= Len(y) /\ \A j \in 1..c : j \in 1..Len(x)
        BY <4>2, <4>3
      <4>5. SameTo(y, chosen, c)
        BY <4>2, <4>3, <4>4 DEF SameTo
      <4> QED BY <4>1, <4>4, <4>5
    <3> QED BY <3>1, <3>2
  <2>5. term[m] \in Nat /\ term'[m] \in Nat /\ term[m] <= term'[m]
    BY <1>1 DEF Frame, LedgerType
  <2>6. Begins(chosen, chosen)
    BY <2>1, BeginsItself
  <2>7. PICK l2 \in LogType : l2 = log'[m]
    BY <2>3
  <2>8. ApplyOk(B1, A1, term'[m], l2, chosen, commit[m], applied[m], fsm[m])
    <3>1. l2.saved = log[m].saved /\ commit[m] <= Len(Full(l2)) /\ SameTo(Full(l2), chosen, commit[m])
      BY <2>2, <2>3, <2>4, <2>7
    <3> QED BY <1>1, <2>1, <2>5, <2>6, <3>1, KeepsApplyOk
  <2> QED BY <2>7, <2>8
<1>5. \A i, m \in Node : leads'[i] /\ leads'[m] /\ term'[i] = term'[m] => i = m
  <2> SUFFICES ASSUME NEW i \in Node, NEW m \in Node, leads'[i], leads'[m],
                      term'[i] = term'[m]
               PROVE  i = m
    OBVIOUS
  <2>1. /\ i # n => leads[i] /\ term'[i] = term[i] /\ term[i] # t
        /\ m # n => leads[m] /\ term'[m] = term[m] /\ term[m] # t
        /\ term'[n] = t
    BY DEF Grows
  <2> QED BY <2>1 DEF Core
<1>6. \A r \in rpc' : RpcOk(term', leads', log', commit', chosen', B1, A1, r)
  BY GrowsRpcOk
<1>7. ChosenOk(B1, A1, chosen')
  <2>1. ChosenOk(B, A, chosen)
    BY DEF Core
  <2>2. ChosenOk(B1, A1, chosen)
    BY <1>1, <2>1, KeepsChosenOk
  <2> QED BY <2>2
<1> QED BY <1>0, <1>2, <1>3, <1>4, <1>5, <1>6, <1>7 DEF Core

\* Finitely many numbers have a bound.
LEMMA FiniteBound ==
  ASSUME NEW k \in Nat, NEW f \in [1..k -> Nat]
  PROVE  \E b \in Nat : \A i \in 1..k : f[i] <= b
<1> DEFINE S == {m \in Nat : \E g \in [1..m -> Nat] :
                               \A b \in Nat : \E i \in 1..m : ~ (g[i] <= b)}
<1>1. S \in SUBSET Nat
  OBVIOUS
<1>2. ASSUME S # {} PROVE FALSE
  <2>1. PICK m \in S : \A y \in S : m <= y
    <3> HIDE DEF S
    <3> QED BY <1>1, <1>2, SmallestIn
  <2>2. PICK g \in [1..m -> Nat] : \A b \in Nat : \E i \in 1..m : ~ (g[i] <= b)
    OBVIOUS
  <2>3. m \in Nat /\ m # 0
    <3>1. \E i \in 1..m : ~ (g[i] <= 0)
      BY <2>2
    <3> QED BY <3>1
  <2>4. PICK h \in Nat : h = m - 1
    BY <2>3
  <2>5. h \notin S
    <3>1. ~ (m <= h)
      BY <2>3, <2>4
    <3> HIDE DEF S
    <3> QED BY <2>1, <3>1
  <2>6. PICK e : e = [i \in 1..h |-> g[i]]
    OBVIOUS
  <2>7. e \in [1..h -> Nat] /\ \A i \in 1..h : e[i] = g[i]
    <3>1. \A i \in 1..h : i \in 1..m
      BY <2>3, <2>4
    <3> QED BY <2>6, <3>1
  <2>8. PICK b \in Nat : \A i \in 1..h : e[i] <= b
    BY <2>5, <2>7
  <2>9. PICK v \in Nat : v = g[m]
    BY <2>3
  <2>10. PICK w \in Nat : b <= w /\ v <= w
    <3>1. b <= b + v /\ v <= b + v /\ b + v \in Nat
      OBVIOUS
    <3> QED BY <3>1, Zenon
  <2>11. \A i \in 1..m : g[i] <= w
    <3> SUFFICES ASSUME NEW i \in 1..m PROVE g[i] <= w
      OBVIOUS
    <3>1. CASE i = m
      BY <2>9, <2>10, <3>1
    <3>2. CASE i # m
      <4>1. i \in 1..h
        BY <2>3, <2>4, <3>2
      <4>2. g[i] <= b /\ g[i] \in Nat
        BY <2>7, <2>8, <4>1
      <4> QED BY <2>10, <4>2
    <3> QED BY <3>1, <3>2
  <2> QED BY <2>2, <2>11
<1>3. k \notin S
  <2> HIDE DEF S
  <2> QED BY <1>2
<1> QED BY <1>3

\* The terms of some nodes have a bound.
LEMMA TermsBound ==
  ASSUME NEW T \in [Node -> Nat], NEW Q \in SUBSET Node
  PROVE  \E b \in Nat : \A q \in Q : T[q] <= b
<1>1. IsFiniteSet(Q)
  BY ReplicationAssumption, FS_Subset
<1>2. PICK k \in Nat : ExistsSurjection(1..k, Q)
  BY <1>1, FS_NatSurjection
<1>3. PICK f \in [1..k -> Q] : \A q \in Q : \E i \in 1..k : f[i] = q
  BY <1>2 DEF ExistsSurjection, Surjection
<1>4. PICK g : g = [i \in 1..k |-> T[f[i]]]
  OBVIOUS
<1>5. g \in [1..k -> Nat] /\ \A i \in 1..k : g[i] = T[f[i]]
  BY <1>3, <1>4
<1>6. PICK b \in Nat : \A i \in 1..k : g[i] <= b
  BY <1>5, FiniteBound
<1>7. ASSUME NEW q \in Q PROVE T[q] <= b
  <2>1. PICK i \in 1..k : f[i] = q
    BY <1>3
  <2> QED BY <1>5, <1>6, <2>1
<1> QED BY <1>7

\* The term of an election is newer than those of the voters.
LEMMA NewTerm ==
  ASSUME NEW T \in [Node -> Nat], NEW Q \in SUBSET Node, NEW n \in Q
  PROVE  LET t == 1 + Replication!Max({T[m] : m \in Q}) IN
         t \in Nat /\ t >= 1 /\ \A m \in Q : T[m] < t
<1> DEFINE S == {T[m] : m \in Q}
<1>1. PICK b \in Nat : \A q \in Q : T[q] <= b
  BY TermsBound
<1>2. S \in SUBSET Nat /\ T[n] \in S /\ \A x \in S : x <= b
  BY <1>1
<1>3. \A m \in Q : T[m] \in S
  OBVIOUS
<1> HIDE DEF S
<1>4. S # {}
  BY <1>2
<1>5. PICK v : v = Replication!Max(S)
  OBVIOUS
<1>6. v \in S /\ \A x \in S : v >= x
  BY <1>2, <1>4, <1>5, LargestIn
<1>7. v \in Nat
  BY <1>2, <1>6
<1>8. ASSUME NEW m \in Q PROVE T[m] < 1 + v
  <2>1. T[m] \in Nat /\ v >= T[m]
    BY <1>3, <1>6
  <2> QED BY <1>7, <2>1
<1>9. 1 + v \in Nat /\ 1 + v >= 1
  BY <1>7
<1> QED BY <1>5, <1>8, <1>9 DEF S

\* l1 is l with entries of term t appended.
Prolongs(l, l1, t) ==
  /\ l1 \in LogType /\ Whole(l1) /\ l1.saved = l.saved
  /\ Full(l1) # <<>> /\ Begins(Full(l), Full(l1))
  /\ \A i \in 1..Len(Full(l1)) : i > Len(Full(l)) => Full(l1)[i] = t

\* Entries of one term, and at least one.
OfTerm(es, t) == es \in Seq(Nat) /\ es # <<>> /\ \A i \in 1..Len(es) : es[i] = t

\* A log to which entries of term t are appended.
LEMMA GrownBy ==
  ASSUME NEW l \in LogType, Whole(l), NEW es, NEW t, OfTerm(es, t)
  PROVE  Prolongs(l, Replication!Extend(l, es), t)
<1> es \in Seq(Nat) /\ es # <<>> /\ \A i \in 1..Len(es) : es[i] = t
  BY DEF OfTerm
<1> DEFINE l1 == Replication!Extend(l, es)
<1> HIDE DEF l1
<1>1. l1 \in LogType /\ Whole(l1) /\ l1.saved = l.saved /\ Full(l1) = Full(l) \o es
  BY ExtendFull DEF l1
<1>2. PICK x \in Seq(Nat), y \in Seq(Nat) : x = Full(l) /\ y = Full(l1) /\ y = x \o es
  BY <1>1, FullTyped
<1>3. PICK a \in Nat, e \in Nat, b \in Nat : a = Len(x) /\ e = Len(es) /\ b = Len(y)
  BY EmptySeq
<1>4. b = a + e /\ e # 0
  BY <1>2, <1>3, ConcatLen, EmptySeq
<1>5. \A i \in 1..b : y[i] = IF i <= a THEN x[i] ELSE es[i - a]
  BY <1>2, <1>3, ConcatAt
<1>6. Begins(x, y)
  <2>1. a <= b /\ \A i \in 1..a : i \in 1..b /\ i <= a
    BY <1>4
  <2> QED BY <1>3, <1>5, <2>1 DEF Begins, SameTo
<1>7. y # <<>>
  <2>1. b # 0
    BY <1>4
  <2> QED BY <1>3, <2>1, EmptySeq
<1>8. ASSUME NEW i \in 1..b, i > a PROVE y[i] = t
  <2>1. ~ (i <= a) /\ i - a \in 1..e
    BY <1>4, <1>8
  <2> QED BY <1>3, <1>5, <2>1
<1>9. Prolongs(l, l1, t)
  BY <1>1, <1>2, <1>3, <1>6, <1>7, <1>8 DEF Prolongs
<1> QED BY <1>9 DEF l1

\* processBatch
LEMMA CoreBatch ==
  ASSUME NEW B, NEW A, Core(B, A), NEW n \in Node, NEW k \in 1..2,
         Replication!processBatch(n, k)
  PROVE  \E B1, A1 : Core(B1, A1)'
<1>0. /\ VarTypes /\ Ledger(term, B, A) /\ LedgerType(term, B, A)
  BY DEF Core, Ledger
<1>1. PICK t \in Nat, l \in LogType : t = term[n] /\ l = log[n] /\ Whole(l)
  BY <1>0 DEF Core, VarTypes, LogOk, LedgerType
<1>2. PICK es : es = [i \in 1..k |-> t]
  OBVIOUS
<1>3. OfTerm(es, t)
  <2>1. es \in Seq(Nat) /\ Len(es) = k
    BY <1>2
  <2>2. k # 0
    OBVIOUS
  <2>3. es # <<>>
    BY <2>1, <2>2, EmptySeq
  <2> QED BY <1>2, <2>1, <2>3 DEF OfTerm
<1>4. PICK l1 : l1 = Replication!Extend(l, es)
  OBVIOUS
<1>5. /\ leads[n] /\ log' = [log EXCEPT ![n] = l1]
      /\ UNCHANGED <<term, leads, commit, applied, fsm, next, match, rpc, chosen>>
  BY <1>1, <1>2, <1>4 DEF Replication!processBatch
<1>6. /\ l1 \in LogType /\ Whole(l1) /\ l1.saved = l.saved
      /\ Full(l1) # <<>> /\ Begins(Full(l), Full(l1))
      /\ \A i \in 1..Len(Full(l1)) : i > Len(Full(l)) => Full(l1)[i] = t
  <2>1. Prolongs(l, l1, t)
    BY <1>1, <1>3, <1>4, GrownBy
  <2> QED BY <2>1 DEF Prolongs
<1>7. PICK x \in Seq(Nat), y \in Seq(Nat) : x = Full(l) /\ y = Full(l1)
  BY <1>6, FullTyped
<1>8. /\ y # <<>> /\ Begins(x, y) /\ \A i \in 1..Len(y) : i > Len(x) => y[i] = t
  BY <1>6, <1>7
<1>9. LeaderOk(term, B, A, n, x, match[n])
  BY <1>1, <1>5, <1>7 DEF Core
<1>10. /\ t >= 1 /\ x # <<>> /\ x = B[t]
       /\ \A q \in Node : A[q][t] <= Len(x) /\ match[n][q] <= A[q][t]
  BY <1>1, <1>9 DEF LeaderOk
<1>11. PICK B1 : B1 = [B EXCEPT ![t] = y]
  OBVIOUS
<1>12. PICK A1 : A1 = [A EXCEPT ![n] = [A[n] EXCEPT ![t] = Len(y)]]
  OBVIOUS
<1>13. term \in [Node -> Nat] /\ \A q \in Node : term[q] <= term[q]
  <2>1. LedgerType(term, B, A)
    BY <1>0
  <2>2. term \in [Node -> Nat]
    BY <2>1 DEF LedgerType
  <2> QED BY <2>2
<1>14. Appends(term, B, A, term, B1, A1, n, t, y)
  BY <1>0, <1>1, <1>8, <1>10, <1>11, <1>12, <1>13 DEF Appends
<1>15. Frame(term, B, A, term, B1, A1) /\ B1[t] = y
  <2>1. Appended(B, A, term, B1, A1, n, t, y)
    BY <1>14, AppendsFields
  <2> QED BY <1>14, <2>1, AppendsFrame DEF Appended
<1>16. Reached(term, t) /\ Booked(term, B, x)
  BY <1>1, <1>7 DEF Core, LogOk
<1>17. Booked(term, B1, y)
  BY <1>8, <1>10, <1>15, <1>16, BookedGrows, SMTT(30)
<1>18. \A i \in 1..Len(y) : y[i] <= t
  <2> SUFFICES ASSUME NEW i \in 1..Len(y) PROVE y[i] <= t
    OBVIOUS
  <2>1. CASE i > Len(x)
    BY <1>8, <2>1
  <2>2. CASE ~ (i > Len(x))
    <3>1. i \in 1..Len(x)
      BY <2>2, EmptySeq
    <3>2. y[i] = x[i]
      BY <1>8, <3>1 DEF Begins, SameTo
    <3> QED BY <1>0, <1>10, <3>1, <3>2 DEF Ledger
  <2> QED BY <2>1, <2>2
<1>19. Completes(term, B, A1, y, t)
  <2> SUFFICES ASSUME NEW u \in Nat, NEW c \in Nat, u < t, OwnAt(B, u, c)
               PROVE  Holds(B, y, u, c) \/ Dead(term, A1, u, c)
    BY DEF Completes
  <2>1. Holds(B, x, u, c) \/ Dead(term, A, u, c)
    BY <1>0, <1>10 DEF Ledger, Complete
  <2>2. CASE Holds(B, x, u, c)
    BY <1>8, <2>2, HoldsLonger
  <2>3. CASE Dead(term, A, u, c)
    BY <1>15, <2>3, KeepsDead
  <2> QED BY <2>1, <2>2, <2>3
<1>20. Ledger(term, B1, A1)
  BY <1>0, <1>11, <1>15, <1>16, <1>17, <1>18, <1>19, LedgerGrows
<1>21. \A m \in Node : m # n /\ leads[m] => term[m] # t
  BY <1>1, <1>5 DEF Core
<1>22. Grows(B, A, B1, A1, n, t, x, y)
  BY <1>1, <1>5, <1>7, <1>8, <1>10, <1>14, <1>16, <1>17, <1>20, <1>21 DEF Grows
<1>23. VarTypes'
  BY <1>0, <1>5, <1>6 DEF VarTypes
<1>24. Core(B1, A1)'
  BY <1>1, <1>5, <1>6, <1>7, <1>22, <1>23, CoreGrows
<1> QED BY <1>24

\* A term that no majority has reached has no leader, no acknowledgement and no RPC.
Unknown(B, A, t) ==
  /\ B[t] = <<>> /\ \A q \in Node : A[q][t] = 0
  /\ \A m \in Node : term[m] # t
  /\ \A r \in rpc : r.term # t
  /\ \A m \in Node : \A i \in 1..Len(Full(log[m])) : Full(log[m])[i] < t

\* A term that no majority has reached is unknown.
LEMMA NewIsUnknown ==
  ASSUME NEW B, NEW A, Core(B, A), NEW t \in Nat, ~ Reached(term, t)
  PROVE  Unknown(B, A, t)
<1>0. /\ Ledger(term, B, A) /\ term \in [Node -> Nat] /\ A \in [Node -> [Nat -> Nat]]
  BY DEF Core, Ledger, LedgerType
<1>1. ASSUME NEW u \in Nat, Reached(term, u) PROVE u < t
  <2>1. ~ (t <= u)
    BY <1>0, <1>1, ReachedBefore
  <2> QED BY <2>1
<1>2. B[t] = <<>>
  BY <1>0 DEF Ledger
<1>3. ASSUME NEW q \in Node PROVE A[q][t] = 0
  <2>1. AckedAt(term, B, A, q, Full(log[q]), t)
    BY DEF Core, LogOk, Acked
  <2>2. ~ (A[q][t] > 0)
    BY <2>1 DEF AckedAt
  <2>3. A[q][t] \in Nat
    BY <1>0
  <2> QED BY <2>2, <2>3
<1>4. ASSUME NEW m \in Node PROVE term[m] # t
  BY DEF Core, LogOk
<1>5. ASSUME NEW r \in rpc PROVE r.term # t
  BY DEF Core, RpcOk, SentOk
<1>6. ASSUME NEW m \in Node, NEW i \in 1..Len(Full(log[m])) PROVE Full(log[m])[i] < t
  <2>1. Booked(term, B, Full(log[m])) /\ log[m] \in LogType
    BY DEF Core, LogOk
  <2>2. PICK x \in Seq(Nat) : x = Full(log[m])
    BY <2>1, FullTyped
  <2>3. x[i] \in Nat /\ Reached(term, x[i])
    BY <2>1, <2>2 DEF Booked
  <2> QED BY <1>1, <2>2, <2>3
<1> QED BY <1>2, <1>3, <1>4, <1>5, <1>6 DEF Unknown

\* What isLogUpToDate compares.
LEMMA ComparesLogs ==
  ASSUME NEW l \in LogType, Whole(l), NEW k \in LogType, Whole(k),
         Replication!isLogUpToDate(l, k)
  PROVE  UpToDate(Full(l), Full(k))
<1>1. /\ Replication!LastIndex(l) = Len(Full(l)) /\ Replication!LastTerm(l) = LastOf(Full(l))
  BY LogReads DEF LastOf
<1>2. /\ Replication!LastIndex(k) = Len(Full(k)) /\ Replication!LastTerm(k) = LastOf(Full(k))
  BY LogReads DEF LastOf
<1> QED BY <1>1, <1>2 DEF Replication!isLogUpToDate, UpToDate

\* The voters Q, whose logs are no more up to date than x, go on to term t: an
\* older entry is held by x, or can no longer be chosen.
LEMMA ElectedCompletes ==
  ASSUME NEW B, NEW A, Core(B, A), NEW T1, NEW B1, NEW A1, NEW t \in Nat,
         Frame(term, B, A, T1, B1, A1), NEW Q \in Majority, \A m \in Q : T1[m] = t,
         \A m \in Node : \A u \in Nat : u # t => A1[m][u] = A[m][u],
         NEW x \in Seq(Nat), NEW y \in Seq(Nat), Begins(x, y), Booked(term, B, x),
         \A m \in Q : UpToDate(Full(log[m]), x)
  PROVE  Completes(T1, B, A1, y, t)
<1> SUFFICES ASSUME NEW u \in Nat, NEW c \in Nat, u < t, OwnAt(B, u, c)
             PROVE  Holds(B, y, u, c) \/ Dead(T1, A1, u, c)
  BY DEF Completes
<1>0. Ledger(term, B, A) /\ A \in [Node -> [Nat -> Nat]] /\ Q \subseteq Node
  BY DEF Core, Ledger, LedgerType, Majority
<1>1. CASE \A m \in Q : A[m][u] < c
  <2>1. u # t
    OBVIOUS
  <2>2. \A m \in Q : A1[m][u] = A[m][u]
    BY <1>0, <2>1
  <2>3. \A m \in Q : T1[m] > u
    OBVIOUS
  <2>4. \A m \in Q : T1[m] > u /\ A1[m][u] < c
    BY <1>1, <2>2, <2>3
  <2> QED BY <2>4 DEF Dead
<1>2. CASE \E m \in Q : ~ (A[m][u] < c)
  <2>1. PICK m \in Q : ~ (A[m][u] < c)
    BY <1>2
  <2>2. m \in Node /\ A[m][u] \in Nat
    BY <1>0
  <2>3. c <= A[m][u]
    BY <2>1, <2>2
  <2>4. log[m] \in LogType /\ Booked(term, B, Full(log[m])) /\ Acked(term, B, A, m, Full(log[m]))
    BY <2>2 DEF Core, LogOk
  <2>5. PICK z \in Seq(Nat) : z = Full(log[m])
    BY <2>4, FullTyped
  <2>6. Booked(term, B, z) /\ UpToDate(z, x)
    BY <2>4, <2>5
  <2>7. Holds(B, z, u, c) \/ Dead(term, A, u, c)
    BY <2>3, <2>4, <2>5 DEF Acked, AckedAt
  <2>8. Holds(B, x, u, c) \/ Dead(term, A, u, c)
    BY <1>0, <2>6, <2>7, UpToDateHolds
  <2>9. CASE Holds(B, x, u, c)
    BY <2>9, HoldsLonger
  <2>10. CASE Dead(term, A, u, c)
    BY <2>10, KeepsDead
  <2> QED BY <2>8, <2>9, <2>10
<1> QED BY <1>1, <1>2

\* The types of the variables after an election.
LEMMA ElectedTypes ==
  ASSUME VarTypes, NEW n \in Node, NEW Q \in SUBSET Node,
         Replication!BecomeLeader(n, Q), Whole(log[n]), NEW l1 \in LogType,
         log' = [log EXCEPT ![n] = l1]
  PROVE  VarTypes'
<1>1. leads' \in [Node -> BOOLEAN]
  BY DEF Replication!BecomeLeader, VarTypes
<1>2. log' \in [Node -> LogType]
  BY DEF VarTypes
<1>3. commit' \in [Node -> Nat] /\ applied' \in [Node -> Nat] /\ fsm' \in [Node -> Seq(Nat)]
  BY DEF Replication!BecomeLeader, VarTypes
<1>4. match' \in [Node -> [Node -> Nat]]
  <2>1. Replication!NoMatch \in [Node -> Nat]
    BY DEF Replication!NoMatch
  <2> QED BY <2>1 DEF Replication!BecomeLeader, VarTypes
<1>5. next' \in [Node -> [Node -> Nat]]
  <2>1. \A m \in Node : Replication!Kept(m) \in [Node -> Nat]
    BY DEF Replication!Kept, Replication!NoNext, VarTypes
  <2>2. PICK h \in Nat : h = Replication!LastIndex(log[n])
    <3>1. log[n] \in LogType
      BY DEF VarTypes
    <3>2. Replication!LastIndex(log[n]) = Len(Full(log[n])) /\ Full(log[n]) \in Seq(Nat)
      BY <3>1, LogReads, FullTyped
    <3> QED BY <3>2, EmptySeq
  <2>3. [p \in Node |-> h + 1] \in [Node -> Nat]
    OBVIOUS
  <2>4. next' = [m \in Node |-> IF m = n THEN [p \in Node |-> h + 1]
                                ELSE IF m \in Q THEN Replication!Kept(m) ELSE next[m]]
    BY <2>2 DEF Replication!BecomeLeader
  <2>5. next \in [Node -> [Node -> Nat]]
    BY DEF VarTypes
  <2> QED BY <2>1, <2>3, <2>4, <2>5
<1> QED BY <1>1, <1>2, <1>3, <1>4, <1>5 DEF VarTypes

\* An election.
LEMMA CoreElection ==
  ASSUME NEW B, NEW A, Core(B, A), NEW n \in Node, NEW Q \in Replication!Quorum,
         Replication!BecomeLeader(n, Q)
  PROVE  \E B1, A1 : Core(B1, A1)'
<1>0. /\ VarTypes /\ Ledger(term, B, A) /\ LedgerType(term, B, A)
  BY DEF Core, Ledger
<1>1. term \in [Node -> Nat] /\ Q \in Majority /\ Q \in SUBSET Node /\ n \in Q
  BY <1>0, QuorumMajority DEF LedgerType, Majority, Replication!BecomeLeader
<1>2. PICK t : t = 1 + Replication!Max({term[m] : m \in Q})
  OBVIOUS
<1>3. t \in Nat /\ t >= 1 /\ \A m \in Q : term[m] < t
  BY <1>1, <1>2, NewTerm
<1>4. /\ \A m \in Q : Replication!isLogUpToDate(log[m], log[n])
      /\ term' = [m \in Node |-> IF m \in Q THEN t ELSE term[m]]
      /\ leads' = [m \in Node |-> IF m \in Q THEN m = n ELSE leads[m]]
      /\ match' = [m \in Node |-> IF m \in Q THEN Replication!NoMatch ELSE match[m]]
      /\ log' = [log EXCEPT ![n] = Replication!Extend(log[n], <<t>>)]
      /\ UNCHANGED <<commit, applied, fsm, rpc, chosen>>
  BY <1>2 DEF Replication!BecomeLeader
<1>5. Unknown(B, A, t)
  <2>1. ~ Reached(term, t)
    BY <1>1, <1>3, NotReached
  <2> QED BY <1>3, <2>1, NewIsUnknown
<1>6. PICK l \in LogType : l = log[n] /\ Whole(l)
  BY DEF Core, LogOk
<1>7. PICK l1 : l1 = Replication!Extend(l, <<t>>)
  OBVIOUS
<1>8. Prolongs(l, l1, t)
  <2>1. <<t>> \in Seq(Nat) /\ <<t>> # <<>> /\ \A i \in 1..Len(<<t>>) : <<t>>[i] = t
    BY <1>3
  <2>2. OfTerm(<<t>>, t)
    BY <2>1 DEF OfTerm
  <2> QED BY <1>6, <1>7, <2>2, GrownBy
<1>9. l1 \in LogType /\ Whole(l1) /\ l1.saved = l.saved
  BY <1>8 DEF Prolongs
<1>10. PICK x \in Seq(Nat), y \in Seq(Nat) : x = Full(l) /\ y = Full(l1)
  BY <1>9, FullTyped
<1>11. /\ y # <<>> /\ Begins(x, y) /\ \A i \in 1..Len(y) : i > Len(x) => y[i] = t
  BY <1>8, <1>10 DEF Prolongs
<1>12. PICK B1 : B1 = [B EXCEPT ![t] = y]
  OBVIOUS
<1>13. PICK A1 : A1 = [A EXCEPT ![n] = [A[n] EXCEPT ![t] = Len(y)]]
  OBVIOUS
<1>14. PICK T1 \in [Node -> Nat] : T1 = term'
  BY <1>1, <1>3, <1>4
<1>15. /\ \A m \in Q : T1[m] = t
       /\ \A m \in Node : m \notin Q => T1[m] = term[m]
       /\ \A m \in Node : term[m] <= T1[m]
  <2>1. /\ \A m \in Q : T1[m] = t
        /\ \A m \in Node : m \notin Q => T1[m] = term[m]
    BY <1>1, <1>4, <1>14
  <2>2. ASSUME NEW m \in Node PROVE term[m] <= T1[m]
    <3>1. term[m] \in Nat
      BY <1>1
    <3> QED BY <1>3, <2>1, <3>1
  <2> QED BY <2>1, <2>2
<1>16. Reached(T1, t)
  BY <1>1, <1>3, <1>15 DEF Reached
<1>17. Appends(term, B, A, T1, B1, A1, n, t, y)
  <2>1. B[t] = <<>> /\ \A q \in Node : A[q][t] = 0
    BY <1>5 DEF Unknown
  <2>2. Len(B[t]) = 0
    BY <2>1
  <2>3. Begins(B[t], y) /\ \A q \in Node : A[q][t] <= Len(B[t])
    <3>1. 0 <= Len(y)
      BY EmptySeq
    <3> QED BY <2>1, <2>2, <3>1 DEF Begins, SameTo
  <2>4. term[n] <= t
    BY <1>1, <1>3
  <2> QED BY <1>0, <1>12, <1>13, <1>15, <2>3, <2>4 DEF Appends
<1>18. Frame(term, B, A, T1, B1, A1) /\ Appended(B, A, T1, B1, A1, n, t, y)
  BY <1>3, <1>17, AppendsFields, AppendsFrame
<1>19. Booked(term, B, x)
  BY <1>6, <1>10 DEF Core, LogOk
<1>20. Booked(T1, B1, y)
  <2>1. B1[t] = y
    BY <1>18 DEF Appended
  <2> QED BY <1>3, <1>11, <1>16, <1>18, <1>19, <2>1, BookedGrows
<1>21. \A i \in 1..Len(y) : y[i] <= t
  <2> SUFFICES ASSUME NEW i \in 1..Len(y) PROVE y[i] <= t
    OBVIOUS
  <2>1. CASE i > Len(x)
    <3>1. y[i] = t
      BY <1>11, <2>1
    <3> QED BY <1>3, <3>1
  <2>2. CASE ~ (i > Len(x))
    <3>1. i \in 1..Len(x)
      BY <2>2, EmptySeq
    <3>2. y[i] = x[i]
      BY <1>11, <3>1 DEF Begins, SameTo
    <3>3. x[i] < t
      BY <1>5, <1>6, <1>10, <3>1 DEF Unknown
    <3>4. x[i] \in Nat
      BY <3>1
    <3> QED BY <1>3, <3>2, <3>3, <3>4
  <2> QED BY <2>1, <2>2
<1>22. Completes(T1, B, A1, y, t)
  <2>1. \A m \in Node : \A u \in Nat : u # t => A1[m][u] = A[m][u]
    BY <1>18 DEF Appended
  <2>2. ASSUME NEW m \in Q PROVE UpToDate(Full(log[m]), x)
    <3>1. log[m] \in LogType /\ Whole(log[m])
      BY <1>1 DEF Core, LogOk
    <3>2. Replication!isLogUpToDate(log[m], l)
      BY <1>4, <1>6
    <3> QED BY <1>6, <1>10, <3>1, <3>2, ComparesLogs
  <2> QED BY <1>1, <1>3, <1>11, <1>15, <1>18, <1>19, <2>1, <2>2, ElectedCompletes
<1>23. Ledger(T1, B1, A1)
  BY <1>0, <1>3, <1>12, <1>16, <1>18, <1>20, <1>21, <1>22, LedgerGrows
<1>24. \A q \in Node : match'[n][q] <= A[q][t]
  <2>1. \A q \in Node : match'[n][q] = 0
    BY <1>1, <1>4 DEF Replication!NoMatch
  <2> QED BY <1>5, <2>1 DEF Unknown
<1>25. \A m \in Node : T1[m] = term[m] \/ Reached(T1, T1[m])
  BY <1>15, <1>16
<1>26. ASSUME NEW m \in Node, m # n, leads'[m]
       PROVE  leads[m] /\ T1[m] = term[m] /\ term[m] # t /\ match'[m] = match[m]
  <2>1. m \notin Q
    BY <1>4, <1>26
  <2>2. leads[m] /\ match'[m] = match[m]
    BY <1>4, <1>26, <2>1
  <2> QED BY <1>5, <1>15, <2>1, <2>2 DEF Unknown
<1>27. \A r \in rpc : r.term # t
  BY <1>5 DEF Unknown
<1>28. Grows(B, A, B1, A1, n, t, x, y)
  <2>1. T1[n] = t
    BY <1>1, <1>15
  <2> QED BY <1>3, <1>6, <1>10, <1>11, <1>14, <1>16, <1>17, <1>20, <1>23, <1>24, <1>25,
             <1>26, <1>27, <2>1 DEF Grows
<1>29. log' = [log EXCEPT ![n] = l1]
  BY <1>4, <1>6, <1>7
<1>30. VarTypes'
  BY <1>0, <1>1, <1>6, <1>9, <1>29, ElectedTypes
<1>31. Core(B1, A1)'
  BY <1>3, <1>4, <1>6, <1>9, <1>10, <1>28, <1>29, <1>30, CoreGrows
<1> QED BY <1>31

\* All the members are a majority of them.
LEMMA AllMajority ==
  ASSUME NEW n \in Node
  PROVE  Node \in Majority
<1>1. PICK k \in Nat : k = Cardinality(Node)
  BY ReplicationAssumption, FS_CardinalityType
<1>2. k # 0
  BY <1>1, ReplicationAssumption, FS_EmptySet
<1>3. k >= k \div 2 + 1
  BY <1>2
<1> QED BY <1>1, <1>3 DEF Majority

\* A new log is empty.
LEMMA NewLogEmpty ==
  LET l == Replication!NewLog IN
  /\ l \in LogType /\ Whole(l) /\ Full(l) = <<>> /\ l.saved = <<>> /\ Len(l.saved) = 0
<1>1. PICK l : l = Replication!NewLog
  OBVIOUS
<1>2. l = [first |-> 1, entries |-> <<>>, saved |-> <<>>]
  BY <1>1 DEF Replication!NewLog
<1>3. l.first = 1 /\ l.entries = <<>> /\ l.saved = <<>>
  BY <1>2
<1>4. <<>> \in Seq(Nat) /\ Len(<<>>) = 0
  OBVIOUS
<1>5. l \in LogType
  BY <1>2, <1>4 DEF LogType
<1>6. Len(l.saved) = 0 /\ Len(l.entries) = 0
  BY <1>3, <1>4
<1>7. Whole(l)
  BY <1>3, <1>6 DEF Whole
<1>8. PICK x \in Seq(Nat) : x = Full(l) /\ Len(x) = 0
  <2>1. Full(l) \in Seq(Nat) /\ Len(Full(l)) = Len(l.saved) + Len(l.entries)
    BY <1>5, FullTyped
  <2>2. Len(Full(l)) = 0
    BY <1>6, <2>1
  <2> QED BY <2>1, <2>2
<1>9. Full(l) = <<>>
  BY <1>8, EmptySeq
<1> QED BY <1>1, <1>3, <1>5, <1>6, <1>7, <1>9

\* Nothing has been appended yet, and nothing acknowledged.
Blank(B, A) == B = [t \in Nat |-> <<>>] /\ A = [q \in Node |-> [t \in Nat |-> 0]]

\* The core holds when nothing has happened.
LEMMA CoreInit ==
  ASSUME Replication!Init, NEW B, NEW A, Blank(B, A)
  PROVE  Core(B, A)
<1>0. /\ B \in [Nat -> Seq(Nat)] /\ \A t \in Nat : B[t] = <<>> /\ Len(B[t]) = 0
      /\ A \in [Node -> [Nat -> Nat]] /\ \A q \in Node : \A t \in Nat : A[q][t] = 0
      /\ \A t \in Nat : \A c \in Nat : ~ OwnAt(B, t, c)
  <2>1. /\ B \in [Nat -> Seq(Nat)] /\ \A t \in Nat : B[t] = <<>> /\ Len(B[t]) = 0
    BY DEF Blank
  <2>2. /\ A \in [Node -> [Nat -> Nat]] /\ \A q \in Node : \A t \in Nat : A[q][t] = 0
    BY DEF Blank
  <2> QED BY <2>1, <2>2 DEF OwnAt
<1>1. /\ term \in [Node -> Nat] /\ \A n \in Node : term[n] = 0 /\ ~ leads[n]
      /\ \A n \in Node : log[n] = Replication!NewLog /\ fsm[n] = <<>>
      /\ \A n \in Node : commit[n] = 0 /\ applied[n] = 0
      /\ chosen = <<>> /\ rpc = {}
  BY DEF Replication!Init
<1>2. VarTypes
  <2>1. log \in [Node -> LogType]
    BY NewLogEmpty DEF Replication!Init
  <2> QED BY <2>1 DEF VarTypes, Replication!Init, Replication!NoNext, Replication!NoMatch
<1>3. Ledger(term, B, A)
  <2>1. LedgerType(term, B, A)
    BY <1>0, <1>1 DEF LedgerType
  <2>2. Complete(term, B, A)
    BY <1>0 DEF Complete
  <2>3. \A t \in Nat : Booked(term, B, B[t])
    BY <1>0 DEF Booked
  <2>4. \A t \in Nat : \A i \in 1..Len(B[t]) : B[t][i] <= t
    BY <1>0
  <2> QED BY <1>0, <2>1, <2>2, <2>3, <2>4 DEF Ledger
<1>4. ASSUME NEW n \in Node PROVE LogOk(term, B, A, n, log[n])
  <2>1. PICK l : l = log[n]
    OBVIOUS
  <2>2. l \in LogType /\ Whole(l) /\ Full(l) = <<>>
    BY <1>1, <2>1, NewLogEmpty
  <2>3. Booked(term, B, Full(l))
    BY <2>2 DEF Booked
  <2>4. Reached(term, term[n])
    BY <1>1, AllMajority DEF Reached
  <2>5. Acked(term, B, A, n, Full(l))
    BY <1>0 DEF Acked, AckedAt
  <2> QED BY <2>1, <2>2, <2>3, <2>4, <2>5 DEF LogOk
<1>5. ASSUME NEW n \in Node
      PROVE  ApplyOk(B, A, term[n], log[n], chosen, commit[n], applied[n], fsm[n])
  <2>1. PICK l, y : l = log[n] /\ y = chosen
    OBVIOUS
  <2>2. Full(l) = <<>> /\ l.saved = <<>> /\ Len(l.saved) = 0
    BY <1>1, <2>1, NewLogEmpty
  <2>3. y = <<>> /\ y \in Seq(Nat) /\ Len(y) = 0 /\ Len(Full(l)) = 0
    BY <1>1, <2>1, <2>2
  <2>4. Front(y, 0) = <<>>
    BY <2>3 DEF Front
  <2>5. Later(0, 0) = 0
    BY DEF Later
  <2>6. SameTo(Full(l), y, 0)
    BY DEF SameTo
  <2>7. Settled(B, A, 0, 0)
    BY DEF Settled
  <2>8. ApplyOk(B, A, 0, l, y, 0, 0, <<>>)
    BY <2>1, <2>2, <2>3, <2>4, <2>5, <2>6, <2>7 DEF ApplyOk
  <2> QED BY <1>1, <2>1, <2>8
<1>6. ChosenOk(B, A, chosen)
  BY <1>1 DEF ChosenOk
<1> QED BY <1>1, <1>2, <1>3, <1>4, <1>5, <1>6 DEF Core

-----------------------------------------------------------------------------
(* Replication: the steps of the promise *)

\* The beginning of a sequence.
LEMMA FrontTyped ==
  ASSUME NEW w \in Seq(Nat), NEW i \in Nat, i <= Len(w)
  PROVE  /\ Front(w, i) \in Seq(Nat) /\ Len(Front(w, i)) = i
         /\ \A k \in 1..i : Front(w, i)[k] = w[k]
<1>1. 1 \in 1..(Len(w) + 1) /\ i \in 0..Len(w) /\ 1 <= i + 1 /\ i - 1 + 1 = i
  BY EmptySeq
<1>2. /\ SubSeq(w, 1, i) \in Seq(Nat) /\ Len(SubSeq(w, 1, i)) = i - 1 + 1
      /\ \A k \in 1..(i - 1 + 1) : SubSeq(w, 1, i)[k] = w[1 + k - 1]
  BY <1>1, PartOf
<1> QED BY <1>1, <1>2 DEF Front

\* Begins is what ReplicatedLog takes for a prefix.
LEMMA BeginsPrefix ==
  ASSUME NEW x \in Seq(Nat), NEW y \in Seq(Nat), Begins(x, y)
  PROVE  Replication!Promise!IsPrefix(x, y)
<1>1. PICK a \in Nat : a = Len(x) /\ a <= Len(y)
  BY EmptySeq DEF Begins
<1>2. SameTo(x, y, a) /\ a <= Len(x)
  BY <1>1 DEF Begins
<1>3. Front(x, a) = Front(y, a)
  BY <1>1, <1>2, SameFront
<1> QED BY <1>1, <1>3 DEF Front, Replication!Promise!IsPrefix

\* Of two beginnings of a sequence the shorter begins the longer.
LEMMA FrontBegins ==
  ASSUME NEW w \in Seq(Nat), NEW i \in Nat, NEW j \in Nat, i <= j, j <= Len(w)
  PROVE  Begins(Front(w, i), Front(w, j))
<1>1. i <= Len(w)
  BY EmptySeq
<1>2. Len(Front(w, i)) = i /\ \A k \in 1..i : Front(w, i)[k] = w[k]
  BY <1>1, FrontTyped
<1>3. Len(Front(w, j)) = j /\ \A k \in 1..j : Front(w, j)[k] = w[k]
  BY FrontTyped
<1>4. \A k \in 1..i : k \in 1..j
  OBVIOUS
<1> QED BY <1>2, <1>3, <1>4 DEF Begins, SameTo

\* A node goes from one beginning of the chosen entries to another.
Turns(n, i, j) ==
  /\ chosen \in Seq(Nat) /\ i <= Len(chosen) /\ j <= Len(chosen)
  /\ fsm[n] = Front(chosen, i)
  /\ fsm' = [fsm EXCEPT ![n] = Front(chosen, j)]
  /\ fsm'[n] = Front(chosen, j)
  /\ UNCHANGED <<chosen, harm>>

\* A node learns or forgets.
LEMMA PromiseTurns ==
  ASSUME NEW n \in Node, NEW i \in Nat, NEW j \in Nat, Turns(n, i, j)
  PROVE  Replication!Promise!Next
<1>1. PICK w \in Seq(Nat) : w = chosen
  BY DEF Turns
<1>2. i <= Len(w) /\ j <= Len(w) /\ fsm[n] = Front(w, i) /\ fsm'[n] = Front(w, j)
  BY <1>1 DEF Turns
<1>3. fsm' = [fsm EXCEPT ![n] = fsm'[n]] /\ UNCHANGED <<chosen, harm>>
  BY DEF Turns
<1>4. /\ Front(w, i) \in Seq(Nat) /\ Len(Front(w, i)) = i
      /\ Front(w, j) \in Seq(Nat) /\ Len(Front(w, j)) = j
  BY <1>2, FrontTyped
<1>5. CASE j <= i
  <2>1. Replication!Promise!IsPrefix(Front(w, j), Front(w, i))
    BY <1>2, <1>4, <1>5, FrontBegins, BeginsPrefix
  <2>2. Replication!Promise!Forget(n)
    BY <1>2, <1>3, <2>1 DEF Replication!Promise!Forget
  <2> QED BY <2>2 DEF Replication!Promise!Next
<1>6. CASE i < j
  <2>1. Replication!Promise!IsPrefix(Front(w, i), Front(w, j)) /\ Front(w, i) # Front(w, j)
    BY <1>2, <1>4, <1>6, FrontBegins, BeginsPrefix
  <2>2. Replication!Promise!IsPrefix(Front(w, j), w)
    <3>1. PICK h \in Nat : h = Len(w)
      BY EmptySeq
    <3>2. Begins(Front(w, j), w)
      <4>1. Len(Front(w, j)) = j /\ \A k \in 1..j : Front(w, j)[k] = w[k]
        BY <1>2, FrontTyped
      <4> QED BY <1>2, <4>1 DEF Begins, SameTo
    <3> QED BY <1>4, <3>2, BeginsPrefix
  <2>3. Replication!Promise!Learn(n)
    BY <1>1, <1>2, <1>3, <2>1, <2>2 DEF Replication!Promise!Learn, Replication!Promise!IsStrictPrefix
  <2> QED BY <2>3 DEF Replication!Promise!Next
<1> QED BY <1>5, <1>6

\* Further entries are chosen.
LEMMA PromiseChooses ==
  ASSUME chosen \in Seq(Nat), chosen' \in Seq(Nat), chosen' # chosen,
         Begins(chosen, chosen'), UNCHANGED <<fsm, harm>>
  PROVE  Replication!Promise!Next
<1>1. Replication!Promise!IsPrefix(chosen, chosen')
  BY BeginsPrefix
<1>2. Replication!Promise!Choose
  BY <1>1 DEF Replication!Promise!Choose, Replication!Promise!IsStrictPrefix
<1> QED BY <1>2 DEF Replication!Promise!Next

\* How much of the chosen entries a node has applied.
LEMMA AppliedFront ==
  ASSUME NEW B, NEW A, Core(B, A), NEW n \in Node
  PROVE  /\ chosen \in Seq(Nat)
         /\ \E i \in Nat : i <= Len(chosen) /\ fsm[n] = Front(chosen, i)
         /\ \E j \in Nat : j <= Len(chosen) /\ log[n].saved = Front(chosen, j)
<1>1. chosen \in Seq(Nat) /\ log[n] \in LogType
      /\ ApplyOk(B, A, term[n], log[n], chosen, commit[n], applied[n], fsm[n])
  BY DEF Core, ChosenOk, LogOk
<1>2. PICK d \in Nat : d = Len(log[n].saved)
  BY <1>1, EmptySeq DEF LogType
<1>3. PICK a \in Nat, c \in Nat : a = applied[n] /\ c = commit[n]
  BY <1>1 DEF ApplyOk
<1>4. /\ a <= c /\ c <= Len(chosen) /\ d <= Len(chosen) /\ log[n].saved = Front(chosen, d)
      /\ fsm[n] = Front(chosen, Later(a, d))
  BY <1>1, <1>2, <1>3 DEF ApplyOk
<1>5. Later(a, d) \in Nat /\ Later(a, d) <= Len(chosen)
  BY <1>1, <1>4, EmptySeq DEF Later
<1> QED BY <1>1, <1>4, <1>5

-----------------------------------------------------------------------------
(* Replication: the invariant and the theorem *)

\* While nothing has done harm there is a record of the terms and of the
\* acknowledgements that accounts for the state.
RepInv == harm = {} => \E B, A : Core(B, A)

\* What a step that does no harm does to the promise.
StepKept == (\E B, A : Core(B, A)') /\ [Replication!Promise!Next]_(Replication!Promise!vars)

\* A step that changes nothing the promise speaks of.
LEMMA PromiseRests ==
  ASSUME UNCHANGED <<chosen, fsm, harm>>
  PROVE  [Replication!Promise!Next]_(Replication!Promise!vars)
BY DEF Replication!Promise!vars

\* A step of a goroutine that replicates, or of the handler at its peer.
LEMMA KeptByRPC ==
  ASSUME NEW B, NEW A, Core(B, A), NEW r \in rpc, harm = {}, harm' = {},
         Replication!RPCStep(r) \/ Replication!LoseRPC(r)
  PROVE  StepKept
<1>1. CASE Replication!replicateTo(r)
  <2>1. Core(B, A)'
    BY <1>1, CoreReplicateTo
  <2>2. UNCHANGED <<chosen, fsm, harm>>
    BY <1>1 DEF Replication!replicateTo, Replication!ReadNextIndex, Replication!ReadFirstIndex,
       Replication!ReadTermAt, Replication!ReadLastIndex, Replication!ReadRange,
       Replication!Goes
  <2> QED BY <2>1, <2>2, PromiseRests DEF StepKept
<1>2. CASE Replication!sendSnapshot(r)
  <2>1. Core(B, A)'
    BY <1>2, CoreSendSnapshot
  <2>2. UNCHANGED <<chosen, fsm, harm>>
    BY <1>2 DEF Replication!sendSnapshot
  <2> QED BY <2>1, <2>2, PromiseRests DEF StepKept
<1>3. CASE Replication!HandleAppendEntries(r)
  <2>1. UNCHANGED fsm
    BY <1>3 DEF Replication!HandleAppendEntries
  <2>2. CASE r.term < term[r.to]
    <3>1. Core(B, A)'
      BY <1>3, <2>2, CoreRefuseOld
    <3>2. UNCHANGED <<chosen, harm>>
      BY <1>3, <2>2 DEF Replication!HandleAppendEntries
    <3> QED BY <2>1, <3>1, <3>2, PromiseRests DEF StepKept
  <2>3. CASE ~ (r.term < term[r.to]) /\ ~ Replication!Consistent(log[r.to], r)
    <3>1. Core(B, A)'
      BY <1>3, <2>3, CoreRefuseConflict
    <3>2. UNCHANGED <<chosen, harm>>
      BY <1>3, <2>3 DEF Replication!HandleAppendEntries
    <3> QED BY <2>1, <3>1, <3>2, PromiseRests DEF StepKept
  <2>4. CASE ~ (r.term < term[r.to]) /\ Replication!Consistent(log[r.to], r)
    <3>1. (\E A1 : Core(B, A1)') /\ chosen' = chosen
      BY <1>3, <2>4, CoreAppend
    <3>2. UNCHANGED <<chosen, harm>>
      BY <3>1
    <3> QED BY <2>1, <3>1, <3>2, PromiseRests DEF StepKept
  <2> QED BY <2>2, <2>3, <2>4
<1>4. CASE Replication!HandleInstallSnapshot(r)
  <2>1. r.term < term[r.to]
    BY <1>4 DEF Replication!HandleInstallSnapshot
  <2>2. Core(B, A)'
    BY <1>4, <2>1, CoreRefuseSnapshot
  <2>3. UNCHANGED <<chosen, fsm, harm>>
    BY <1>4, <2>1 DEF Replication!HandleInstallSnapshot
  <2> QED BY <2>2, <2>3, PromiseRests DEF StepKept
<1>5. CASE Replication!ApplyReply(r)
  <2>1. Core(B, A)' /\ (chosen' = chosen \/ Begins(chosen, chosen'))
    BY <1>5, CoreApplyReply
  <2>2. UNCHANGED <<fsm, harm>>
    BY <1>5 DEF Replication!ApplyReply
  <2>3. CASE chosen' = chosen
    BY <2>1, <2>2, <2>3, PromiseRests DEF StepKept
  <2>4. CASE chosen' # chosen
    <3>1. chosen \in Seq(Nat) /\ chosen' \in Seq(Nat)
      BY <2>1 DEF Core, ChosenOk
    <3>2. Replication!Promise!Next
      BY <2>1, <2>2, <2>4, <3>1, PromiseChooses
    <3> QED BY <2>1, <3>2 DEF StepKept
  <2> QED BY <2>3, <2>4
<1>6. CASE Replication!ApplyInstalled(r)
  <2>1. Core(B, A)'
    BY <1>6, CoreApplyInstalled
  <2>2. UNCHANGED <<chosen, fsm, harm>>
    BY <1>6 DEF Replication!ApplyInstalled
  <2> QED BY <2>1, <2>2, PromiseRests DEF StepKept
<1>7. CASE Replication!LoseRPC(r)
  <2>1. Core(B, A)'
    BY <1>7, CoreLoseRPC
  <2>2. UNCHANGED <<chosen, fsm, harm>>
    BY <1>7 DEF Replication!LoseRPC
  <2> QED BY <2>1, <2>2, PromiseRests DEF StepKept
<1> QED BY <1>1, <1>2, <1>3, <1>4, <1>5, <1>6, <1>7 DEF Replication!RPCStep

\* A step of a leader.
LEMMA KeptByLeader ==
  ASSUME NEW B, NEW A, Core(B, A), NEW n \in Node,
         \/ \E Q \in Replication!Quorum : Replication!BecomeLeader(n, Q)
         \/ \E k \in 1..2 : Replication!processBatch(n, k)
         \/ \E p \in Node : Replication!sendHeartbeats(n, p)
  PROVE  StepKept
<1>1. ASSUME NEW Q \in Replication!Quorum, Replication!BecomeLeader(n, Q) PROVE StepKept
  <2>1. \E B1, A1 : Core(B1, A1)'
    BY <1>1, CoreElection
  <2>2. UNCHANGED <<chosen, fsm, harm>>
    BY <1>1 DEF Replication!BecomeLeader
  <2> QED BY <2>1, <2>2, PromiseRests DEF StepKept
<1>2. ASSUME NEW k \in 1..2, Replication!processBatch(n, k) PROVE StepKept
  <2>1. \E B1, A1 : Core(B1, A1)'
    BY <1>2, CoreBatch
  <2>2. UNCHANGED <<chosen, fsm, harm>>
    BY <1>2 DEF Replication!processBatch
  <2> QED BY <2>1, <2>2, PromiseRests DEF StepKept
<1>3. ASSUME NEW p \in Node, Replication!sendHeartbeats(n, p) PROVE StepKept
  <2>1. Core(B, A)'
    BY <1>3, CoreHeartbeats
  <2>2. UNCHANGED <<chosen, fsm, harm>>
    BY <1>3 DEF Replication!sendHeartbeats
  <2> QED BY <2>1, <2>2, PromiseRests DEF StepKept
<1> QED BY <1>1, <1>2, <1>3

\* A step of the apply goroutine, a compaction, or the end of a process.
LEMMA KeptByNode ==
  ASSUME NEW B, NEW A, Core(B, A), NEW n \in Node, harm = {}, harm' = {},
         \/ Replication!applyCommitted(n) \/ Replication!maybeCompactLog(n)
         \/ Replication!Crash(n)
  PROVE  StepKept
<1>0. chosen \in Seq(Nat) /\ fsm \in [Node -> Seq(Nat)]
  BY DEF Core, VarTypes, ChosenOk
<1>1. PICK i \in Nat : i <= Len(chosen) /\ fsm[n] = Front(chosen, i)
  BY AppliedFront
<1>2. CASE Replication!applyCommitted(n)
  <2>1. Core(B, A)'
    BY <1>2, CoreApply
  <2>2. UNCHANGED <<chosen, harm>>
    BY <1>2 DEF Replication!applyCommitted
  <2>3. PICK j \in Nat : j <= Len(chosen) /\ fsm'[n] = Front(chosen, j)
    <3>1. \E j \in Nat : j <= Len(chosen') /\ fsm'[n] = Front(chosen', j)
      <4>1. ApplyOk(B, A, term[n], log[n], chosen, commit[n], applied[n], fsm[n])'
        BY <2>1 DEF Core
      <4>2. PICK l, y, c, a, f : l = log'[n] /\ y = chosen' /\ c = commit'[n]
                                 /\ a = applied'[n] /\ f = fsm'[n]
        OBVIOUS
      <4>3. \E u : ApplyOk(B, A, u, l, y, c, a, f)
        BY <4>1, <4>2 DEF ApplyOk
      <4>4. y \in Seq(Nat) /\ l \in LogType
        BY <2>1, <4>2 DEF Core, ChosenOk, LogOk
      <4>5. PICK d \in Nat : d = Len(l.saved)
        BY <4>4, EmptySeq DEF LogType
      <4>6. /\ c \in Nat /\ a \in Nat /\ a <= c /\ c <= Len(y) /\ d <= Len(y)
            /\ f = Front(y, Later(a, d))
        BY <4>3, <4>5 DEF ApplyOk
      <4>7. Later(a, d) \in Nat /\ Later(a, d) <= Len(y)
        BY <4>4, <4>6, EmptySeq DEF Later
      <4> QED BY <4>2, <4>6, <4>7
    <3> QED BY <2>2, <3>1
  <2>4. fsm' = [fsm EXCEPT ![n] = Front(chosen, j)]
    <3>1. PICK g : fsm' = [fsm EXCEPT ![n] = g]
      BY <1>2 DEF Replication!applyCommitted
    <3> QED BY <1>0, <2>3, <3>1
  <2>5. Turns(n, i, j)
    BY <1>0, <1>1, <2>2, <2>3, <2>4 DEF Turns
  <2> QED BY <2>1, <2>5, PromiseTurns DEF StepKept
<1>3. CASE Replication!maybeCompactLog(n)
  <2>1. Core(B, A)'
    BY <1>3, CoreCompact
  <2>2. UNCHANGED <<chosen, fsm, harm>>
    BY <1>3 DEF Replication!maybeCompactLog
  <2> QED BY <2>1, <2>2, PromiseRests DEF StepKept
<1>4. CASE Replication!Crash(n)
  <2>1. Core(B, A)' /\ fsm' = [fsm EXCEPT ![n] = log[n].saved] /\ UNCHANGED <<chosen, harm>>
    BY <1>4, CoreCrash DEF Replication!Crash
  <2>2. PICK j \in Nat : j <= Len(chosen) /\ log[n].saved = Front(chosen, j)
    BY AppliedFront
  <2>3. Turns(n, i, j)
    BY <1>0, <1>1, <2>1, <2>2 DEF Turns
  <2> QED BY <2>1, <2>3, PromiseTurns DEF StepKept
<1> QED BY <1>2, <1>3, <1>4

\* A harm is not undone.
LEMMA HarmStays ==
  ASSUME Replication!Next
  PROVE  harm \subseteq harm'
<1>1. \/ harm' = harm \/ \E h : harm' = harm \cup {h}
  BY Zenon DEF Replication!Next, Replication!BecomeLeader, Replication!LeadUnwon,
     Replication!processBatch, Replication!sendHeartbeats, Replication!RPCStep,
     Replication!replicateTo, Replication!ReadNextIndex, Replication!ReadFirstIndex,
     Replication!ReadTermAt, Replication!ReadLastIndex, Replication!ReadRange,
     Replication!sendSnapshot, Replication!HandleAppendEntries,
     Replication!HandleInstallSnapshot, Replication!ApplyReply, Replication!ApplyInstalled,
     Replication!Counted, Replication!LoseRPC, Replication!applyCommitted,
     Replication!maybeCompactLog, Replication!Crash
<1> QED BY <1>1

\* node.go and log.go keep the promise of ReplicatedLog, whatever the members and
\* however often RPCs are lost, late or repeated, leaders change, nodes crash and
\* logs are compacted: what is chosen stays chosen, and a node applies nothing
\* else, until one of the things happens that harm records, each of them
\* something node.go or log.go does: a term led that was not won, entries sent that
\* do not follow what they are said to follow, a reply of an earlier leadership
\* that moves MatchIndex, a snapshot installed, a compaction that empties a log,
\* an AppendEntries that reaches back behind one.
THEOREM PromiseKept == Replication!Spec => KeepsPromise
<1>1. Replication!Init => RepInv /\ Replication!Promise!Init
  <2> SUFFICES ASSUME Replication!Init PROVE RepInv /\ Replication!Promise!Init
    OBVIOUS
  <2>1. PICK B, A : Blank(B, A)
    BY DEF Blank
  <2>2. Core(B, A)
    BY <2>1, CoreInit
  <2>3. harm = {} /\ chosen = <<>> /\ fsm = [n \in Node |-> <<>>]
    BY DEF Replication!Init
  <2> QED BY <2>2, <2>3 DEF RepInv, Replication!Promise!Init
<1>2. RepInv /\ [Replication!Next]_(Replication!vars)
        => RepInv' /\ [Replication!Promise!Next]_(Replication!Promise!vars)
  <2> SUFFICES ASSUME RepInv, [Replication!Next]_(Replication!vars)
               PROVE  RepInv' /\ [Replication!Promise!Next]_(Replication!Promise!vars)
    OBVIOUS
  <2>1. CASE UNCHANGED Replication!vars
    <3>1. UNCHANGED <<term, leads, log, commit, applied, fsm, next, match, rpc, chosen, harm>>
      BY <2>1 DEF Replication!vars
    <3>2. RepInv'
      BY <3>1 DEF RepInv, Core, VarTypes
    <3> QED BY <3>1, <3>2, PromiseRests
  <2>2. CASE Replication!Next /\ harm' # {}
    <3>1. Replication!Promise!Next
      BY <2>2 DEF Replication!Promise!Next, Replication!Promise!Lose
    <3>2. RepInv'
      BY <2>2 DEF RepInv
    <3> QED BY <3>1, <3>2
  <2>3. CASE Replication!Next /\ harm' = {}
    <3>1. harm = {}
      BY <2>3, HarmStays
    <3>2. PICK B, A : Core(B, A)
      BY <3>1 DEF RepInv
    <3>3. ASSUME NEW n \in Node, Replication!LeadUnwon(n) PROVE FALSE
      BY <2>3, <3>3 DEF Replication!LeadUnwon
    <3>4. StepKept
      BY <2>3, <3>1, <3>2, <3>3, KeptByRPC, KeptByLeader, KeptByNode DEF Replication!Next
    <3> QED BY <3>1, <3>4 DEF StepKept, RepInv
  <2> QED BY <2>1, <2>2, <2>3
<1> QED BY <1>1, <1>2, PTL DEF Replication!Spec, KeepsPromise, Replication!KeepsPromise,
           Replication!Promise!Spec

-----------------------------------------------------------------------------
(* Tokens: the inductive invariant *)

LeftType ==
  [ops : SUBSET Ops, limits : Nat, failures : Nat, creates : Nat, expiries : Nat]

\* Only a token that was created has expired, and one that can.
ExpiredExpires == \A t \in expired : t \in Known /\ table[t].expires

\* The copy a request works with: none, the legacy key's, or that of a token
\* that was stored, with the role it was stored with.
CopyTrue(r) ==
  \/ req[r].as = NoToken
  \/ req[r].as = Legacy /\ apiKey
  \/ /\ req[r].as.id \in Known
     /\ req[r].as.role = table[req[r].as.id].role

\* The token of a request that came too late stays ended, and when its row was
\* read all the same it is because it has expired.
EndedStays(r) ==
  req[r].ended =>
    /\ req[r].cred \in Known
    /\ Ended(req[r].cred)
    /\ req[r].pc = "judge" =>
         \/ req[r].as = NoToken
         \/ /\ req[r].as.id = req[r].cred /\ req[r].as.expires
            /\ req[r].cred \in expired

\* Until it is done a request has no answer.
Unanswered(r) == req[r].pc # "done" => req[r].answer = "none"

TokensInv ==
  /\ TypeOK
  /\ left \in LeftType
  /\ ExpiredExpires
  /\ \A r \in Request : CopyTrue(r) /\ EndedStays(r) /\ Unanswered(r)
  /\ EndedRefused
  /\ ManagerRemains

-----------------------------------------------------------------------------
(* Tokens: types and what a step changes *)

RowType == [row : {"unused", "stored", "deleted"}, role : Roles,
            expires : BOOLEAN, revoked : BOOLEAN]

CopyType == [id : Token \cup {"nobody", "legacy"}, role : Roles, expires : BOOLEAN]

Answers == {"none", "ok", "empty", "created", "bad request", "unauthorized", "forbidden",
            "not found", "too many", "error"}

RequestType == [pc : {"idle", "look", "judge", "handle", "count", "done"},
                cred : Credentials, op : Ops, target : Token \cup {"nobody"},
                as : CopyType, ended : BOOLEAN, answer : Answers]

\* The type invariant of the tokens, with the named record sets.
LEMMA TokenTypes ==
  TypeOK <=> /\ table \in [Token -> RowType]
             /\ apiKey \in BOOLEAN
             /\ req \in [Request -> RequestType]
             /\ expired \subseteq Token
             /\ late \in BOOLEAN
BY DEF TypeOK, RowType, RequestType, CopyType, Answers

\* The copies that are not of a stored token.
LEMMA FixedCopies ==
  /\ NoToken \in CopyType /\ NoToken.id = "nobody" /\ NoToken.role = "viewer"
  /\ Legacy \in CopyType /\ Legacy.id = "legacy" /\ Legacy.role = "admin"
BY DEF NoToken, Legacy, CopyType, Roles

\* A request is answered: only its own record changes, and the copy is dropped.
LEMMA Answered ==
  ASSUME TypeOK, NEW r \in Request, NEW a \in Answers, Answer(r, a)
  PROVE  /\ req' \in [Request -> RequestType]
         /\ \A s \in Request : s # r => req'[s] = req[s]
         /\ req'[r].pc = "done" /\ req'[r].answer = a /\ req'[r].as = NoToken
         /\ req'[r].cred = req[r].cred /\ req'[r].op = req[r].op
         /\ req'[r].ended = req[r].ended
<1>1. req \in [Request -> RequestType]
  BY TokenTypes
<1>2. PICK q : q = [req[r] EXCEPT !.pc = "done", !.answer = a, !.as = NoToken]
  OBVIOUS
<1>3. req' = [req EXCEPT ![r] = q]
  BY <1>1, <1>2 DEF Answer, RequestType
<1>4. /\ q \in RequestType
      /\ q.pc = "done" /\ q.answer = a /\ q.as = NoToken
      /\ q.cred = req[r].cred /\ q.op = req[r].op /\ q.ended = req[r].ended
  BY <1>1, <1>2, FixedCopies DEF RequestType
<1> QED BY <1>1, <1>3, <1>4

\* What a budget pays for leaves its form.
LEMMA Spent ==
  ASSUME left \in LeftType,
         NEW what \in {"limits", "failures", "creates", "expiries"}, Spend(what)
  PROVE  left' \in LeftType
BY DEF Spend, LeftType

\* What every step leaves of the table and of time: a token that was created
\* stays created, with its role and its expiry, and one that has ended stays so.
Grown ==
  /\ table' \in [Token -> RowType]
  /\ apiKey' = apiKey
  /\ expired \subseteq expired' /\ expired' \subseteq Token
  /\ \A t \in Token :
       table[t].row # "unused" =>
         /\ table'[t].row # "unused"
         /\ table'[t].role = table[t].role
         /\ table'[t].expires = table[t].expires
         /\ table[t].revoked => table'[t].revoked
         /\ table[t].row # "stored" => table'[t].row # "stored"

\* What stays of a token that is known, as the table grows.
LEMMA GrownKnown ==
  ASSUME Grown, NEW t \in Known
  PROVE  /\ t \in Known' /\ t \in Token
         /\ table'[t].role = table[t].role
         /\ table'[t].expires = table[t].expires
         /\ Ended(t) => Ended(t)'
BY DEF Grown, Known, Ended, Rows

\* Nothing happens to the tokens.
LEMMA GrownSame ==
  ASSUME TypeOK, UNCHANGED <<table, apiKey, expired>>
  PROVE  Grown
BY TokenTypes DEF Grown

\* A token expires.
LEMMA GrownExpire ==
  ASSUME TypeOK, NEW t \in Token, Expire(t)
  PROVE  Grown
BY TokenTypes DEF Grown, Expire

\* A row of the table is written: what it must keep for the table to grow.
LEMMA GrownRow ==
  ASSUME TypeOK, NEW t \in Token, NEW new \in RowType,
         table' = [table EXCEPT ![t] = new], UNCHANGED <<apiKey, expired>>,
         table[t].row # "unused" =>
           /\ new.row # "unused" /\ new.role = table[t].role
           /\ new.expires = table[t].expires
           /\ table[t].revoked => new.revoked
           /\ table[t].row # "stored" => new.row # "stored"
  PROVE  Grown
BY TokenTypes DEF Grown

\* A token is created under a name that was never used.
LEMMA GrownCreate ==
  ASSUME TypeOK, NEW t \in GenerateToken, NEW role \in Roles, NEW expires \in BOOLEAN,
         CreateToken(t, role, expires), UNCHANGED <<apiKey, expired>>
  PROVE  Grown
<1>1. PICK new : new = [row |-> "stored", role |-> role, expires |-> expires,
                        revoked |-> FALSE]
  OBVIOUS
<1>2. t \in Token /\ table[t].row = "unused"
  BY DEF GenerateToken, Known
<1>3. new \in RowType
  BY <1>1 DEF RowType
<1>4. table' = [table EXCEPT ![t] = new]
  BY <1>1 DEF CreateToken
<1> QED BY <1>2, <1>3, <1>4, GrownRow

\* RevokeToken ends the token, and writes no other row.
LEMMA GrownRevoke ==
  ASSUME TypeOK, NEW t, table' = RevokeToken(t).table,
         UNCHANGED <<apiKey, expired>>
  PROVE  /\ Grown
         /\ \A u \in Token : u # t => table'[u] = table[u]
<1>1. table \in [Token -> RowType]
  BY TokenTypes
<1>2. PICK hit \in BOOLEAN : hit = (t \in Rows /\ ~ table[t].revoked)
  OBVIOUS
<1>3. table' = [table EXCEPT ![t].revoked = hit \/ @]
  BY <1>2 DEF RevokeToken
<1>a. CASE t \notin Token
  <2>1. table' = table
    BY <1>1, <1>3, <1>a
  <2> QED BY <2>1, GrownSame
<1>b. CASE t \in Token
  <2>4. PICK new : new = [table[t] EXCEPT !.revoked = hit \/ @]
    OBVIOUS
  <2>5. table[t] \in RowType
    BY <1>1, <1>b
  <2>6. /\ new \in RowType /\ new.row = table[t].row /\ new.role = table[t].role
        /\ new.expires = table[t].expires /\ new.revoked = (hit \/ table[t].revoked)
    BY <2>4, <2>5 DEF RowType
  <2>7. table' = [table EXCEPT ![t] = new]
    BY <1>1, <1>b, <1>3, <2>4
  <2> QED BY <1>b, <1>1, <2>6, <2>7, GrownRow
<1> QED BY <1>a, <1>b

\* DeleteToken ends the token, and writes no other row.
LEMMA GrownDelete ==
  ASSUME TypeOK, NEW t, DeleteToken(t), UNCHANGED <<apiKey, expired>>
  PROVE  /\ Grown
         /\ \A u \in Token : u # t => table'[u] = table[u]
<1>1. table \in [Token -> RowType]
  BY TokenTypes
<1>a. CASE t \notin Token
  <2>1. table' = table
    BY <1>1, <1>a DEF DeleteToken
  <2> QED BY <2>1, GrownSame
<1>b. CASE t \in Token
  <2>2. PICK new : new = [table[t] EXCEPT !.row = "deleted"]
    OBVIOUS
  <2>3. table[t] \in RowType
    BY <1>1, <1>b
  <2>4. /\ new \in RowType /\ new.row = "deleted" /\ new.role = table[t].role
        /\ new.expires = table[t].expires /\ new.revoked = table[t].revoked
    BY <2>2, <2>3 DEF RowType
  <2>5. table' = [table EXCEPT ![t] = new]
    BY <1>1, <1>b, <2>2 DEF DeleteToken
  <2> QED BY <1>b, <1>1, <2>4, <2>5, GrownRow
<1> QED BY <1>a, <1>b

-----------------------------------------------------------------------------
(* Tokens: the requests *)

\* EndedRefused, for one request.
Refused(r) ==
  req[r].ended
      => ~ (req[r].pc \in {"handle", "count"}
            \/ (req[r].op # "public" /\ req[r].answer \in {"ok", "created"}))

Fine(r) == CopyTrue(r) /\ EndedStays(r) /\ Unanswered(r) /\ Refused(r)

\* The inductive invariant, request by request.
LEMMA TokensParts ==
  TokensInv <=> /\ TypeOK /\ left \in LeftType /\ ExpiredExpires
                /\ \A r \in Request : Fine(r)
                /\ ManagerRemains
BY DEF TokensInv, Fine, Refused, EndedRefused

\* A request that the step does not touch stays as true as it was.
LEMMA FineKept ==
  ASSUME TypeOK, Grown, NEW s \in Request, req'[s] = req[s], Fine(s)
  PROVE  Fine(s)'
<1>1. CopyTrue(s)'
  <2>1. CASE req[s].as = NoToken
    BY <2>1 DEF CopyTrue, NoToken
  <2>2. CASE req[s].as = Legacy /\ apiKey
    BY <2>2 DEF CopyTrue, Legacy, Grown
  <2>3. CASE req[s].as.id \in Known /\ req[s].as.role = table[req[s].as.id].role
    BY <2>3, GrownKnown DEF CopyTrue
  <2> QED BY <2>1, <2>2, <2>3 DEF Fine, CopyTrue
<1>2. EndedStays(s)'
  <2>1. SUFFICES ASSUME req[s].ended PROVE EndedStays(s)'
    BY DEF EndedStays
  <2>2. /\ req[s].cred \in Known /\ Ended(req[s].cred)
        /\ req[s].pc = "judge" =>
             \/ req[s].as = NoToken
             \/ /\ req[s].as.id = req[s].cred /\ req[s].as.expires
                /\ req[s].cred \in expired
    BY <2>1 DEF Fine, EndedStays
  <2>3. req[s].cred \in Known' /\ Ended(req[s].cred)'
    BY <2>2, GrownKnown
  <2>4. expired \subseteq expired'
    BY DEF Grown
  <2> QED BY <2>2, <2>3, <2>4 DEF EndedStays, NoToken
<1> QED BY <1>1, <1>2 DEF Fine, Unanswered, Refused

\* A request that is answered.
LEMMA FineAnswered ==
  ASSUME TypeOK, Grown, NEW r \in Request, NEW a \in Answers, Answer(r, a), Fine(r),
         \/ a \notin {"ok", "created"}
         \/ req[r].pc \in {"handle", "count"}
  PROVE  Fine(r)'
<1>1. /\ req'[r].pc = "done" /\ req'[r].answer = a /\ req'[r].as = NoToken
      /\ req'[r].cred = req[r].cred /\ req'[r].op = req[r].op
      /\ req'[r].ended = req[r].ended
  BY Answered
<1>2. CopyTrue(r)' /\ Unanswered(r)'
  BY <1>1 DEF CopyTrue, Unanswered, NoToken
<1>3. EndedStays(r)'
  <2>1. SUFFICES ASSUME req[r].ended PROVE EndedStays(r)'
    BY <1>1 DEF EndedStays
  <2>2. req[r].cred \in Known /\ Ended(req[r].cred)
    BY <2>1 DEF Fine, EndedStays
  <2> QED BY <1>1, <2>2, GrownKnown DEF EndedStays
<1>4. Refused(r)'
  BY <1>1 DEF Fine, Refused
<1> QED BY <1>2, <1>3, <1>4 DEF Fine

\* What a step makes of the requests when it answers one.
LEMMA AnsweredStep ==
  ASSUME TypeOK, Grown, NEW r \in Request, NEW a \in Answers, Answer(r, a),
         \A s \in Request : Fine(s),
         \/ a \notin {"ok", "created"}
         \/ req[r].pc \in {"handle", "count"}
  PROVE  req' \in [Request -> RequestType] /\ \A s \in Request : Fine(s)'
<1>1. req' \in [Request -> RequestType] /\ \A s \in Request : s # r => req'[s] = req[s]
  BY Answered
<1>2. Fine(r)'
  BY FineAnswered
<1>3. \A s \in Request : s # r => Fine(s)'
  BY <1>1, FineKept
<1> QED BY <1>1, <1>2, <1>3

\* And when it writes another record of one.
LEMMA RecordStep ==
  ASSUME TypeOK, Grown, NEW r \in Request, NEW q \in RequestType,
         req' = [req EXCEPT ![r] = q],
         \A s \in Request : Fine(s),
         req' \in [Request -> RequestType] /\ req'[r] = q => Fine(r)'
  PROVE  req' \in [Request -> RequestType] /\ \A s \in Request : Fine(s)'
<1>1. req \in [Request -> RequestType]
  BY TokenTypes
<1>2. /\ req' \in [Request -> RequestType] /\ req'[r] = q
      /\ \A s \in Request : s # r => req'[s] = req[s]
  BY <1>1
<1>3. \A s \in Request : s # r => Fine(s)'
  BY <1>2, FineKept
<1> QED BY <1>2, <1>3

\* What the steps of the requests establish, but for the managers.
RequestStep ==
  /\ Grown
  /\ req' \in [Request -> RequestType] /\ (\A s \in Request : Fine(s)')
  /\ left' \in LeftType
  /\ late' \in BOOLEAN

\* TokenTypes, of the state after a step.
LEMMA TypesLater ==
  /\ table' \in [Token -> RowType]
  /\ apiKey' \in BOOLEAN
  /\ req' \in [Request -> RequestType]
  /\ expired' \subseteq Token
  /\ late' \in BOOLEAN
  => TypeOK'
BY DEF TypeOK, RowType, RequestType, CopyType, Answers

\* TokensParts, of the state after a step.
LEMMA PartsLater ==
  /\ TypeOK' /\ left' \in LeftType /\ ExpiredExpires'
  /\ (\A r \in Request : Fine(r)')
  /\ ManagerRemains'
  => TokensInv'
BY DEF TokensInv, Fine, Refused, EndedRefused

\* A request arrives, with a token that may have ended.
LEMMA ArriveStep ==
  ASSUME TokensInv, NEW r \in Request, Arrive(r)
  PROVE  RequestStep
<1>1. /\ TypeOK /\ left \in LeftType /\ (\A s \in Request : Fine(s))
      /\ req[r] \in RequestType /\ req[r].pc = "idle"
      /\ late \in BOOLEAN
  BY TokensParts, TokenTypes DEF Arrive
<1>2. Grown
  BY <1>1, GrownSame, SMTT(30) DEF Arrive
<1>3. PICK cred \in Known \cup {"none", "legacy", "unknown"}, op \in left.ops,
           target \in Known \cup {"nobody"} :
        /\ target \in Token <=> op \in {"get", "revoke", "delete"}
        /\ LET new == [req[r] EXCEPT !.cred = cred, !.op = op, !.target = target,
                                     !.ended = cred \in Token /\ Ended(cred)] IN
           \/ /\ req' = [req EXCEPT ![r] = [new EXCEPT !.pc = "done", !.answer = "too many"]]
              /\ Spend("limits")
           \/ /\ op = "public"
              /\ req' = [req EXCEPT ![r] = [new EXCEPT !.pc = "done", !.answer = "ok"]]
              /\ UNCHANGED left
           \/ /\ op # "public"
              /\ req' = [req EXCEPT ![r] = [new EXCEPT !.pc = "look"]]
              /\ UNCHANGED left
  BY Zenon DEF Arrive
<1>4. PICK late0 \in BOOLEAN : late0 = (cred \in Token /\ Ended(cred))
  OBVIOUS
<1>5. PICK new : new = [req[r] EXCEPT !.cred = cred, !.op = op, !.target = target,
                                      !.ended = late0]
  OBVIOUS
<1>6. cred \in Credentials /\ op \in Ops /\ target \in Token \cup {"nobody"}
  BY <1>1, <1>3 DEF Known, Credentials, LeftType
<1>7. /\ new \in RequestType /\ new.pc = "idle" /\ new.as = req[r].as
      /\ new.cred = cred /\ new.op = op /\ new.ended = late0 /\ new.answer = req[r].answer
  BY <1>1, <1>5, <1>6 DEF RequestType
<1>8. ASSUME NEW pc \in {"look", "done"}, NEW a \in Answers,
             \/ pc = "done" /\ a = "too many"
             \/ pc = "done" /\ a = "ok" /\ op = "public"
             \/ pc = "look" /\ a = new.answer,
             req' = [req EXCEPT ![r] = [new EXCEPT !.pc = pc, !.answer = a]]
      PROVE  req' \in [Request -> RequestType] /\ (\A s \in Request : Fine(s)')
  <2>1. PICK q : q = [new EXCEPT !.pc = pc, !.answer = a]
    OBVIOUS
  <2>2. /\ q \in RequestType /\ q.pc = pc /\ q.answer = a /\ q.as = req[r].as
        /\ q.cred = cred /\ q.op = op /\ q.ended = late0
    BY <1>7, <2>1 DEF RequestType
  <2>3. req' = [req EXCEPT ![r] = q]
    BY <1>8, <2>1
  <2>4. ASSUME req'[r] = q PROVE Fine(r)'
    <3>1. CopyTrue(r)'
      <4>1. CASE req[r].as = NoToken
        BY <2>2, <2>4, <4>1 DEF CopyTrue, NoToken
      <4>2. CASE req[r].as = Legacy /\ apiKey
        BY <2>2, <2>4, <4>2, <1>2 DEF CopyTrue, Legacy, Grown
      <4>3. CASE req[r].as.id \in Known /\ req[r].as.role = table[req[r].as.id].role
        BY <2>2, <2>4, <4>3, <1>2, GrownKnown DEF CopyTrue
      <4> QED BY <1>1, <4>1, <4>2, <4>3 DEF Fine, CopyTrue
    <3>2. EndedStays(r)'
      <4>1. SUFFICES ASSUME late0 PROVE EndedStays(r)'
        BY <2>2, <2>4 DEF EndedStays
      <4>2. cred \in Known /\ Ended(cred)
        BY <1>4, <4>1, <1>3, TokensAssumption
      <4>3. cred \in Known' /\ Ended(cred)'
        BY <4>2, <1>2, GrownKnown
      <4> QED BY <2>2, <2>4, <4>3, <1>8 DEF EndedStays
    <3>3. req[r].answer = "none"
      BY <1>1 DEF Fine, Unanswered
    <3>4. Unanswered(r)' /\ Refused(r)'
      BY <2>2, <2>4, <1>7, <1>8, <3>3 DEF Unanswered, Refused
    <3> QED BY <3>1, <3>2, <3>4 DEF Fine
  <2> QED BY <1>1, <1>2, <2>2, <2>3, <2>4, RecordStep
<1>9. req' \in [Request -> RequestType] /\ (\A s \in Request : Fine(s)') /\ left' \in LeftType
  <2>1. CASE req' = [req EXCEPT ![r] = [new EXCEPT !.pc = "done", !.answer = "too many"]]
             /\ Spend("limits")
    BY <1>1, <1>8, <2>1, Spent DEF Answers
  <2>2. CASE op = "public"
             /\ req' = [req EXCEPT ![r] = [new EXCEPT !.pc = "done", !.answer = "ok"]]
             /\ UNCHANGED left
    BY <1>1, <1>8, <2>2 DEF Answers
  <2>3. CASE req' = [req EXCEPT ![r] = [new EXCEPT !.pc = "look"]] /\ UNCHANGED left
    <3>1. [new EXCEPT !.pc = "look"] = [new EXCEPT !.pc = "look", !.answer = new.answer]
      BY <1>7 DEF RequestType
    <3>2. new.answer \in Answers
      BY <1>7 DEF RequestType
    <3> QED BY <1>1, <1>8, <2>3, <3>1, <3>2
  <2> QED BY <1>3, <1>4, <1>5, <2>1, <2>2, <2>3
<1> QED BY <1>1, <1>2, <1>9 DEF RequestStep, Arrive

\* The look in the table: a token that ended before is not found, or is refused.
LEMMA LookStep ==
  ASSUME TokensInv, NEW r \in Request, Look(r)
  PROVE  RequestStep
<1>1. /\ TypeOK /\ left \in LeftType /\ (\A s \in Request : Fine(s)) /\ ExpiredExpires
      /\ req \in [Request -> RequestType] /\ table \in [Token -> RowType]
      /\ req[r] \in RequestType /\ req[r].pc = "look"
      /\ late \in BOOLEAN
  BY TokensParts, TokenTypes DEF Look
<1>2. Grown
  BY <1>1, GrownSame DEF Look
<1>3. CASE Spend("failures") /\ Answer(r, "error")
  <2>1. req' \in [Request -> RequestType] /\ (\A s \in Request : Fine(s)')
    BY <1>1, <1>2, <1>3, AnsweredStep DEF Answers
  <2> QED BY <1>1, <1>2, <1>3, <2>1, Spent DEF RequestStep, Look
<1>4. ASSUME NEW c, UNCHANGED left,
             req' = [req EXCEPT ![r].pc = "judge", ![r].as = c],
             \/ c = NoToken
             \/ c = Legacy /\ apiKey /\ req[r].cred = "legacy"
             \/ c \in GetTokenBySecret(req[r].cred)
      PROVE  RequestStep
  <2>1. ASSUME c \in GetTokenBySecret(req[r].cred)
        PROVE  /\ c \in CopyType /\ c.id = req[r].cred /\ c.id \in Rows /\ c.id \in Token
               /\ ~ table[c.id].revoked
               /\ c.role = table[c.id].role /\ c.expires = table[c.id].expires
    <3>1. PICK t \in Rows : /\ t = req[r].cred /\ ~ table[t].revoked
                            /\ c = [id |-> t, role |-> table[t].role,
                                    expires |-> table[t].expires]
      BY <2>1 DEF GetTokenBySecret
    <3>2. t \in Token /\ table[t] \in RowType
      BY <3>1, <1>1 DEF Rows
    <3>3. table[t].role \in Roles /\ table[t].expires \in BOOLEAN
      BY <3>2 DEF RowType
    <3> QED BY <3>1, <3>2, <3>3 DEF CopyType
  <2>2. c \in CopyType
    BY <1>4, <2>1, FixedCopies
  <2>3. PICK q : q = [req[r] EXCEPT !.pc = "judge", !.as = c]
    OBVIOUS
  <2>4. req' = [req EXCEPT ![r] = q]
    BY <1>1, <1>4, <2>3
  <2>5. /\ q \in RequestType /\ q.pc = "judge" /\ q.as = c /\ q.cred = req[r].cred
        /\ q.ended = req[r].ended /\ q.answer = req[r].answer /\ q.op = req[r].op
    BY <1>1, <2>2, <2>3 DEF RequestType
  <2>6. ASSUME req'[r] = q PROVE Fine(r)'
    <3>1. CopyTrue(r)'
      <4>1. CASE c = NoToken
        BY <2>5, <2>6, <4>1 DEF CopyTrue, NoToken
      <4>2. CASE c = Legacy /\ apiKey
        BY <2>5, <2>6, <4>2, <1>2 DEF CopyTrue, Legacy, Grown
      <4>3. CASE c \in GetTokenBySecret(req[r].cred)
        <5>1. c.id \in Known /\ c.role = table[c.id].role
          BY <2>1, <4>3 DEF Known, Rows
        <5> QED BY <2>5, <2>6, <5>1, <1>2, GrownKnown DEF CopyTrue
      <4> QED BY <1>4, <4>1, <4>2, <4>3
    <3>2. EndedStays(r)'
      <4>1. SUFFICES ASSUME req[r].ended PROVE EndedStays(r)'
        BY <2>5, <2>6 DEF EndedStays
      <4>2. req[r].cred \in Known /\ Ended(req[r].cred)
        BY <4>1, <1>1 DEF Fine, EndedStays
      <4>3. req[r].cred # "legacy"
        BY <4>2, TokensAssumption DEF Known
      <4>4. ASSUME c \in GetTokenBySecret(req[r].cred)
            PROVE  c.id = req[r].cred /\ c.expires /\ req[r].cred \in expired'
        <5>1. req[r].cred \in expired
          BY <2>1, <4>2, <4>4 DEF Ended
        <5> QED BY <2>1, <4>4, <5>1, <1>1, <1>2 DEF ExpiredExpires, Grown
      <4>5. req[r].cred \in Known' /\ Ended(req[r].cred)'
        BY <4>2, <1>2, <2>5, <2>6, GrownKnown
      <4> QED BY <1>4, <2>5, <2>6, <4>3, <4>4, <4>5 DEF EndedStays, NoToken
    <3>3. req[r].answer = "none"
      BY <1>1 DEF Fine, Unanswered
    <3>4. Unanswered(r)' /\ Refused(r)'
      BY <2>5, <2>6, <3>3 DEF Unanswered, Refused
    <3> QED BY <3>1, <3>2, <3>4 DEF Fine
  <2>7. req' \in [Request -> RequestType] /\ (\A s \in Request : Fine(s)')
    BY <1>1, <1>2, <2>4, <2>5, <2>6, RecordStep
  <2> QED BY <1>1, <1>2, <1>4, <2>7 DEF RequestStep, Look
<1>5. CASE req' = [req EXCEPT ![r].pc = "judge",
                              ![r].as = IF req[r].cred = "legacy" /\ apiKey THEN Legacy
                                        ELSE IF GetTokenBySecret(req[r].cred) = {} THEN NoToken
                                        ELSE CHOOSE c \in GetTokenBySecret(req[r].cred) : TRUE]
           /\ UNCHANGED left
  <2>1. PICK c : c = IF req[r].cred = "legacy" /\ apiKey THEN Legacy
                     ELSE IF GetTokenBySecret(req[r].cred) = {} THEN NoToken
                     ELSE CHOOSE x \in GetTokenBySecret(req[r].cred) : TRUE
    OBVIOUS
  <2>2. \/ c = NoToken
        \/ c = Legacy /\ apiKey /\ req[r].cred = "legacy"
        \/ c \in GetTokenBySecret(req[r].cred)
    BY <2>1
  <2> QED BY <1>4, <1>5, <2>1, <2>2
<1> QED BY <1>3, <1>5 DEF Look

\* The judgement on the row that was read.
LEMMA JudgeStep ==
  ASSUME TokensInv, NEW r \in Request, Judge(r)
  PROVE  RequestStep
<1>1. /\ TypeOK /\ left \in LeftType /\ (\A s \in Request : Fine(s))
      /\ req \in [Request -> RequestType]
      /\ req[r] \in RequestType /\ req[r].pc = "judge"
      /\ late \in BOOLEAN
  BY TokensParts, TokenTypes DEF Judge
<1>2. Grown
  BY <1>1, GrownSame DEF Judge
<1>3. PICK nobody \in BOOLEAN : nobody = (req[r].as = NoToken \/ IsExpired(req[r].as))
  OBVIOUS
<1>4. CASE nobody /\ (req[r].cred # "none" \/ apiKey)
  <2>1. Answer(r, "unauthorized")
    BY <1>3, <1>4 DEF Judge
  <2>2. req' \in [Request -> RequestType] /\ (\A s \in Request : Fine(s)')
    BY <1>1, <1>2, <2>1, AnsweredStep DEF Answers
  <2> QED BY <1>1, <1>2, <2>2 DEF RequestStep, Judge
<1>5. CASE ~ (nobody /\ (req[r].cred # "none" \/ apiKey))
  <2>1. PICK c : c = IF nobody THEN NoToken ELSE req[r].as
    OBVIOUS
  <2>2. PICK q : q = [req[r] EXCEPT !.pc = "handle", !.as = c]
    OBVIOUS
  <2>3. req' = [req EXCEPT ![r] = q]
    BY <1>1, <1>3, <1>5, <2>1, <2>2 DEF Judge
  <2>4. c \in CopyType
    BY <1>1, <2>1, FixedCopies DEF RequestType
  <2>5. /\ q \in RequestType /\ q.pc = "handle" /\ q.as = c /\ q.cred = req[r].cred
        /\ q.ended = req[r].ended /\ q.answer = req[r].answer /\ q.op = req[r].op
    BY <1>1, <2>2, <2>4 DEF RequestType
  <2>6. ~ req[r].ended
    <3>1. SUFFICES ASSUME req[r].ended PROVE FALSE
      OBVIOUS
    <3>2. /\ req[r].cred \in Known
          /\ \/ req[r].as = NoToken
             \/ /\ req[r].as.id = req[r].cred /\ req[r].as.expires
                /\ req[r].cred \in expired
      BY <1>1, <3>1 DEF Fine, EndedStays
    <3>3. req[r].cred # "none"
      BY <3>2, TokensAssumption DEF Known
    <3>4. nobody
      BY <1>3, <3>2 DEF IsExpired
    <3> QED BY <1>5, <3>3, <3>4
  <2>7. ASSUME req'[r] = q PROVE Fine(r)'
    <3>1. CopyTrue(r)'
      <4>1. CASE c = NoToken
        BY <2>5, <2>7, <4>1 DEF CopyTrue, NoToken
      <4>2. CASE c = Legacy /\ apiKey
        BY <2>5, <2>7, <4>2, <1>2 DEF CopyTrue, Legacy, Grown
      <4>3. CASE c.id \in Known /\ c.role = table[c.id].role
        BY <2>5, <2>7, <4>3, <1>2, GrownKnown DEF CopyTrue
      <4> QED BY <1>1, <2>1, <4>1, <4>2, <4>3 DEF Fine, CopyTrue
    <3>2. req[r].answer = "none"
      BY <1>1 DEF Fine, Unanswered
    <3>3. EndedStays(r)' /\ Unanswered(r)' /\ Refused(r)'
      BY <2>5, <2>6, <2>7, <3>2 DEF EndedStays, Unanswered, Refused
    <3> QED BY <3>1, <3>3 DEF Fine
  <2>8. req' \in [Request -> RequestType] /\ (\A s \in Request : Fine(s)')
    BY <1>1, <1>2, <2>3, <2>5, <2>7, RecordStep
  <2> QED BY <1>1, <1>2, <2>8 DEF RequestStep, Judge
<1> QED BY <1>4, <1>5

\* The handlers that leave the table alone, and those the store fails.
LEMMA ReadStep ==
  ASSUME TokensInv, NEW r \in Request,
         \/ Forbid(r) \/ Other(r) \/ Fail(r) \/ handleListTokens(r) \/ handleGetToken(r)
         \/ Count(r)
  PROVE  RequestStep /\ UNCHANGED <<table, apiKey, expired, late>>
<1>1. /\ TypeOK /\ left \in LeftType /\ (\A s \in Request : Fine(s))
      /\ late \in BOOLEAN
  BY TokensParts, TokenTypes
<1>2. UNCHANGED <<table, apiKey, expired, late>>
  BY DEF Forbid, Other, Fail, handleListTokens, handleGetToken, Count
<1>3. Grown
  BY <1>1, <1>2, GrownSame
<1>4. req[r].pc \in {"handle", "count"}
  BY DEF Forbid, Other, Fail, handleListTokens, handleGetToken, Count, Allowed
<1>5. \E a \in Answers : Answer(r, a)
  BY DEF Forbid, Other, Fail, handleListTokens, handleGetToken, Count, GetToken, Answers
<1>6. req' \in [Request -> RequestType] /\ (\A s \in Request : Fine(s)')
  BY <1>1, <1>3, <1>4, <1>5, AnsweredStep
<1>7. left' \in LeftType
  <2>1. CASE Fail(r)
    BY <1>1, <2>1, Spent DEF Fail
  <2>2. CASE ~ Fail(r)
    BY <1>1, <2>2 DEF Forbid, Other, handleListTokens, handleGetToken, Count
  <2> QED BY <2>1, <2>2
<1> QED BY <1>1, <1>2, <1>3, <1>6, <1>7 DEF RequestStep

\* handleCreateToken writes a new row only.
LEMMA CreateStep ==
  ASSUME TokensInv, NEW r \in Request, handleCreateToken(r)
  PROVE  /\ RequestStep /\ UNCHANGED <<apiKey, expired, late>>
         /\ \A u \in Rows : table'[u] = table[u]
<1>1. /\ TypeOK /\ left \in LeftType /\ (\A s \in Request : Fine(s))
      /\ late \in BOOLEAN /\ table \in [Token -> RowType]
  BY TokensParts, TokenTypes
<1>2. UNCHANGED <<apiKey, expired, late>> /\ req[r].pc = "handle"
  BY DEF handleCreateToken, Allowed
<1>3. CASE Answer(r, "bad request") /\ UNCHANGED <<table, left>>
  <2>1. Grown
    BY <1>1, <1>2, <1>3, GrownSame
  <2>2. req' \in [Request -> RequestType] /\ (\A s \in Request : Fine(s)')
    BY <1>1, <1>2, <1>3, <2>1, AnsweredStep DEF Answers
  <2> QED BY <1>1, <1>2, <1>3, <2>1, <2>2 DEF RequestStep
<1>4. CASE \E t \in GenerateToken, role \in Roles, expires \in BOOLEAN :
             Spend("creates") /\ CreateToken(t, role, expires) /\ Answer(r, "created")
  <2>1. PICK t \in GenerateToken, role \in Roles, expires \in BOOLEAN :
          Spend("creates") /\ CreateToken(t, role, expires) /\ Answer(r, "created")
    BY <1>4
  <2>2. Grown
    BY <1>1, <1>2, <2>1, GrownCreate
  <2>3. req' \in [Request -> RequestType] /\ (\A s \in Request : Fine(s)')
    BY <1>1, <1>2, <2>1, <2>2, AnsweredStep DEF Answers
  <2>4. \A u \in Rows : u \in Token /\ u # t
    BY DEF GenerateToken, Known, Rows
  <2>5. \A u \in Rows : table'[u] = table[u]
    BY <1>1, <2>1, <2>4 DEF CreateToken
  <2> QED BY <1>1, <1>2, <2>1, <2>2, <2>3, <2>5, Spent DEF RequestStep
<1> QED BY <1>3, <1>4 DEF handleCreateToken

\* A request that ends another token leaves a manager: the token it came with,
\* unless that has ended too, or the legacy key.
LEMMA ManagerActs ==
  ASSUME TypeOK, Grown, NEW r \in Request, Fine(r), req[r].as # NoToken,
         req[r].as.role = "admin", req[r].target # req[r].as.id, Acted(r),
         UNCHANGED expired,
         \A u \in Token : u # req[r].target => table'[u] = table[u]
  PROVE  ManagerRemains'
<1>1. SUFFICES ASSUME ~ late', expired' = {} PROVE Managers' # {}
  BY DEF ManagerRemains
<1>2. CASE req[r].as = Legacy /\ apiKey
  <2>1. "legacy" \in Managers'
    BY <1>2 DEF Managers, Grown
  <2> QED BY <2>1
<1>3. CASE req[r].as.id \in Known /\ req[r].as.role = table[req[r].as.id].role
  <2>1. PICK u : u = req[r].as.id
    OBVIOUS
  <2>2. u \in Token /\ table'[u] = table[u] /\ table[u].role = "admin"
    BY <1>3, <2>1 DEF Known
  <2>3. ~ Ended(u)
    BY <1>1, <2>1, <2>2 DEF Acted, Outlived
  <2>4. u \in Managers'
    BY <1>1, <2>2, <2>3 DEF Managers, Ended, Rows
  <2> QED BY <2>4
<1> QED BY <1>2, <1>3 DEF Fine, CopyTrue

\* handleRevokeToken: the manager whose request it is remains.
LEMMA RevokeStep ==
  ASSUME TokensInv, NEW r \in Request, handleRevokeToken(r)
  PROVE  RequestStep /\ UNCHANGED expired /\ ManagerRemains'
<1>1. /\ TypeOK /\ left \in LeftType /\ (\A s \in Request : Fine(s)) /\ ManagerRemains
      /\ late \in BOOLEAN /\ req \in [Request -> RequestType] /\ req[r] \in RequestType
  BY TokensParts, TokenTypes
<1>2. /\ req[r].pc = "handle" /\ req[r].as # NoToken /\ req[r].as.role = "admin"
      /\ UNCHANGED <<apiKey, expired, left>>
  BY DEF handleRevokeToken, Allowed, Can
<1>3. CASE req[r].target = req[r].as.id
  <2>1. Answer(r, "bad request") /\ UNCHANGED <<table, late>>
    BY <1>3 DEF handleRevokeToken
  <2>2. Grown
    BY <1>1, <1>2, <2>1, GrownSame
  <2>3. req' \in [Request -> RequestType] /\ (\A s \in Request : Fine(s)')
    BY <1>1, <1>2, <2>1, <2>2, AnsweredStep DEF Answers
  <2>4. ManagerRemains'
    BY <1>1, <1>2, <2>1 DEF ManagerRemains, Managers, Ended, Rows
  <2> QED BY <1>1, <1>2, <2>1, <2>2, <2>3, <2>4 DEF RequestStep
<1>4. CASE req[r].target # req[r].as.id
  <2>1. /\ table' = RevokeToken(req[r].target).table /\ Acted(r)
        /\ \/ Answer(r, "ok")
           \/ req' = [req EXCEPT ![r].pc = "count"]
    BY <1>4 DEF handleRevokeToken
  <2>2. Grown /\ (\A u \in Token : u # req[r].target => table'[u] = table[u])
    BY <1>1, <1>2, <2>1, GrownRevoke
  <2>3. req' \in [Request -> RequestType] /\ (\A s \in Request : Fine(s)')
    <3>1. CASE Answer(r, "ok")
      BY <1>1, <1>2, <2>2, <3>1, AnsweredStep DEF Answers
    <3>2. CASE req' = [req EXCEPT ![r].pc = "count"]
      <4>1. PICK q : q = [req[r] EXCEPT !.pc = "count"]
        OBVIOUS
      <4>2. req' = [req EXCEPT ![r] = q]
        BY <1>1, <3>2, <4>1
      <4>3. /\ q \in RequestType /\ q.pc = "count" /\ q.as = req[r].as
            /\ q.ended = req[r].ended /\ q.answer = req[r].answer
        BY <1>1, <4>1 DEF RequestType
      <4>4. ASSUME req'[r] = q PROVE Fine(r)'
        <5>1. ~ req[r].ended /\ req[r].answer = "none"
          BY <1>1, <1>2 DEF Fine, Refused, Unanswered
        <5>2. CopyTrue(r)'
          <6>1. CASE req[r].as = Legacy /\ apiKey
            BY <4>3, <4>4, <6>1, <2>2 DEF CopyTrue, Legacy, Grown
          <6>2. CASE req[r].as.id \in Known /\ req[r].as.role = table[req[r].as.id].role
            BY <4>3, <4>4, <6>2, <2>2, GrownKnown DEF CopyTrue
          <6> QED BY <1>1, <1>2, <6>1, <6>2 DEF Fine, CopyTrue
        <5>3. EndedStays(r)' /\ Unanswered(r)' /\ Refused(r)'
          BY <4>3, <4>4, <5>1 DEF EndedStays, Unanswered, Refused
        <5> QED BY <5>2, <5>3 DEF Fine
      <4> QED BY <1>1, <2>2, <4>2, <4>3, <4>4, RecordStep
    <3> QED BY <2>1, <3>1, <3>2
  <2>4. ManagerRemains'
    BY <1>1, <1>2, <1>4, <2>1, <2>2, ManagerActs
  <2>5. late' \in BOOLEAN
    BY <2>1 DEF Acted
  <2> QED BY <1>1, <1>2, <2>2, <2>3, <2>4, <2>5 DEF RequestStep
<1> QED BY <1>3, <1>4

\* handleDeleteToken: the manager whose request it is remains.
LEMMA DeleteStep ==
  ASSUME TokensInv, NEW r \in Request, handleDeleteToken(r)
  PROVE  RequestStep /\ UNCHANGED expired /\ ManagerRemains'
<1>1. /\ TypeOK /\ left \in LeftType /\ (\A s \in Request : Fine(s)) /\ ManagerRemains
      /\ late \in BOOLEAN
  BY TokensParts, TokenTypes
<1>2. /\ req[r].pc = "handle" /\ req[r].as # NoToken /\ req[r].as.role = "admin"
      /\ UNCHANGED <<apiKey, expired, left>>
  BY DEF handleDeleteToken, Allowed, Can
<1>3. CASE Own(r)
  <2>1. Answer(r, "bad request") /\ UNCHANGED <<table, late>>
    BY <1>3 DEF handleDeleteToken
  <2>2. Grown
    BY <1>1, <1>2, <2>1, GrownSame
  <2>3. req' \in [Request -> RequestType] /\ (\A s \in Request : Fine(s)')
    BY <1>1, <1>2, <2>1, <2>2, AnsweredStep DEF Answers
  <2>4. ManagerRemains'
    BY <1>1, <1>2, <2>1 DEF ManagerRemains, Managers, Ended, Rows
  <2> QED BY <1>1, <1>2, <2>1, <2>2, <2>3, <2>4 DEF RequestStep
<1>4. CASE ~ Own(r)
  <2>1. /\ DeleteToken(req[r].target) /\ Acted(r)
        /\ Answer(r, GetToken(req[r].target))
    BY <1>4 DEF handleDeleteToken
  <2>2. Grown /\ (\A u \in Token : u # req[r].target => table'[u] = table[u])
    BY <1>1, <1>2, <2>1, GrownDelete
  <2>3. GetToken(req[r].target) \in Answers
    BY DEF GetToken, Answers
  <2>4. req' \in [Request -> RequestType] /\ (\A s \in Request : Fine(s)')
    BY <1>1, <1>2, <2>1, <2>2, <2>3, AnsweredStep
  <2>5. ManagerRemains'
    BY <1>1, <1>2, <1>4, <2>1, <2>2, ManagerActs DEF Own
  <2>6. late' \in BOOLEAN
    BY <2>1 DEF Acted
  <2> QED BY <1>1, <1>2, <2>2, <2>4, <2>5, <2>6 DEF RequestStep
<1> QED BY <1>3, <1>4

-----------------------------------------------------------------------------
(* Tokens: the theorems *)

\* While the tokens that manage are only added to, a manager remains.
LEMMA ManagersGrow ==
  ASSUME ManagerRemains, UNCHANGED <<apiKey, expired, late>>,
         \A u \in Rows : table'[u] = table[u]
  PROVE  ManagerRemains'
<1>1. Managers \subseteq Managers'
  BY DEF Managers, Ended, Rows
<1> QED BY <1>1 DEF ManagerRemains

\* The first state satisfies the inductive invariant of the tokens.
LEMMA TokensInit ==
  ASSUME Init
  PROVE  TokensInv
<1>1. PICK admins \in SUBSET Token, expiring \in SUBSET Token :
        /\ admins # {}
        /\ table = [t \in Token |->
                      IF t \in admins
                        THEN [row |-> "stored", role |-> "admin", expires |-> t \in expiring,
                              revoked |-> FALSE]
                        ELSE NoRow]
  BY DEF Init
<1>2. table \in [Token -> RowType]
  <2>1. ASSUME NEW t \in Token PROVE table[t] \in RowType
    BY <1>1, <2>1 DEF RowType, NoRow, Roles
  <2>2. table = [t \in Token |-> table[t]]
    BY <1>1
  <2> QED BY <2>1, <2>2
<1>3. NewRequest \in RequestType
  BY FixedCopies DEF NewRequest, RequestType, Credentials, Ops, Answers
<1>4. /\ req = [r \in Request |-> NewRequest] /\ expired = {} /\ late = FALSE
      /\ apiKey \in BOOLEAN /\ left \in LeftType
  BY TokensAssumption DEF Init, LeftType
<1>5. TypeOK
  <2>1. req \in [Request -> RequestType]
    BY <1>3, <1>4
  <2> QED BY <1>2, <1>4, <2>1, TokenTypes
<1>6. ASSUME NEW r \in Request PROVE Fine(r)
  <2>1. req[r] = NewRequest
    BY <1>4
  <2> QED
    BY <2>1 DEF Fine, CopyTrue, EndedStays, Unanswered, Refused, NewRequest
<1>7. ManagerRemains
  <2>1. PICK u \in admins : u \in Token
    BY <1>1
  <2>2. table[u].row = "stored" /\ table[u].role = "admin" /\ table[u].revoked = FALSE
    BY <1>1, <2>1
  <2>3. u \in Managers
    BY <1>4, <2>1, <2>2 DEF Managers, Rows, Ended
  <2> QED BY <2>3 DEF ManagerRemains
<1> QED BY <1>4, <1>5, <1>6, <1>7, TokensParts DEF ExpiredExpires

\* Every step keeps it.
LEMMA TokensStep ==
  ASSUME TokensInv, [Next]_vars
  PROVE  TokensInv'
<1>1. /\ TypeOK /\ left \in LeftType /\ (\A s \in Request : Fine(s)) /\ ManagerRemains
      /\ ExpiredExpires
      /\ late \in BOOLEAN /\ table \in [Token -> RowType]
      /\ req \in [Request -> RequestType]
  BY TokensParts, TokenTypes
<1>2. ASSUME RequestStep, UNCHANGED expired, ManagerRemains' PROVE TokensInv'
  <2>1. TypeOK'
    <3>1. /\ table' \in [Token -> RowType] /\ apiKey' \in BOOLEAN
          /\ req' \in [Request -> RequestType] /\ expired' \subseteq Token /\ late' \in BOOLEAN
      BY <1>1, <1>2, TokenTypes DEF RequestStep, Grown
    <3> QED BY <3>1, TypesLater
  <2>2. ExpiredExpires'
    <3>1. ASSUME NEW t \in expired PROVE t \in Known' /\ table'[t].expires
      BY <1>1, <1>2, <3>1, GrownKnown DEF ExpiredExpires, RequestStep
    <3> QED BY <1>2, <3>1 DEF ExpiredExpires
  <2> QED BY <1>2, <2>1, <2>2, PartsLater DEF RequestStep
<1>3. ASSUME RequestStep, UNCHANGED <<table, apiKey, expired, late>> PROVE TokensInv'
  BY <1>1, <1>2, <1>3, ManagersGrow, SMTT(30)
<1>4. ASSUME NEW r \in Request, Arrive(r) PROVE TokensInv'
  BY <1>3, <1>4, ArriveStep, Zenon DEF Arrive
<1>5. ASSUME NEW r \in Request, Look(r) PROVE TokensInv'
  BY <1>3, <1>5, LookStep DEF Look
<1>6. ASSUME NEW r \in Request, Judge(r) PROVE TokensInv'
  BY <1>3, <1>6, JudgeStep DEF Judge
<1>7. ASSUME NEW r \in Request,
             \/ Forbid(r) \/ Other(r) \/ Fail(r) \/ handleListTokens(r) \/ handleGetToken(r)
             \/ Count(r)
      PROVE  TokensInv'
  BY <1>3, <1>7, ReadStep
<1>8. ASSUME NEW r \in Request, handleCreateToken(r) PROVE TokensInv'
  <2>1. /\ RequestStep /\ UNCHANGED <<apiKey, expired, late>>
        /\ \A u \in Rows : table'[u] = table[u]
    BY <1>8, CreateStep
  <2> QED BY <1>1, <1>2, <2>1, ManagersGrow
<1>9. ASSUME NEW r \in Request, handleRevokeToken(r) PROVE TokensInv'
  BY <1>2, <1>9, RevokeStep
<1>10. ASSUME NEW r \in Request, handleDeleteToken(r) PROVE TokensInv'
  BY <1>2, <1>10, DeleteStep
<1>11. ASSUME NEW t \in Token, Expire(t) PROVE TokensInv'
  <2>1. /\ Grown /\ UNCHANGED <<table, apiKey, req, late>> /\ expired' = expired \cup {t}
        /\ t \in Rows /\ table[t].expires
    BY <1>1, <1>11, GrownExpire DEF Expire
  <2>2. TypeOK'
    <3>1. /\ table' \in [Token -> RowType] /\ apiKey' \in BOOLEAN
          /\ req' \in [Request -> RequestType] /\ expired' \subseteq Token /\ late' \in BOOLEAN
      BY <1>1, <2>1, TokenTypes DEF Grown
    <3> QED BY <3>1, TypesLater
  <2>3. left' \in LeftType
    BY <1>1, <1>11, Spent DEF Expire
  <2>4. ExpiredExpires'
    BY <1>1, <2>1 DEF ExpiredExpires, Known, Rows
  <2>5. \A s \in Request : Fine(s)'
    BY <1>1, <2>1, FineKept
  <2>6. ManagerRemains'
    BY <2>1 DEF ManagerRemains
  <2> QED BY <2>2, <2>3, <2>4, <2>5, <2>6, PartsLater
<1>12. CASE UNCHANGED vars
  <2>1. Grown /\ UNCHANGED <<table, apiKey, req, expired, late, left>>
    BY <1>1, <1>12, GrownSame DEF vars
  <2>2. \A s \in Request : Fine(s)'
    BY <1>1, <2>1, FineKept
  <2>3. RequestStep
    BY <1>1, <2>1, <2>2 DEF RequestStep
  <2> QED BY <1>3, <2>1, <2>3
<1> QED BY <1>4, <1>5, <1>6, <1>7, <1>8, <1>9, <1>10, <1>11, <1>12 DEF Next

\* For every set of tokens and requests, the types, the copies the requests hold
\* and the two properties below hold in every state.
THEOREM TokensInvariant == Spec => []TokensInv
<1>1. Init => TokensInv
  BY TokensInit
<1>2. TokensInv /\ [Next]_vars => TokensInv'
  BY TokensStep
<1> QED BY <1>1, <1>2, PTL DEF Spec

\* For every set of tokens and requests: one that comes with a token that was
\* revoked, deleted or has expired is never served (auth.go:63, :85).
THEOREM EndedNeverServed == Spec => []EndedRefused
<1>1. TokensInv => EndedRefused
  BY DEF TokensInv
<1> QED BY <1>1, TokensInvariant, PTL

\* For every set of tokens and requests: revoking and deleting never take the
\* last manager, unless the clock has ended a token, or a request acted that was
\* let in before its own token was ended (tokens.go:254, :292).
THEOREM ManagerNeverLost == Spec => []ManagerRemains
<1>1. TokensInv => ManagerRemains
  BY DEF TokensInv
<1> QED BY <1>1, TokensInvariant, PTL

-----------------------------------------------------------------------------
(* Records *)

RecordLeft == [tables : SUBSET {"secrets", "runtimes"}, failures : Nat]

RecordsInv ==
  /\ Records!TypeOK
  /\ recordLeft \in RecordLeft
  /\ Records!DeletedStaysGone

RuntimeType == [ns : Namespace \cup {"nothing"}, value : Value \cup {"nothing"}]

RecordAnswers ==
  {"none", "ok", "created", "bad request", "not found", "conflict", "error"}

RecordRequest ==
  [pc : {"idle", "decode", "write", "done"}, table : {"secrets", "runtimes"},
   op : Records!Ops, key : Records!Key, body : Value \cup {"nothing"},
   answer : RecordAnswers]

\* The type invariant of the records, with the named record sets.
LEMMA RecordTypes ==
  Records!TypeOK <=> /\ secrets \in [Records!Key -> Value \cup {"nothing"}]
                     /\ runtimes \in [Name -> RuntimeType]
                     /\ recordReq \in [Client -> RecordRequest]
                     /\ gone \subseteq Records!Key
BY DEF Records!TypeOK, Records!Nothing, RuntimeType, RecordRequest, RecordAnswers

\* RecordTypes, of the state after a step.
LEMMA RecordTypesLater ==
  /\ secrets' \in [Records!Key -> Value \cup {"nothing"}]
  /\ runtimes' \in [Name -> RuntimeType]
  /\ recordReq' \in [Client -> RecordRequest]
  /\ gone' \subseteq Records!Key
  => Records!TypeOK'
BY DEF Records!TypeOK, Records!Nothing, RuntimeType, RecordRequest, RecordAnswers

\* A request is answered.
LEMMA RecordAnswered ==
  ASSUME Records!TypeOK, NEW r \in Client, NEW q \in RecordRequest,
         NEW a \in RecordAnswers, Records!Answer(r, q, a)
  PROVE  recordReq' \in [Client -> RecordRequest]
<1>1. recordReq \in [Client -> RecordRequest]
  BY RecordTypes
<1>2. [q EXCEPT !.pc = "done", !.answer = a] \in RecordRequest
  BY DEF RecordRequest
<1> QED BY <1>1, <1>2 DEF Records!Answer

\* What a request does to the tables: nothing to the runtimes, or it creates,
\* changes or deletes one.
RuntimesSame == UNCHANGED <<runtimes, gone>>

RuntimeMade(k, new) ==
  /\ runtimes' = [runtimes EXCEPT ![k.name] = new]
  /\ new.ns = k.ns
  /\ gone' = gone \ {k}

RuntimeWritten(k, new) ==
  /\ runtimes' = [runtimes EXCEPT ![k.name] = new]
  /\ new.ns = runtimes[k.name].ns
  /\ gone' = gone

RuntimeDropped(k, new) ==
  /\ runtimes' = [runtimes EXCEPT ![k.name] = new]
  /\ new.ns = "nothing"
  /\ gone' = gone \cup {k}

\* Making, writing or dropping one runtime brings none back that was deleted.
LEMMA GoneStays ==
  ASSUME Records!TypeOK, Records!DeletedStaysGone,
         \/ RuntimesSame
         \/ \E k \in Records!Key, new \in RuntimeType :
              RuntimeMade(k, new) \/ RuntimeWritten(k, new) \/ RuntimeDropped(k, new)
  PROVE  /\ runtimes' \in [Name -> RuntimeType] /\ gone' \subseteq Records!Key
         /\ Records!DeletedStaysGone'
<1>1. runtimes \in [Name -> RuntimeType] /\ gone \subseteq Records!Key
  BY RecordTypes
<1>2. CASE RuntimesSame
  BY <1>1, <1>2 DEF RuntimesSame, Records!DeletedStaysGone, Records!Stored
<1>3. ASSUME NEW k \in Records!Key, NEW new \in RuntimeType,
             RuntimeMade(k, new) \/ RuntimeWritten(k, new) \/ RuntimeDropped(k, new)
      PROVE  /\ runtimes' \in [Name -> RuntimeType] /\ gone' \subseteq Records!Key
             /\ Records!DeletedStaysGone'
  <2>1. k.name \in Name /\ k.ns \in Namespace
    BY DEF Records!Key
  <2>2. /\ runtimes' \in [Name -> RuntimeType] /\ gone' \subseteq Records!Key
        /\ runtimes' = [runtimes EXCEPT ![k.name] = new]
    BY <1>1, <1>3 DEF RuntimeMade, RuntimeWritten, RuntimeDropped
  <2>3. ASSUME NEW j \in gone' PROVE runtimes'[j.name].ns # j.ns
    <3>1. j \in Records!Key /\ j.name \in Name /\ j.ns \in Namespace
      BY <2>2 DEF Records!Key
    <3>2. j \in gone \/ j = k
      BY <1>3, <2>3 DEF RuntimeMade, RuntimeWritten, RuntimeDropped
    <3>3. j \in gone => runtimes[j.name].ns # j.ns
      BY DEF Records!DeletedStaysGone, Records!Stored
    <3>4. CASE j.name # k.name
      <4>1. j \in gone
        BY <3>2, <3>4
      <4> QED BY <1>1, <2>2, <3>1, <3>3, <3>4, <4>1
    <3>5. CASE j.name = k.name
      <4>1. runtimes'[j.name] = new
        BY <1>1, <2>1, <2>2, <3>5
      <4>2. CASE RuntimeMade(k, new)
        <5>1. j # k
          BY <2>3, <4>2 DEF RuntimeMade
        <5>2. j.ns # k.ns
          BY <3>1, <3>5, <5>1 DEF Records!Key
        <5> QED BY <4>1, <4>2, <5>2 DEF RuntimeMade
      <4>3. CASE RuntimeWritten(k, new)
        BY <2>3, <3>3, <3>5, <4>1, <4>3 DEF RuntimeWritten
      <4>4. CASE RuntimeDropped(k, new)
        BY <3>1, <4>1, <4>4, RecordsAssumption DEF RuntimeDropped
      <4> QED BY <1>3, <4>2, <4>3, <4>4
    <3> QED BY <3>4, <3>5
  <2>4. Records!DeletedStaysGone'
    BY <2>3 DEF Records!DeletedStaysGone, Records!Stored
  <2> QED BY <2>2, <2>4
<1> QED BY <1>2, <1>3

\* What a step of the records establishes.
RecordStepped ==
  /\ secrets' \in [Records!Key -> Value \cup {"nothing"}]
  /\ recordReq' \in [Client -> RecordRequest]
  /\ recordLeft' \in RecordLeft
  /\ \/ RuntimesSame
     \/ \E k \in Records!Key, new \in RuntimeType :
          RuntimeMade(k, new) \/ RuntimeWritten(k, new) \/ RuntimeDropped(k, new)

\* A handler that fails changes its request only.
LEMMA RecordFails ==
  ASSUME Records!TypeOK, recordLeft \in RecordLeft, NEW r \in Client,
         NEW q \in RecordRequest, Records!Fails(r, q)
  PROVE  RecordStepped
<1>1. recordReq' \in [Client -> RecordRequest]
  BY RecordAnswered DEF Records!Fails, RecordAnswers
<1>2. recordLeft' \in RecordLeft
  BY DEF Records!Fails, RecordLeft
<1> QED BY <1>1, <1>2, RecordTypes DEF RecordStepped, RuntimesSame, Records!Fails

\* A handler of secrets.
LEMMA SecretStep ==
  ASSUME Records!TypeOK, recordLeft \in RecordLeft, NEW r \in Client,
         NEW q \in RecordRequest, Records!handleSecret(r, q)
  PROVE  RecordStepped
<1>1. secrets \in [Records!Key -> Value \cup {"nothing"}]
  BY RecordTypes
<1>2. q.key \in Records!Key /\ q.body \in Value \cup {"nothing"}
  BY DEF RecordRequest
<1>3. CASE Records!Fails(r, q)
  BY <1>3, RecordFails
<1>4. CASE ~ Records!Fails(r, q)
  <2>1. /\ UNCHANGED <<runtimes, gone, recordLeft>>
        /\ \E a \in RecordAnswers : Records!Answer(r, q, a)
        /\ \/ UNCHANGED secrets
           \/ \E v \in Value \cup {"nothing"} : secrets' = [secrets EXCEPT ![q.key] = v]
    BY <1>2, <1>4 DEF Records!handleSecret, Records!CreateSecret, Records!GetSecret,
          Records!ListSecrets, Records!DeleteSecret, Records!Nothing, RecordAnswers
  <2>2. recordReq' \in [Client -> RecordRequest]
    BY <2>1, RecordAnswered
  <2>3. secrets' \in [Records!Key -> Value \cup {"nothing"}]
    BY <1>1, <2>1
  <2> QED BY <2>1, <2>2, <2>3 DEF RecordStepped, RuntimesSame
<1> QED BY <1>3, <1>4

\* The row of a runtime with another value.
LEMMA RuntimeValue ==
  ASSUME NEW row \in RuntimeType, NEW v \in Value \cup {"nothing"}
  PROVE  /\ [row EXCEPT !.value = v] \in RuntimeType
         /\ [row EXCEPT !.value = v].ns = row.ns
BY DEF RuntimeType

\* A handler of runtimes.
LEMMA RuntimeStep ==
  ASSUME Records!TypeOK, recordLeft \in RecordLeft, NEW r \in Client,
         NEW q \in RecordRequest, Records!handleRuntime(r, q)
  PROVE  RecordStepped
<1>1. /\ runtimes \in [Name -> RuntimeType] /\ recordReq \in [Client -> RecordRequest]
      /\ secrets \in [Records!Key -> Value \cup {"nothing"}]
  BY RecordTypes
<1>2. /\ q.key \in Records!Key /\ q.body \in Value \cup {"nothing"}
      /\ q.key.name \in Name /\ q.key.ns \in Namespace
  BY DEF RecordRequest, Records!Key
<1>3. CASE Records!Fails(r, q)
  BY <1>3, RecordFails
<1>4. CASE Records!handleCreateRuntime(r, q)
  <2>1. /\ UNCHANGED <<secrets, recordLeft>>
        /\ \E a \in RecordAnswers : Records!Answer(r, q, a)
        /\ \/ RuntimesSame
           \/ /\ runtimes' = [runtimes EXCEPT ![q.key.name] = [ns |-> q.key.ns, value |-> q.body]]
              /\ gone' = gone \ {q.key}
    BY <1>4 DEF Records!handleCreateRuntime, Records!CreateRuntime, RecordAnswers, RuntimesSame
  <2>2. PICK new : new = [ns |-> q.key.ns, value |-> q.body]
    OBVIOUS
  <2>3. new \in RuntimeType /\ new.ns = q.key.ns
    BY <1>2, <2>2 DEF RuntimeType
  <2>4. RuntimesSame \/ RuntimeMade(q.key, new)
    BY <2>1, <2>2, <2>3 DEF RuntimeMade
  <2>5. recordReq' \in [Client -> RecordRequest]
    BY <2>1, RecordAnswered
  <2> QED BY <1>1, <1>2, <2>1, <2>3, <2>4, <2>5 DEF RecordStepped
<1>5. CASE \/ Records!handleGetRuntime(r, q)
           \/ q.op = "list" /\ Records!ListRuntimes(r, q)
  <2>1. /\ UNCHANGED <<secrets, recordLeft>> /\ RuntimesSame
        /\ \E a \in RecordAnswers : Records!Answer(r, q, a)
    BY <1>5 DEF Records!handleGetRuntime, Records!ListRuntimes, Records!GetRuntime,
          RecordAnswers, RuntimesSame
  <2>2. recordReq' \in [Client -> RecordRequest]
    BY <2>1, RecordAnswered
  <2> QED BY <1>1, <2>1, <2>2 DEF RecordStepped
<1>6. CASE Records!handleUpdateRuntime(r, q)
  <2>1. UNCHANGED <<secrets, recordLeft>> /\ RuntimesSame
    BY <1>6 DEF Records!handleUpdateRuntime, RuntimesSame
  <2>2. [q EXCEPT !.pc = "decode"] \in RecordRequest
    BY DEF RecordRequest
  <2>3. recordReq' \in [Client -> RecordRequest]
    <3>1. CASE Records!Answer(r, q, "not found")
      BY <3>1, RecordAnswered DEF RecordAnswers
    <3>2. CASE recordReq' = [recordReq EXCEPT ![r] = [q EXCEPT !.pc = "decode"]]
      BY <1>1, <2>2, <3>2
    <3> QED BY <1>6, <3>1, <3>2 DEF Records!handleUpdateRuntime
  <2> QED BY <1>1, <2>1, <2>3 DEF RecordStepped
<1>7. CASE Records!handleDeleteRuntime(r, q)
  <2>1. /\ UNCHANGED <<secrets, recordLeft>>
        /\ \E a \in RecordAnswers : Records!Answer(r, q, a)
        /\ \/ RuntimesSame
           \/ /\ runtimes' = [runtimes EXCEPT ![q.key.name] = Records!NoRuntime]
              /\ gone' = gone \cup {q.key}
    BY <1>7 DEF Records!handleDeleteRuntime, Records!DeleteRuntime, Records!GetRuntime,
          RecordAnswers, RuntimesSame
  <2>2. Records!NoRuntime \in RuntimeType /\ Records!NoRuntime.ns = "nothing"
    BY DEF RuntimeType, Records!NoRuntime, Records!Nothing
  <2>3. RuntimesSame \/ RuntimeDropped(q.key, Records!NoRuntime)
    BY <2>1, <2>2 DEF RuntimeDropped
  <2>4. recordReq' \in [Client -> RecordRequest]
    BY <2>1, RecordAnswered
  <2> QED BY <1>1, <1>2, <2>1, <2>2, <2>3, <2>4 DEF RecordStepped
<1> QED BY <1>3, <1>4, <1>5, <1>6, <1>7 DEF Records!handleRuntime

\* The first state satisfies the inductive invariant of the records.
LEMMA RecordsInit ==
  ASSUME Records!Init
  PROVE  RecordsInv
<1>1. (CHOOSE k \in Records!Key : TRUE) \in Records!Key
  <2>1. PICK ns \in Namespace, n \in Name : TRUE
    BY RecordsAssumption
  <2>2. [ns |-> ns, name |-> n] \in Records!Key
    BY DEF Records!Key
  <2> QED BY <2>2
<1>2. Records!NewRequest \in RecordRequest
  BY <1>1 DEF Records!NewRequest, RecordRequest, Records!Ops, RecordAnswers, Records!Nothing
<1>3. Records!NoRuntime \in RuntimeType
  BY DEF RuntimeType, Records!NoRuntime, Records!Nothing
<1>4. Records!TypeOK
  <2>1. /\ secrets \in [Records!Key -> Value \cup {"nothing"}]
        /\ runtimes \in [Name -> RuntimeType]
        /\ recordReq \in [Client -> RecordRequest]
        /\ gone \subseteq Records!Key
    BY <1>2, <1>3 DEF Records!Init, Records!Nothing
  <2> QED BY <2>1, RecordTypes
<1> QED BY <1>4, RecordsAssumption
        DEF RecordsInv, RecordLeft, Records!Init, Records!DeletedStaysGone

\* Every step keeps it.
LEMMA RecordsStep ==
  ASSUME RecordsInv, [Records!Next]_(Records!vars)
  PROVE  RecordsInv'
<1>1. /\ Records!TypeOK /\ recordLeft \in RecordLeft /\ Records!DeletedStaysGone
      /\ runtimes \in [Name -> RuntimeType] /\ recordReq \in [Client -> RecordRequest]
      /\ secrets \in [Records!Key -> Value \cup {"nothing"}]
  BY RecordTypes DEF RecordsInv
<1>2. ASSUME RecordStepped PROVE RecordsInv'
  <2>1. /\ runtimes' \in [Name -> RuntimeType] /\ gone' \subseteq Records!Key
        /\ Records!DeletedStaysGone'
    BY <1>1, <1>2, GoneStays DEF RecordStepped
  <2>2. Records!TypeOK'
    BY <1>2, <2>1, RecordTypesLater DEF RecordStepped
  <2> QED BY <1>2, <2>1, <2>2 DEF RecordsInv, RecordStepped
<1>3. ASSUME NEW r \in Client, Records!Arrive(r) PROVE RecordsInv'
  <2>1. PICK table0 \in recordLeft.tables, op \in Records!Ops, k \in Records!Key,
             body \in Value \cup {Records!Nothing} :
          LET q == [recordReq[r] EXCEPT !.table = table0, !.op = op, !.key = k, !.body = body] IN
          /\ body # Records!Nothing => op \in {"create", "update"}
          /\ Records!handleSecret(r, q) \/ Records!handleRuntime(r, q)
    BY <1>3 DEF Records!Arrive
  <2>2. PICK q : q = [recordReq[r] EXCEPT !.table = table0, !.op = op, !.key = k,
                                          !.body = body]
    OBVIOUS
  <2>3. table0 \in {"secrets", "runtimes"} /\ body \in Value \cup {"nothing"}
    BY <1>1 DEF RecordLeft, Records!Nothing
  <2>4. recordReq[r] \in RecordRequest
    BY <1>1
  <2>5. q \in RecordRequest
    BY <2>2, <2>3, <2>4 DEF RecordRequest
  <2>6. Records!handleSecret(r, q) \/ Records!handleRuntime(r, q)
    BY <2>1, <2>2
  <2> QED BY <1>1, <1>2, <2>5, <2>6, SecretStep, RuntimeStep
<1>4. ASSUME NEW r \in Client, Records!Decode(r) PROVE RecordsInv'
  <2>1. UNCHANGED <<secrets, recordLeft>> /\ RuntimesSame
    BY <1>4 DEF Records!Decode, RuntimesSame
  <2>2. recordReq[r] \in RecordRequest /\ [recordReq[r] EXCEPT !.pc = "write"] \in RecordRequest
    BY <1>1 DEF RecordRequest
  <2>3. recordReq' \in [Client -> RecordRequest]
    <3>1. CASE Records!Answer(r, recordReq[r], "bad request")
      BY <1>1, <2>2, <3>1, RecordAnswered DEF RecordAnswers
    <3>2. CASE recordReq' = [recordReq EXCEPT ![r].pc = "write"]
      BY <1>1, <2>2, <3>2
    <3> QED BY <1>4, <3>1, <3>2 DEF Records!Decode
  <2> QED BY <1>1, <1>2, <2>1, <2>3 DEF RecordStepped
<1>5. ASSUME NEW r \in Client, Records!WriteBack(r) PROVE RecordsInv'
  <2>1. PICK q \in RecordRequest : q = recordReq[r]
    BY <1>1
  <2>2. CASE Records!Fails(r, q)
    BY <1>1, <1>2, <2>2, RecordFails
  <2>3. CASE /\ runtimes' = Records!UpdateRuntime(q)
             /\ Records!Answer(r, q, IF Records!Stored(q.key) THEN "ok" ELSE "error")
             /\ UNCHANGED <<secrets, gone, recordLeft>>
    <3>1. /\ q.key \in Records!Key /\ q.body \in Value \cup {"nothing"} /\ q.key.name \in Name
      BY DEF RecordRequest, Records!Key
    <3>2. \E a \in RecordAnswers : Records!Answer(r, q, a)
      BY <2>3 DEF RecordAnswers
    <3>3. recordReq' \in [Client -> RecordRequest]
      BY <1>1, <3>2, RecordAnswered
    <3>4. PICK new : new = [runtimes[q.key.name] EXCEPT !.value = q.body]
      OBVIOUS
    <3>5. new \in RuntimeType /\ new.ns = runtimes[q.key.name].ns
      BY <1>1, <3>1, <3>4, RuntimeValue
    <3>6. \/ runtimes' = runtimes
          \/ runtimes' = [runtimes EXCEPT ![q.key.name] = new]
      BY <1>1, <2>3, <3>1, <3>4 DEF Records!UpdateRuntime
    <3>7. RuntimesSame \/ RuntimeWritten(q.key, new)
      BY <2>3, <3>5, <3>6 DEF RuntimesSame, RuntimeWritten
    <3> QED BY <1>1, <1>2, <2>3, <3>1, <3>3, <3>5, <3>7 DEF RecordStepped
  <2> QED BY <1>5, <2>1, <2>2, <2>3 DEF Records!WriteBack
<1>6. CASE UNCHANGED Records!vars
  <2>1. UNCHANGED <<secrets, recordReq, recordLeft>> /\ RuntimesSame
    BY <1>6 DEF Records!vars, RuntimesSame
  <2> QED BY <1>1, <1>2, <2>1 DEF RecordStepped
<1> QED BY <1>3, <1>4, <1>5, <1>6 DEF Records!Next

\* For every set of names and requests: a runtime whose deletion was
\* acknowledged stays gone until it is created again, whatever update read it
\* before (runtimes.go:161, :210).
THEOREM RuntimesStayDeleted == Records!Spec => [](Records!TypeOK /\ DeletedStaysGone)
<1>1. Records!Init => RecordsInv
  BY RecordsInit
<1>2. RecordsInv /\ [Records!Next]_(Records!vars) => RecordsInv'
  BY RecordsStep
<1>3. RecordsInv => Records!TypeOK /\ DeletedStaysGone
  BY DEF RecordsInv, DeletedStaysGone
<1> QED BY <1>1, <1>2, <1>3, PTL DEF Records!Spec

-----------------------------------------------------------------------------
(* Contexts *)

ContextLeft == [cmds : SUBSET Ctx!Commands, kills : Nat]

\* A configuration whose current context is one of its contexts.
Good(cfg) == cfg.current = "none" \/ cfg.current \in cfg.contexts

\* A command that changes a context names one.
Named(q) == q.pc = "change" => q.name \in Context /\ q.to \in Context

\* Until a write is cut short or two mix, the file and every copy of it that a
\* command holds are good: overlapping commands lose changes, never this.
ContextsInv ==
  /\ Ctx!TypeOK
  /\ contextLeft \in ContextLeft
  /\ \A p \in Process : Named(proc[p])
  /\ ~ harmed => /\ file \in Ctx!Config /\ Good(file)
                 /\ \A p \in Process : Good(proc[p].cfg)

ProcessType ==
  [pc : {"idle", "change", "truncate", "write", "done"}, cmd : Ctx!Commands,
   name : Context \cup {"none"}, to : Context \cup {"none"}, cfg : Ctx!Config,
   dirty : BOOLEAN, result : {"none", "ok", "error"}]

\* The type invariant of the contexts, with the named record sets.
LEMMA ContextTypes ==
  Ctx!TypeOK <=> /\ file \in Ctx!Config \cup {Ctx!Garbage}
                 /\ proc \in [Process -> ProcessType]
                 /\ harmed \in BOOLEAN
BY DEF Ctx!TypeOK, ProcessType, Ctx!None

\* ContextTypes, of the state after a step.
LEMMA ContextTypesLater ==
  /\ file' \in Ctx!Config \cup {Ctx!Garbage}
  /\ proc' \in [Process -> ProcessType]
  /\ harmed' \in BOOLEAN
  => Ctx!TypeOK'
BY DEF Ctx!TypeOK, ProcessType, Ctx!None

\* A configuration without contexts is good.
LEMMA EmptyGood == Ctx!Empty \in Ctx!Config /\ Good(Ctx!Empty)
BY DEF Ctx!Empty, Ctx!Config, Ctx!None, Good

\* Every command makes a good configuration of a good one.
LEMMA AddGood ==
  ASSUME NEW cfg \in Ctx!Config, NEW name \in Context, NEW new \in Ctx!Add(cfg, name)
  PROVE  new \in Ctx!Config /\ (Good(cfg) => Good(new))
<1>1. PICK c \in {name} \cup (IF cfg.current = "none" THEN {} ELSE {cfg.current}) :
        new = [current |-> c, contexts |-> cfg.contexts \cup {name}]
  BY DEF Ctx!Add, Ctx!None
<1> QED BY <1>1 DEF Ctx!Config, Ctx!None, Good

\* "use" keeps a good configuration good.
LEMMA UseGood ==
  ASSUME NEW cfg \in Ctx!Config, NEW name \in Context, NEW new \in Ctx!Use(cfg, name)
  PROVE  new \in Ctx!Config /\ (Good(cfg) => Good(new))
BY DEF Ctx!Use, Ctx!Config, Ctx!None, Good

\* "delete" takes the current context with its name.
LEMMA DeleteGood ==
  ASSUME NEW cfg \in Ctx!Config, NEW name \in Context, NEW new \in Ctx!Delete(cfg, name)
  PROVE  new \in Ctx!Config /\ (Good(cfg) => Good(new))
<1>1. PICK rest : rest = cfg.contexts \ {name}
  OBVIOUS
<1>2. PICK c \in IF cfg.current # name THEN {cfg.current}
                 ELSE IF rest = {} THEN {"none"} ELSE rest :
        new = [current |-> c, contexts |-> rest]
  BY <1>1 DEF Ctx!Delete, Ctx!None
<1> QED BY <1>1, <1>2 DEF Ctx!Config, Ctx!None, Good

\* "rename" takes the current context along.
LEMMA RenameGood ==
  ASSUME NEW cfg \in Ctx!Config, NEW old \in Context, NEW to \in Context,
         NEW new \in Ctx!RenameContext(cfg, old, to)
  PROVE  new \in Ctx!Config /\ (Good(cfg) => Good(new))
BY DEF Ctx!RenameContext, Ctx!Config, Ctx!None, Good

\* What a step does to the commands: each keeps its copy, drops it, or holds
\* one that is as good as the file and the copies were.
CopiesKept ==
  /\ proc' \in [Process -> ProcessType]
  /\ \A p \in Process : Named(proc'[p]) /\ (~ harmed => Good(proc'[p].cfg))

\* One command's record changes.
LEMMA OneCopy ==
  ASSUME ContextsInv, NEW p \in Process, NEW q \in ProcessType,
         proc' = [proc EXCEPT ![p] = q], Named(q), ~ harmed => Good(q.cfg)
  PROVE  CopiesKept
<1>1. proc \in [Process -> ProcessType]
  BY ContextTypes DEF ContextsInv
<1>2. /\ proc' \in [Process -> ProcessType] /\ proc'[p] = q
      /\ \A s \in Process : s # p => proc'[s] = proc[s]
  BY <1>1
<1> QED BY <1>2 DEF ContextsInv, CopiesKept

\* A command ends.
LEMMA FinishKept ==
  ASSUME ContextsInv, NEW p \in Process, NEW result \in {"ok", "error"},
         Ctx!Finish(p, result)
  PROVE  CopiesKept
<1>1. proc[p] \in ProcessType
  BY ContextTypes DEF ContextsInv
<1>2. PICK q : q = [proc[p] EXCEPT !.pc = "done", !.result = result, !.cfg = Ctx!Empty]
  OBVIOUS
<1>3. q \in ProcessType /\ q.cfg = Ctx!Empty /\ Named(q)
  BY <1>1, <1>2, EmptyGood DEF ProcessType, Named
<1>4. proc' = [proc EXCEPT ![p] = q]
  BY <1>2 DEF Ctx!Finish
<1> QED BY <1>3, <1>4, EmptyGood, OneCopy

\* A command reads the file; one that is not well formed is an error.
LEMMA LoadKept ==
  ASSUME ContextsInv, NEW p \in Process, Ctx!Load(p)
  PROVE  CopiesKept
<1>1. /\ proc[p] \in ProcessType /\ file \in Ctx!Config \cup {Ctx!Garbage}
      /\ proc \in [Process -> ProcessType]
  BY ContextTypes DEF ContextsInv
<1>2. PICK cmd \in contextLeft.cmds, name \in Context, to \in Context :
        proc' = [proc EXCEPT ![p] =
                   IF file = Ctx!Garbage
                     THEN [@ EXCEPT !.pc = "done", !.result = "error"]
                     ELSE [@ EXCEPT !.pc = "change", !.cmd = cmd, !.name = name, !.to = to,
                                    !.cfg = file]]
  BY DEF Ctx!Load
<1>3. CASE file = Ctx!Garbage
  <2>1. PICK q : q = [proc[p] EXCEPT !.pc = "done", !.result = "error"]
    OBVIOUS
  <2>2. q \in ProcessType /\ q.cfg = proc[p].cfg /\ Named(q)
    BY <1>1, <2>1 DEF ProcessType, Named
  <2>3. proc' = [proc EXCEPT ![p] = q]
    BY <1>2, <1>3, <2>1
  <2>4. ~ harmed => Good(q.cfg)
    BY <2>2 DEF ContextsInv
  <2> QED BY <2>2, <2>3, <2>4, OneCopy
<1>4. CASE file # Ctx!Garbage
  <2>1. PICK q : q = [proc[p] EXCEPT !.pc = "change", !.cmd = cmd, !.name = name, !.to = to,
                                     !.cfg = file]
    OBVIOUS
  <2>2. cmd \in Ctx!Commands /\ file \in Ctx!Config
    BY <1>1, <1>4 DEF ContextsInv, ContextLeft
  <2>3. q \in ProcessType /\ q.cfg = file /\ Named(q)
    BY <1>1, <2>1, <2>2 DEF ProcessType, Named
  <2>4. proc' = [proc EXCEPT ![p] = q]
    BY <1>2, <1>4, <2>1
  <2>5. ~ harmed => Good(q.cfg)
    BY <2>3 DEF ContextsInv
  <2> QED BY <2>3, <2>4, <2>5, OneCopy
<1> QED BY <1>3, <1>4

\* A command changes its copy.
LEMMA ChangeKept ==
  ASSUME ContextsInv, NEW p \in Process, Ctx!Change(p)
  PROVE  CopiesKept
<1>1. /\ proc[p] \in ProcessType /\ proc \in [Process -> ProcessType]
      /\ proc[p].pc = "change" /\ Named(proc[p])
  BY ContextTypes DEF ContextsInv, Ctx!Change
<1>2. CASE Ctx!Finish(p, "error") \/ Ctx!Finish(p, "ok")
  BY <1>2, FinishKept
<1>3. ASSUME NEW new \in Ctx!Changed(p),
             proc' = [proc EXCEPT ![p].pc = "truncate", ![p].cfg = new]
      PROVE  CopiesKept
  <2>1. PICK cfg \in Ctx!Config, name \in Context, to \in Context :
          cfg = proc[p].cfg /\ name = proc[p].name /\ to = proc[p].to
    BY <1>1 DEF ProcessType, Named
  <2>2. proc[p].cmd \in {"add", "use", "delete", "rename"}
    BY <1>1 DEF ProcessType, Ctx!Commands
  <2>3. \/ new \in Ctx!Add(cfg, name) \/ new \in Ctx!Use(cfg, name)
        \/ new \in Ctx!Delete(cfg, name) \/ new \in Ctx!RenameContext(cfg, name, to)
    BY <1>3, <2>1, <2>2 DEF Ctx!Changed
  <2>4. new \in Ctx!Config /\ (Good(cfg) => Good(new))
    BY <2>3, AddGood, UseGood, DeleteGood, RenameGood
  <2>5. PICK q : q = [proc[p] EXCEPT !.pc = "truncate", !.cfg = new]
    OBVIOUS
  <2>6. q \in ProcessType /\ q.cfg = new /\ Named(q)
    BY <1>1, <2>4, <2>5 DEF ProcessType, Named
  <2>7. proc' = [proc EXCEPT ![p] = q]
    BY <1>1, <1>3, <2>5
  <2>8. ~ harmed => Good(q.cfg)
    BY <2>1, <2>4, <2>6 DEF ContextsInv
  <2> QED BY <2>6, <2>7, <2>8, OneCopy
<1> QED BY <1>2, <1>3 DEF Ctx!Change

\* os.WriteFile empties the file.
LEMMA TruncateKept ==
  ASSUME ContextsInv, NEW p \in Process, Ctx!Truncate(p)
  PROVE  CopiesKept
<1>1. proc \in [Process -> ProcessType]
  BY ContextTypes DEF ContextsInv
<1>2. PICK q : q = [proc[p] EXCEPT !.pc = "write", !.dirty = FALSE]
  OBVIOUS
<1>3. q \in ProcessType /\ q.cfg = proc[p].cfg /\ Named(q)
  BY <1>1, <1>2, ZenonT(30) DEF ProcessType, Named
<1>4. proc' = [proc EXCEPT ![p] = q]
  BY <1>1, <1>2 DEF Ctx!Truncate
<1>5. ~ harmed => Good(q.cfg)
  BY <1>3 DEF ContextsInv
<1> QED BY <1>3, <1>4, <1>5, OneCopy

\* os.WriteFile writes the copy.
LEMMA WriteKept ==
  ASSUME ContextsInv, NEW p \in Process, Ctx!Write(p)
  PROVE  CopiesKept
<1>1. proc \in [Process -> ProcessType]
  BY ContextTypes DEF ContextsInv
<1>2. proc' = [q \in Process |->
                 IF q = p THEN [proc[p] EXCEPT !.pc = "done", !.result = "ok", !.cfg = Ctx!Empty]
                 ELSE IF proc[q].pc = "write" THEN [proc[q] EXCEPT !.dirty = TRUE]
                 ELSE proc[q]]
  BY DEF Ctx!Write
<1>3. ASSUME NEW q \in Process
      PROVE  /\ proc'[q] \in ProcessType /\ Named(proc'[q])
             /\ ~ harmed => Good(proc'[q].cfg)
  <2>1. proc[q] \in ProcessType /\ Named(proc[q]) /\ (~ harmed => Good(proc[q].cfg))
    BY <1>1 DEF ContextsInv
  <2>2. CASE q = p
    <3>1. proc'[q] = [proc[q] EXCEPT !.pc = "done", !.result = "ok", !.cfg = Ctx!Empty]
      BY <1>2, <2>2
    <3>2. proc'[q] \in ProcessType /\ proc'[q].cfg = Ctx!Empty /\ Named(proc'[q])
      BY <2>1, <3>1, EmptyGood DEF ProcessType, Named
    <3> QED BY <3>2, EmptyGood
  <2>3. CASE q # p /\ proc[q].pc = "write"
    <3>1. proc'[q] = [proc[q] EXCEPT !.dirty = TRUE]
      BY <1>2, <2>3
    <3>2. proc'[q] \in ProcessType /\ proc'[q].cfg = proc[q].cfg /\ Named(proc'[q])
      BY <2>1, <2>3, <3>1 DEF ProcessType, Named
    <3> QED BY <2>1, <3>2
  <2>4. CASE q # p /\ proc[q].pc # "write"
    BY <1>2, <2>1, <2>4
  <2> QED BY <2>2, <2>3, <2>4
<1>4. proc' \in [Process -> ProcessType]
  BY <1>2, <1>3
<1> QED BY <1>3, <1>4 DEF CopiesKept

\* The first state satisfies the inductive invariant of the contexts.
LEMMA ContextsInit ==
  ASSUME Ctx!Init
  PROVE  ContextsInv
<1>1. Ctx!Idle \in ProcessType /\ Ctx!Idle.cfg = Ctx!Empty /\ Named(Ctx!Idle)
  BY EmptyGood DEF Ctx!Idle, ProcessType, Ctx!None, Ctx!Commands, Named
<1>2. /\ file = Ctx!Empty /\ proc = [p \in Process |-> Ctx!Idle] /\ harmed = FALSE
      /\ contextLeft \in ContextLeft
  BY ContextsAssumption DEF Ctx!Init, ContextLeft
<1>3. Ctx!TypeOK
  BY <1>1, <1>2, EmptyGood, ContextTypes
<1>4. \A p \in Process : Named(proc[p]) /\ Good(proc[p].cfg)
  BY <1>1, <1>2, EmptyGood
<1> QED BY <1>2, <1>3, <1>4, EmptyGood DEF ContextsInv

\* Every step keeps it.
LEMMA ContextsStep ==
  ASSUME ContextsInv, [Ctx!Next]_(Ctx!vars)
  PROVE  ContextsInv'
<1>1. /\ file \in Ctx!Config \cup {Ctx!Garbage} /\ proc \in [Process -> ProcessType]
      /\ harmed \in BOOLEAN /\ contextLeft \in ContextLeft
      /\ ~ harmed => file \in Ctx!Config /\ Good(file)
      /\ \A p \in Process : Named(proc[p]) /\ (~ harmed => Good(proc[p].cfg))
  BY ContextTypes DEF ContextsInv
<1>2. ASSUME CopiesKept, contextLeft' \in ContextLeft,
             file' \in Ctx!Config \cup {Ctx!Garbage}, harmed' \in BOOLEAN,
             ~ harmed' => ~ harmed /\ file' \in Ctx!Config /\ Good(file')
      PROVE  ContextsInv'
  <2>1. Ctx!TypeOK'
    BY <1>2, ContextTypesLater DEF CopiesKept
  <2> QED BY <1>2, <2>1 DEF ContextsInv, CopiesKept
<1>3. ASSUME NEW p \in Process, Ctx!Load(p) PROVE ContextsInv'
  <2>1. UNCHANGED <<file, harmed, contextLeft>>
    BY <1>3 DEF Ctx!Load
  <2> QED BY <1>1, <1>2, <1>3, <2>1, LoadKept
<1>4. ASSUME NEW p \in Process, Ctx!Change(p) PROVE ContextsInv'
  <2>1. UNCHANGED <<file, harmed, contextLeft>>
    BY <1>4 DEF Ctx!Change
  <2> QED BY <1>1, <1>2, <1>4, <2>1, ChangeKept
<1>5. ASSUME NEW p \in Process, Ctx!Truncate(p) PROVE ContextsInv'
  <2>1. UNCHANGED <<harmed, contextLeft>> /\ file' = Ctx!Empty
    BY <1>5 DEF Ctx!Truncate
  <2> QED BY <1>1, <1>2, <1>5, <2>1, EmptyGood, TruncateKept
<1>6. ASSUME NEW p \in Process, Ctx!Write(p) PROVE ContextsInv'
  <2>1. /\ UNCHANGED contextLeft
        /\ \/ file' = proc[p].cfg /\ UNCHANGED harmed
           \/ file' = Ctx!Garbage /\ harmed' = TRUE
    BY <1>6 DEF Ctx!Write
  <2>2. proc[p].cfg \in Ctx!Config
    BY <1>1 DEF ProcessType
  <2>3. CopiesKept
    BY <1>6, WriteKept
  <2>4. CASE file' = proc[p].cfg /\ UNCHANGED harmed
    BY <1>1, <1>2, <2>1, <2>2, <2>3, <2>4
  <2>5. CASE file' = Ctx!Garbage /\ harmed' = TRUE
    BY <1>1, <1>2, <2>1, <2>3, <2>5
  <2> QED BY <2>1, <2>4, <2>5
<1>7. ASSUME NEW p \in Process, Ctx!Kill(p) PROVE ContextsInv'
  <2>1. /\ harmed' = TRUE /\ Ctx!Finish(p, "error") /\ contextLeft.kills > 0
        /\ contextLeft' = [contextLeft EXCEPT !.kills = @ - 1]
        /\ file' \in {file, Ctx!Garbage, [current |-> proc[p].cfg.current, contexts |-> {}]}
    BY <1>7 DEF Ctx!Kill
  <2>2. contextLeft' \in ContextLeft
    BY <1>1, <2>1 DEF ContextLeft
  <2>3. proc[p].cfg \in Ctx!Config
    BY <1>1 DEF ProcessType
  <2>4. [current |-> proc[p].cfg.current, contexts |-> {}] \in Ctx!Config
    BY <2>3 DEF Ctx!Config
  <2>5. file' \in Ctx!Config \cup {Ctx!Garbage}
    BY <1>1, <2>1, <2>4
  <2> QED BY <1>2, <2>1, <2>2, <2>5, FinishKept
<1>8. CASE UNCHANGED Ctx!vars
  <2>1. UNCHANGED <<file, proc, harmed, contextLeft>>
    BY <1>8 DEF Ctx!vars
  <2>2. CopiesKept
    BY <1>1, <2>1 DEF CopiesKept
  <2> QED BY <1>1, <1>2, <2>1, <2>2
<1> QED BY <1>3, <1>4, <1>5, <1>6, <1>7, <1>8 DEF Ctx!Next

\* For every set of contexts and commands, however many overlap: the current
\* context of the file is one of its contexts, unless a write was cut short or
\* two were mixed (resolve.go:61).
THEOREM CurrentAlwaysResolves == Ctx!Spec => [](Ctx!TypeOK /\ CurrentResolves)
<1>1. Ctx!Init => ContextsInv
  BY ContextsInit
<1>2. ContextsInv /\ [Ctx!Next]_(Ctx!vars) => ContextsInv'
  BY ContextsStep
<1>3. ContextsInv => Ctx!TypeOK /\ CurrentResolves
  <2>1. SUFFICES ASSUME ContextsInv, ~ harmed
                 PROVE  file # Ctx!Garbage /\ Ctx!Resolve(file, Ctx!None, Ctx!None) # "error"
    BY DEF ContextsInv, CurrentResolves, Ctx!CurrentResolves
  <2>2. file \in Ctx!Config /\ Good(file)
    BY <2>1 DEF ContextsInv
  <2>3. file.current \in Context \cup {"none"} /\ file.contexts \subseteq Context
    BY <2>2 DEF Ctx!Config, Ctx!None
  <2>4. file # Ctx!Garbage
    BY <2>3, ContextsAssumption DEF Ctx!Garbage
  <2>5. Ctx!Resolve(file, Ctx!None, Ctx!None) # "error"
    BY <2>2, <2>3, ContextsAssumption DEF Ctx!Resolve, Ctx!None, Good
  <2> QED BY <2>4, <2>5
<1> QED BY <1>1, <1>2, <1>3, PTL DEF Ctx!Spec

-----------------------------------------------------------------------------
(* The cluster state *)

VersionType == [id : Version \cup {Nil}, active : BOOLEAN]

DeploymentType == [versions : Seq(VersionType), replicas : Replicas \cup {1}]

StateType ==
  [deployments : [Name -> DeploymentType \cup {Nil}], active : [Name -> Version \cup {Nil}],
   assignments : [Name -> SUBSET Member], nodes : SUBSET Member]

CommandType ==
  [type : {"create"}, name : Name, version : Version \cup {Nil}, replicas : Replicas \cup {1}]
    \cup [type : {"delete"}, name : Name]
    \cup [type : {"scale"}, name : Name, replicas : Replicas \cup {1}]
    \cup [type : {"activate"}, name : Name, version : Version \cup {Nil}]
    \cup [type : {"assign"}, name : Name, nodes : SUBSET Member]
    \cup [type : {"join", "leave"}, node : Member]

\* The flags of the versions and ActiveVersions, in one state.
FlagsTrue(s) ==
  \A d \in Name :
    LET dep == s.deployments[d] IN
    IF dep = Nil THEN s.active[d] = Nil
    ELSE \A i \in DOMAIN dep.versions :
           dep.versions[i].active => dep.versions[i].id = s.active[d]

\* A state that Apply can be given.
Proper(s) == s \in StateType /\ FlagsTrue(s)

Exists(s, d) == s.deployments[d] # Nil

Size(s, d) == IF s.deployments[d] = Nil THEN 0 ELSE s.deployments[d].replicas

\* Of the two, the deployment and its versions.
LEMMA DeploymentFields ==
  ASSUME NEW s \in StateType, NEW d \in Name, Exists(s, d)
  PROVE  /\ s.deployments[d] \in DeploymentType
         /\ s.deployments[d].versions \in Seq(VersionType)
         /\ s.deployments[d].replicas \in Replicas \cup {1}
BY DEF Exists, StateType, DeploymentType

\* No deployment is the word for the lack of one.
LEMMA NoDeployment == Nil \notin DeploymentType
BY ClusterAssumption DEF DeploymentType, VersionType

\* Of a list of versions with other flags.
LEMMA Reflagged ==
  ASSUME NEW vs \in Seq(VersionType), NEW f \in [DOMAIN vs -> VersionType]
  PROVE  f \in Seq(VersionType) /\ Len(f) = Len(vs)
OBVIOUS

\* AddVersion leaves one flag, that of the new version.
LEMMA AddVersionFlags ==
  ASSUME NEW vs \in Seq(VersionType), NEW v \in Version \cup {Nil}
  PROVE  /\ Cluster!AddVersion(vs, v) \in Seq(VersionType)
         /\ \A i \in DOMAIN Cluster!AddVersion(vs, v) :
              Cluster!AddVersion(vs, v)[i].active => Cluster!AddVersion(vs, v)[i].id = v
<1> DEFINE old == [i \in DOMAIN vs |-> [vs[i] EXCEPT !.active = FALSE]]
<1>0. \A i \in DOMAIN vs : vs[i] \in VersionType
  OBVIOUS
<1>1. old \in [DOMAIN vs -> VersionType]
  BY <1>0 DEF VersionType
<1>2. old \in Seq(VersionType) /\ Len(old) = Len(vs)
  BY <1>1, Reflagged
<1>3. \A i \in 1..Len(vs) : old[i].active = FALSE
  BY <1>0 DEF VersionType
<1>4. Cluster!Flagged(v) \in VersionType /\ Cluster!Flagged(v).id = v
  BY DEF Cluster!Flagged, VersionType
<1> HIDE DEF old
<1>5. Cluster!AddVersion(vs, v) = Append(old, Cluster!Flagged(v))
  BY DEF Cluster!AddVersion, old
<1> QED BY <1>2, <1>3, <1>4, <1>5

\* What Apply does to the deployment that the command names.
Written(s, c, t) ==
  /\ t.assignments[c.name] =
       CASE c.type = "delete" -> {} [] c.type = "assign" -> c.nodes
         [] OTHER -> s.assignments[c.name]
  /\ Exists(t, c.name) = CASE c.type = "create" -> TRUE [] c.type = "delete" -> FALSE
                           [] OTHER -> Exists(s, c.name)
  /\ Size(t, c.name) =
       CASE c.type = "create" -> c.replicas
         [] c.type = "delete" -> 0
         [] c.type = "scale" /\ Exists(s, c.name) -> c.replicas
         [] OTHER -> Size(s, c.name)
  /\ c.type = "create" /\ c.version # Nil => t.active[c.name] = c.version
  /\ c.type = "delete" => t.active[c.name] = Nil
  /\ c.type = "activate" /\ Exists(s, c.name) => t.active[c.name] = c.version
  /\ c.type = "activate" /\ ~ Exists(s, c.name) => t.active[c.name] = s.active[c.name]
  /\ c.type \notin {"create", "delete", "activate"} => t.active[c.name] = s.active[c.name]

\* Apply touches no other deployment.
SameOf(s, t, d) ==
  /\ t.deployments[d] = s.deployments[d] /\ t.active[d] = s.active[d]
  /\ t.assignments[d] = s.assignments[d]

Touched(s, c, t) ==
  /\ Proper(t)
  /\ \A d \in Name : (c.type \in {"join", "leave"} \/ d # c.name) => SameOf(s, t, d)
  /\ c.type \notin {"join", "leave"} => c.name \in Name /\ Written(s, c, t)
  /\ t.nodes = CASE c.type = "join" -> s.nodes \cup {c.node}
                 [] c.type = "leave" -> s.nodes \ {c.node}
                 [] OTHER -> s.nodes

\* The flags stay true when one deployment changes and its own are true.
LEMMA FlagsKept ==
  ASSUME NEW s, Proper(s), NEW t \in StateType, NEW e \in Name,
         \A d \in Name : d # e => SameOf(s, t, d),
         IF t.deployments[e] = Nil THEN t.active[e] = Nil
         ELSE \A i \in DOMAIN t.deployments[e].versions :
                t.deployments[e].versions[i].active
                  => t.deployments[e].versions[i].id = t.active[e]
  PROVE  Proper(t)
<1>1. ASSUME NEW d \in Name
      PROVE  IF t.deployments[d] = Nil THEN t.active[d] = Nil
             ELSE \A i \in DOMAIN t.deployments[d].versions :
                    t.deployments[d].versions[i].active
                      => t.deployments[d].versions[i].id = t.active[d]
  <2>1. CASE d = e
    BY <2>1
  <2>2. CASE d # e
    BY <2>2 DEF SameOf, Proper, FlagsTrue
  <2> QED BY <2>1, <2>2
<1> QED BY <1>1 DEF Proper, FlagsTrue

\* The update that most commands are.
Put(s, e, dep, act, ns) ==
  [s EXCEPT !.deployments[e] = dep, !.active[e] = act, !.assignments[e] = ns]

\* What such an update is.
IsPut(s, e, dep, act, ns, t) ==
  /\ t \in StateType /\ t.nodes = s.nodes
  /\ \A d \in Name : d # e => SameOf(s, t, d)
  /\ t.deployments[e] = dep /\ t.active[e] = act /\ t.assignments[e] = ns

\* Put does that.
LEMMA PutFields ==
  ASSUME NEW s \in StateType, NEW e \in Name, NEW dep \in DeploymentType \cup {Nil},
         NEW act \in Version \cup {Nil}, NEW ns \in SUBSET Member
  PROVE  IsPut(s, e, dep, act, ns, Put(s, e, dep, act, ns))
BY DEF IsPut, Put, StateType, SameOf

\* Apply of a creation or an update.
LEMMA CreateTouches ==
  ASSUME NEW s, Proper(s), NEW c \in CommandType, c.type = "create"
  PROVE  Touched(s, c, Cluster!Apply(s, c))
<1>1. /\ c.name \in Name /\ c.version \in Version \cup {Nil} /\ c.replicas \in Replicas \cup {1}
  BY DEF CommandType
<1>2. Cluster!Apply(s, c) = Cluster!ApplyDeployment(s, c)
  BY DEF Cluster!Apply
<1>3. s \in StateType /\ FlagsTrue(s)
  BY DEF Proper
<1> DEFINE d == s.deployments[c.name]
           new == c.version # Nil /\ c.version # s.active[c.name]
           vs == IF new THEN Cluster!AddVersion(d.versions, c.version) ELSE d.versions
           act == IF new THEN c.version ELSE s.active[c.name]
<1>4. s.active[c.name] \in Version \cup {Nil} /\ s.assignments[c.name] \in SUBSET Member
  BY <1>1, <1>3 DEF StateType
<1>7. \A x, y : [s EXCEPT !.deployments[c.name] = x, !.active[c.name] = y]
                = Put(s, c.name, x, y, s.assignments[c.name])
  <2>1. [s.assignments EXCEPT ![c.name] = s.assignments[c.name]] = s.assignments
    BY <1>3 DEF StateType
  <2> QED BY <1>3, <2>1 DEF StateType, Put
<1>5. CASE d = Nil
  <2> DEFINE dep == [versions |-> <<Cluster!Flagged(c.version)>>, replicas |-> c.replicas]
             t == Put(s, c.name, dep, c.version, s.assignments[c.name])
  <2>1. dep \in DeploymentType
    BY <1>1 DEF DeploymentType, VersionType, Cluster!Flagged
  <2>2. Cluster!Apply(s, c) = t
    BY <1>2, <1>5, <1>7 DEF Cluster!ApplyDeployment, Put
  <2>3. IsPut(s, c.name, dep, c.version, s.assignments[c.name], t)
    BY <1>1, <1>3, <1>4, <2>1, PutFields
  <2>4. dep # Nil /\ dep.replicas = c.replicas
    BY <2>1, NoDeployment
  <2>5. \A i \in DOMAIN dep.versions : dep.versions[i].active => dep.versions[i].id = c.version
    BY DEF Cluster!Flagged
  <2> HIDE DEF t, dep
  <2>6. Proper(t)
    BY <1>1, <2>3, <2>4, <2>5, FlagsKept DEF IsPut
  <2> QED BY <1>1, <2>2, <2>3, <2>4, <2>6 DEF Touched, Written, IsPut, Exists, Size
<1>6. CASE d # Nil
  <2> DEFINE dep == [versions |-> vs, replicas |-> c.replicas]
             t == Put(s, c.name, dep, act, s.assignments[c.name])
  <2>0. d.versions \in Seq(VersionType)
    BY <1>1, <1>3, <1>6, DeploymentFields DEF Exists
  <2>1. vs \in Seq(VersionType) /\ act \in Version \cup {Nil}
    BY <1>1, <1>4, <2>0, AddVersionFlags
  <2>2. \A i \in DOMAIN vs : vs[i].active => vs[i].id = act
    BY <1>1, <1>3, <1>6, <2>0, AddVersionFlags DEF FlagsTrue
  <2>3. Cluster!Apply(s, c) = t
    BY <1>2, <1>6, <1>7 DEF Cluster!ApplyDeployment, Put
  <2>4. c.version # Nil => act = c.version
    OBVIOUS
  <2> HIDE DEF vs, act
  <2>5. dep \in DeploymentType \cup {Nil} /\ dep \in DeploymentType /\ dep.versions = vs /\ dep.replicas = c.replicas
    BY <1>1, <2>1 DEF DeploymentType
  <2> HIDE DEF dep
  <2>6. IsPut(s, c.name, dep, act, s.assignments[c.name], t)
    BY <1>1, <1>3, <1>4, <2>1, <2>5, PutFields
  <2> HIDE DEF t
  <2>7. dep # Nil
    BY <2>5, NoDeployment
  <2>8. Proper(t)
    BY <1>1, <2>2, <2>5, <2>6, <2>7, FlagsKept DEF IsPut
  <2> QED BY <1>1, <2>3, <2>4, <2>5, <2>6, <2>7, <2>8 DEF Touched, Written, IsPut, Exists, Size
<1> QED BY <1>5, <1>6

\* Apply of a deletion.
LEMMA DeleteTouches ==
  ASSUME NEW s, Proper(s), NEW c \in CommandType, c.type = "delete"
  PROVE  Touched(s, c, Cluster!Apply(s, c))
<1> DEFINE t == Put(s, c.name, Nil, Nil, {})
<1>1. c.name \in Name /\ s \in StateType
  BY DEF CommandType, Proper
<1>2. Cluster!Apply(s, c) = t
  BY DEF Cluster!Apply, Cluster!ApplyDelete, Put
<1>3. IsPut(s, c.name, Nil, Nil, {}, t)
  BY <1>1, PutFields
<1> HIDE DEF t
<1>4. Proper(t)
  BY <1>1, <1>3, FlagsKept DEF IsPut
<1> QED BY <1>1, <1>2, <1>3, <1>4 DEF Touched, Written, IsPut, Exists, Size

\* A command whose deployment is not there changes nothing.
LEMMA IdleTouches ==
  ASSUME NEW s, Proper(s), NEW c \in CommandType, c.type \in {"activate", "scale"},
         ~ Exists(s, c.name)
  PROVE  Touched(s, c, s)
<1>1. c.name \in Name
  BY DEF CommandType
<1> QED BY <1>1 DEF Touched, Written, SameOf, Exists

\* Apply of an activation.
LEMMA ActivateTouches ==
  ASSUME NEW s, Proper(s), NEW c \in CommandType, c.type = "activate"
  PROVE  Touched(s, c, Cluster!Apply(s, c))
<1>1. c.name \in Name /\ c.version \in Version \cup {Nil} /\ s \in StateType
  BY DEF CommandType, Proper
<1>2. Cluster!Apply(s, c) = Cluster!ApplyActivate(s, c)
  BY DEF Cluster!Apply
<1>3. CASE ~ Exists(s, c.name)
  <2>1. Cluster!Apply(s, c) = s
    BY <1>2, <1>3 DEF Cluster!ApplyActivate, Exists
  <2> QED BY <1>3, <2>1, IdleTouches
<1>4. CASE Exists(s, c.name)
  <2> DEFINE d == s.deployments[c.name]
             vs == [i \in DOMAIN d.versions |->
                     [id |-> d.versions[i].id, active |-> d.versions[i].id = c.version]]
             dep == [versions |-> vs, replicas |-> d.replicas]
             t == Put(s, c.name, dep, c.version, s.assignments[c.name])
  <2>1. /\ d \in DeploymentType /\ d.versions \in Seq(VersionType)
        /\ d.replicas \in Replicas \cup {1}
    BY <1>1, <1>4, DeploymentFields
  <2>2. \A i \in DOMAIN d.versions : d.versions[i] \in VersionType
    BY <2>1
  <2>3. vs \in [DOMAIN d.versions -> VersionType]
    BY <2>2 DEF VersionType
  <2>4. vs \in Seq(VersionType)
    BY <2>1, <2>3, Reflagged
  <2>5. \A i \in DOMAIN vs : vs[i].active => vs[i].id = c.version
    OBVIOUS
  <2>6. Cluster!Apply(s, c) = t
    <3>1. [s.assignments EXCEPT ![c.name] = s.assignments[c.name]] = s.assignments
      BY <1>1 DEF StateType
    <3>2. d # Nil
      BY <1>4 DEF Exists
    <3>3. Cluster!Apply(s, c) = [s EXCEPT !.deployments[c.name] = [d EXCEPT !.versions = vs],
                                          !.active[c.name] = c.version]
      BY <1>1, <1>2, <2>1, <3>2 DEF Cluster!ApplyActivate, StateType, DeploymentType
    <3> HIDE DEF vs
    <3>4. [d EXCEPT !.versions = vs] = dep
      BY <2>1 DEF DeploymentType
    <3> HIDE DEF dep
    <3> QED BY <1>1, <3>1, <3>3, <3>4 DEF Put, StateType
  <2> HIDE DEF vs
  <2>7. /\ dep \in DeploymentType \cup {Nil} /\ dep \in DeploymentType
        /\ dep.versions = vs /\ dep.replicas = d.replicas
    BY <2>1, <2>4 DEF DeploymentType
  <2> HIDE DEF dep
  <2>8. IsPut(s, c.name, dep, c.version, s.assignments[c.name], t)
    <3>1. s.assignments[c.name] \in SUBSET Member
      BY <1>1 DEF StateType
    <3> QED BY <1>1, <2>7, <3>1, PutFields
  <2> HIDE DEF t
  <2>9. dep # Nil /\ d # Nil
    BY <1>4, <2>7, NoDeployment DEF Exists
  <2>10. Proper(t)
    BY <1>1, <2>5, <2>7, <2>8, <2>9, FlagsKept DEF IsPut
  <2> QED BY <1>1, <1>4, <2>6, <2>7, <2>8, <2>9, <2>10 DEF Touched, Written, IsPut, Exists, Size
<1> QED BY <1>3, <1>4

\* Apply of a scale change.
LEMMA ScaleTouches ==
  ASSUME NEW s, Proper(s), NEW c \in CommandType, c.type = "scale"
  PROVE  Touched(s, c, Cluster!Apply(s, c))
<1>1. c.name \in Name /\ c.replicas \in Replicas \cup {1} /\ s \in StateType /\ FlagsTrue(s)
  BY DEF CommandType, Proper
<1>2. Cluster!Apply(s, c) = Cluster!ApplyScale(s, c)
  BY DEF Cluster!Apply
<1>3. CASE ~ Exists(s, c.name)
  <2>1. Cluster!Apply(s, c) = s
    BY <1>2, <1>3 DEF Cluster!ApplyScale, Exists
  <2> QED BY <1>3, <2>1, IdleTouches
<1>4. CASE Exists(s, c.name)
  <2> DEFINE d == s.deployments[c.name]
             dep == [versions |-> d.versions, replicas |-> c.replicas]
             t == Put(s, c.name, dep, s.active[c.name], s.assignments[c.name])
  <2>1. d \in DeploymentType /\ d.versions \in Seq(VersionType)
    BY <1>1, <1>4, DeploymentFields
  <2>2. Cluster!Apply(s, c) = t
    <3>1. /\ [s.assignments EXCEPT ![c.name] = s.assignments[c.name]] = s.assignments
          /\ [s.active EXCEPT ![c.name] = s.active[c.name]] = s.active
      BY <1>1 DEF StateType
    <3>2. d # Nil
      BY <1>4 DEF Exists
    <3>3. Cluster!Apply(s, c) =
            [s EXCEPT !.deployments[c.name] = [d EXCEPT !.replicas = c.replicas]]
      BY <1>1, <1>2, <2>1, <3>2 DEF Cluster!ApplyScale, StateType, DeploymentType
    <3>4. [d EXCEPT !.replicas = c.replicas] = dep
      BY <2>1 DEF DeploymentType
    <3> HIDE DEF dep
    <3> QED BY <1>1, <3>1, <3>3, <3>4 DEF Put, StateType
  <2>3. /\ dep \in DeploymentType \cup {Nil} /\ dep \in DeploymentType
        /\ dep.versions = d.versions /\ dep.replicas = c.replicas
    BY <1>1, <2>1 DEF DeploymentType
  <2> HIDE DEF dep
  <2>4. IsPut(s, c.name, dep, s.active[c.name], s.assignments[c.name], t)
    <3>1. s.assignments[c.name] \in SUBSET Member /\ s.active[c.name] \in Version \cup {Nil}
      BY <1>1 DEF StateType
    <3> QED BY <1>1, <2>3, <3>1, PutFields
  <2> HIDE DEF t
  <2>5. dep # Nil /\ d # Nil
    BY <1>4, <2>3, NoDeployment DEF Exists
  <2>6. \A i \in DOMAIN d.versions :
          d.versions[i].active => d.versions[i].id = s.active[c.name]
    BY <1>1, <2>5 DEF FlagsTrue
  <2>7. Proper(t)
    BY <1>1, <2>3, <2>4, <2>5, <2>6, FlagsKept DEF IsPut
  <2> QED BY <1>1, <1>4, <2>2, <2>3, <2>4, <2>5, <2>7 DEF Touched, Written, IsPut, Exists, Size
<1> QED BY <1>3, <1>4

\* Apply of an assignment, and of a node that joins or leaves.
LEMMA OthersTouch ==
  ASSUME NEW s, Proper(s), NEW c \in CommandType, c.type \in {"assign", "join", "leave"}
  PROVE  Touched(s, c, Cluster!Apply(s, c))
<1>1. s \in StateType /\ FlagsTrue(s)
  BY DEF Proper
<1>2. CASE c.type = "assign"
  <2> DEFINE t == [s EXCEPT !.assignments[c.name] = c.nodes]
  <2>1. c.name \in Name /\ c.nodes \in SUBSET Member
    BY <1>2 DEF CommandType
  <2>2. Cluster!Apply(s, c) = t
    BY <1>2 DEF Cluster!Apply, Cluster!ApplyAssign
  <2>3. /\ t \in StateType /\ t.nodes = s.nodes
        /\ t.deployments = s.deployments /\ t.active = s.active
        /\ \A d \in Name : d # c.name => t.assignments[d] = s.assignments[d]
        /\ t.assignments[c.name] = c.nodes
    BY <1>1, <2>1 DEF StateType
  <2> HIDE DEF t
  <2>4. Proper(t)
    BY <1>1, <2>3 DEF Proper, FlagsTrue
  <2> QED BY <1>2, <2>1, <2>2, <2>3, <2>4 DEF Touched, Written, SameOf, Exists, Size
<1>3. CASE c.type \in {"join", "leave"}
  <2> DEFINE t == [s EXCEPT !.nodes = IF c.type = "join" THEN s.nodes \cup {c.node}
                                      ELSE s.nodes \ {c.node}]
  <2>1. c.node \in Member
    BY <1>3 DEF CommandType
  <2>2. Cluster!Apply(s, c) = t
    BY <1>3 DEF Cluster!Apply, Cluster!ApplyJoin, Cluster!ApplyLeave
  <2>3. /\ t \in StateType
        /\ t.nodes = IF c.type = "join" THEN s.nodes \cup {c.node} ELSE s.nodes \ {c.node}
        /\ t.deployments = s.deployments /\ t.active = s.active
        /\ t.assignments = s.assignments
    BY <1>1, <2>1 DEF StateType
  <2> HIDE DEF t
  <2>4. Proper(t)
    BY <1>1, <2>3 DEF Proper, FlagsTrue
  <2> QED BY <1>3, <2>2, <2>3, <2>4 DEF Touched, SameOf
<1> QED BY <1>2, <1>3

\* Every command of Apply, on a state it can be given.
LEMMA ApplyTouches ==
  ASSUME NEW s, Proper(s), NEW c \in CommandType
  PROVE  Touched(s, c, Cluster!Apply(s, c))
<1>1. c.type \in {"create", "delete", "activate", "scale", "assign", "join", "leave"}
  BY DEF CommandType
<1> QED BY <1>1, CreateTouches, DeleteTouches, ActivateTouches, ScaleTouches, OthersTouch

(* The cluster state: states that hold more entries than they should *)

\* Of the commands q, one after i and up to h, of one of the types, is about d.
Rewritten(q, d, types, i, h) ==
  \E j \in (i + 1)..h : q[j].type \in types /\ q[j].name = d

Moved(q, m, i, h) ==
  \E j \in (i + 1)..h : q[j].type \in {"join", "leave"} /\ q[j].node = m

\* Some creation of d among them leaves the version open.
LeftOpen(q, d) ==
  \E j \in DOMAIN q : q[j].type = "create" /\ q[j].name = d /\ q[j].version = Nil

\* What s says of d is what b, the state after i commands, says of it, or a
\* command that s has already seen, one up to h, will say it again.
FollowsAt(q, s, b, d, i, h) ==
  /\ Exists(s, d) = Exists(b, d) \/ Rewritten(q, d, {"create", "delete"}, i, h)
  /\ Size(s, d) = Size(b, d) \/ Rewritten(q, d, {"create", "delete", "scale"}, i, h)
  /\ \/ s.active[d] = b.active[d]
     \/ Rewritten(q, d, {"create", "delete", "activate"}, i, h)
     \/ LeftOpen(q, d)
  /\ \/ s.assignments[d] = b.assignments[d]
     \/ Rewritten(q, d, {"assign", "delete"}, i, h)

NodesFollow(q, s, b, i, h) ==
  \A m \in Member : (m \in s.nodes) = (m \in b.nodes) \/ Moved(q, m, i, h)

Follows(q, s, b, i, h) ==
  (\A d \in Name : FollowsAt(q, s, b, d, i, h)) /\ NodesFollow(q, s, b, i, h)

\* The first of the commands, or one of the others.
LEMMA RewrittenNext ==
  ASSUME NEW q, NEW i \in Nat, NEW h \in Nat, NEW d, NEW T, Rewritten(q, d, T, i, h)
  PROVE  (q[i + 1].type \in T /\ q[i + 1].name = d) \/ Rewritten(q, d, T, i + 1, h)
<1>1. PICK j \in (i + 1)..h : q[j].type \in T /\ q[j].name = d
  BY DEF Rewritten
<1>2. j = i + 1 \/ j \in (i + 2)..h
  OBVIOUS
<1>3. (i + 1) + 1 = i + 2
  OBVIOUS
<1> QED BY <1>1, <1>2, <1>3 DEF Rewritten

\* The same for the nodes.
LEMMA MovedNext ==
  ASSUME NEW q, NEW i \in Nat, NEW h \in Nat, NEW m, Moved(q, m, i, h)
  PROVE  \/ q[i + 1].type \in {"join", "leave"} /\ q[i + 1].node = m
         \/ Moved(q, m, i + 1, h)
<1>1. PICK j \in (i + 1)..h : q[j].type \in {"join", "leave"} /\ q[j].node = m
  BY DEF Moved
<1>2. j = i + 1 \/ j \in (i + 2)..h
  OBVIOUS
<1>3. (i + 1) + 1 = i + 2
  OBVIOUS
<1> QED BY <1>1, <1>2, <1>3 DEF Moved

\* More types and more commands are no less.
LEMMA RewrittenMore ==
  ASSUME NEW q, NEW d, NEW i \in Nat, NEW h \in Nat, NEW l \in Nat, NEW k \in Nat,
         NEW T, NEW U, T \subseteq U, l <= i, h <= k, Rewritten(q, d, T, i, h)
  PROVE  Rewritten(q, d, U, l, k)
<1>1. PICK j \in (i + 1)..h : q[j].type \in T /\ q[j].name = d
  BY DEF Rewritten
<1>2. j \in (l + 1)..k
  OBVIOUS
<1> QED BY <1>1, <1>2 DEF Rewritten

\* The same for the nodes.
LEMMA MovedMore ==
  ASSUME NEW q, NEW m, NEW i \in Nat, NEW h \in Nat, NEW l \in Nat, NEW k \in Nat,
         l <= i, h <= k, Moved(q, m, i, h)
  PROVE  Moved(q, m, l, k)
<1>1. PICK j \in (i + 1)..h : q[j].type \in {"join", "leave"} /\ q[j].node = m
  BY DEF Moved
<1>2. j \in (l + 1)..k
  OBVIOUS
<1> QED BY <1>1, <1>2 DEF Moved

\* Both states take the next command: what differs is still to be said again.
LEMMA FollowsNext ==
  ASSUME NEW k \in Nat, NEW q \in [1..k -> CommandType], NEW i \in 0..(k - 1),
         NEW h \in 0..k, NEW s, NEW b, Proper(s), Proper(b), Follows(q, s, b, i, h)
  PROVE  Follows(q, Cluster!Apply(s, q[i + 1]), Cluster!Apply(b, q[i + 1]), i + 1, h)
<1>0. i \in Nat /\ h \in Nat /\ i + 1 \in 1..k
  OBVIOUS
<1> DEFINE c == q[i + 1]
<1>1. c \in CommandType
  BY <1>0
<1>2. PICK t : t = Cluster!Apply(s, c) /\ Touched(s, c, t)
  BY <1>1, ApplyTouches
<1>3. PICK a : a = Cluster!Apply(b, c) /\ Touched(b, c, a)
  BY <1>1, ApplyTouches
<1>4. ASSUME NEW d \in Name PROVE FollowsAt(q, t, a, d, i + 1, h)
  <2>1. FollowsAt(q, s, b, d, i, h)
    BY DEF Follows
  <2>2. \A T : Rewritten(q, d, T, i, h)
                 => (c.type \in T /\ c.name = d) \/ Rewritten(q, d, T, i + 1, h)
    BY <1>0, RewrittenNext
  <2>3. CASE c.type \in {"join", "leave"} \/ d # c.name
    <3>1. SameOf(s, t, d) /\ SameOf(b, a, d)
      BY <1>2, <1>3, <2>3 DEF Touched
    <3>2. \A T : T \subseteq {"create", "delete", "activate", "scale", "assign"}
                   => (Rewritten(q, d, T, i, h) => Rewritten(q, d, T, i + 1, h))
      BY <2>2, <2>3
    <3> HIDE DEF c
    <3> QED BY <2>1, <3>1, <3>2 DEF FollowsAt, SameOf, Exists, Size
  <2>4. CASE c.type \notin {"join", "leave"} /\ d = c.name
    <3>1. Written(s, c, t) /\ Written(b, c, a)
      BY <1>2, <1>3, <2>4 DEF Touched
    <3>2. c.type \in {"create", "delete", "activate", "scale", "assign"}
      BY <1>1, <2>4 DEF CommandType
    <3>3. CASE c.type = "create"
      <4>1. c.version = Nil => LeftOpen(q, d)
        BY <1>0, <2>4, <3>3 DEF LeftOpen
      <4>2. /\ Exists(t, d) = Exists(a, d) /\ Size(t, d) = Size(a, d)
            /\ t.active[d] = a.active[d] \/ LeftOpen(q, d)
            /\ t.assignments[d] = s.assignments[d] /\ a.assignments[d] = b.assignments[d]
        BY <2>4, <3>1, <3>3, <4>1 DEF Written
      <4>3. Rewritten(q, d, {"assign", "delete"}, i, h)
              => Rewritten(q, d, {"assign", "delete"}, i + 1, h)
        BY <2>2, <3>3
      <4> QED BY <2>1, <4>2, <4>3 DEF FollowsAt
    <3>4. CASE c.type = "delete"
      <4>1. /\ Exists(t, d) = Exists(a, d) /\ Size(t, d) = Size(a, d)
            /\ t.active[d] = a.active[d] /\ t.assignments[d] = a.assignments[d]
        BY <2>4, <3>1, <3>4 DEF Written
      <4> QED BY <4>1 DEF FollowsAt
    <3>5. CASE c.type = "assign"
      <4>1. /\ Exists(t, d) = Exists(s, d) /\ Exists(a, d) = Exists(b, d)
            /\ Size(t, d) = Size(s, d) /\ Size(a, d) = Size(b, d)
            /\ t.active[d] = s.active[d] /\ a.active[d] = b.active[d]
            /\ t.assignments[d] = a.assignments[d]
        BY <2>4, <3>1, <3>5 DEF Written
      <4>2. /\ \A T : T \subseteq {"create", "delete", "activate", "scale"}
                   => (Rewritten(q, d, T, i, h) => Rewritten(q, d, T, i + 1, h))
        BY <2>2, <3>5
      <4> HIDE DEF c
      <4> QED BY <2>1, <4>1, <4>2 DEF FollowsAt
    <3>6. CASE c.type \in {"scale", "activate"}
      <4>1. /\ Exists(t, d) = Exists(s, d) /\ Exists(a, d) = Exists(b, d)
            /\ t.assignments[d] = s.assignments[d] /\ a.assignments[d] = b.assignments[d]
        BY <2>4, <3>1, <3>6 DEF Written
      <4>2. /\ Rewritten(q, d, {"create", "delete"}, i, h)
                 => Rewritten(q, d, {"create", "delete"}, i + 1, h)
            /\ Rewritten(q, d, {"assign", "delete"}, i, h)
                 => Rewritten(q, d, {"assign", "delete"}, i + 1, h)
        BY <2>2, <3>6
      <4>3. Rewritten(q, d, {"create", "delete"}, i + 1, h)
              => /\ Rewritten(q, d, {"create", "delete", "scale"}, i + 1, h)
                 /\ Rewritten(q, d, {"create", "delete", "activate"}, i + 1, h)
        BY <1>0, RewrittenMore
      <4>4. \/ Exists(s, d) = Exists(b, d)
            \/ Rewritten(q, d, {"create", "delete"}, i + 1, h)
        BY <2>1, <4>2 DEF FollowsAt
      <4>5. CASE c.type = "scale"
        <5>1. t.active[d] = s.active[d] /\ a.active[d] = b.active[d]
          BY <2>4, <3>1, <4>5 DEF Written
        <5>2. Rewritten(q, d, {"create", "delete", "activate"}, i, h)
                => Rewritten(q, d, {"create", "delete", "activate"}, i + 1, h)
          BY <2>2, <4>5
        <5>3. \/ Size(t, d) = Size(a, d)
              \/ Rewritten(q, d, {"create", "delete", "scale"}, i + 1, h)
          BY <2>4, <3>1, <4>3, <4>4, <4>5 DEF Written, Size, Exists
        <5> QED BY <2>1, <4>1, <4>2, <5>1, <5>2, <5>3 DEF FollowsAt
      <4>6. CASE c.type = "activate"
        <5>1. Size(t, d) = Size(s, d) /\ Size(a, d) = Size(b, d)
          BY <2>4, <3>1, <4>6 DEF Written
        <5>2. Rewritten(q, d, {"create", "delete", "scale"}, i, h)
                => Rewritten(q, d, {"create", "delete", "scale"}, i + 1, h)
          BY <2>2, <4>6
        <5>3. /\ ~ Exists(s, d) => s.active[d] = Nil
              /\ ~ Exists(b, d) => b.active[d] = Nil
          BY DEF Proper, FlagsTrue, Exists
        <5>4. /\ t.active[d] = IF Exists(s, d) THEN c.version ELSE s.active[d]
              /\ a.active[d] = IF Exists(b, d) THEN c.version ELSE b.active[d]
          BY <2>4, <3>1, <4>6 DEF Written
        <5>5. \/ t.active[d] = a.active[d]
              \/ Rewritten(q, d, {"create", "delete", "activate"}, i + 1, h)
          BY <4>3, <4>4, <5>3, <5>4
        <5> QED BY <2>1, <4>1, <4>2, <5>1, <5>2, <5>5 DEF FollowsAt
      <4> QED BY <3>6, <4>5, <4>6
    <3> QED BY <3>2, <3>3, <3>4, <3>5, <3>6
  <2> QED BY <2>3, <2>4
<1>5. NodesFollow(q, t, a, i + 1, h)
  <2> SUFFICES ASSUME NEW m \in Member
               PROVE  (m \in t.nodes) = (m \in a.nodes) \/ Moved(q, m, i + 1, h)
    BY DEF NodesFollow
  <2>1. (m \in s.nodes) = (m \in b.nodes) \/ Moved(q, m, i, h)
    BY DEF Follows, NodesFollow
  <2>2. Moved(q, m, i, h) => \/ c.type \in {"join", "leave"} /\ c.node = m
                             \/ Moved(q, m, i + 1, h)
    BY <1>0, MovedNext
  <2>3. /\ t.nodes = CASE c.type = "join" -> s.nodes \cup {c.node}
                       [] c.type = "leave" -> s.nodes \ {c.node}
                       [] OTHER -> s.nodes
        /\ a.nodes = CASE c.type = "join" -> b.nodes \cup {c.node}
                       [] c.type = "leave" -> b.nodes \ {c.node}
                       [] OTHER -> b.nodes
    BY <1>2, <1>3 DEF Touched
  <2> HIDE DEF c
  <2> QED BY <2>1, <2>2, <2>3
<1> QED BY <1>2, <1>3, <1>4, <1>5 DEF Follows

\* One state takes a command more: what it says new is what the command says.
LEMMA FollowsMore ==
  ASSUME NEW k \in Nat, NEW q \in [1..k -> CommandType], NEW j \in 0..(k - 1),
         NEW i \in 0..j, NEW s, NEW b, Proper(s), Follows(q, s, b, i, j)
  PROVE  Follows(q, Cluster!Apply(s, q[j + 1]), b, i, j + 1)
<1>0. i \in Nat /\ j \in Nat /\ j + 1 \in 1..k /\ j + 1 \in (i + 1)..(j + 1)
  OBVIOUS
<1> DEFINE c == q[j + 1]
<1>1. c \in CommandType
  BY <1>0
<1>2. PICK t : t = Cluster!Apply(s, c) /\ Touched(s, c, t)
  BY <1>1, ApplyTouches
<1>3. ASSUME NEW d \in Name PROVE FollowsAt(q, t, b, d, i, j + 1)
  <2>1. FollowsAt(q, s, b, d, i, j)
    BY DEF Follows
  <2>2. \A T : Rewritten(q, d, T, i, j) \/ (c.type \in T /\ c.name = d)
                 => Rewritten(q, d, T, i, j + 1)
    <3>1. ASSUME NEW T, Rewritten(q, d, T, i, j) PROVE Rewritten(q, d, T, i, j + 1)
      BY <1>0, <3>1, RewrittenMore
    <3>2. ASSUME NEW T, c.type \in T /\ c.name = d PROVE Rewritten(q, d, T, i, j + 1)
      BY <1>0, <3>2 DEF Rewritten
    <3> QED BY <3>1, <3>2
  <2>3. CASE c.type \in {"join", "leave"} \/ d # c.name
    <3>1. SameOf(s, t, d)
      BY <1>2, <2>3 DEF Touched
    <3> HIDE DEF c
    <3> QED BY <2>1, <2>2, <3>1 DEF FollowsAt, SameOf, Exists, Size
  <2>4. CASE c.type \notin {"join", "leave"} /\ d = c.name
    <3>1. Written(s, c, t)
      BY <1>2, <2>4 DEF Touched
    <3>2. Exists(t, d) = Exists(s, d) \/ c.type \in {"create", "delete"}
      BY <2>4, <3>1 DEF Written
    <3>3. Size(t, d) = Size(s, d) \/ c.type \in {"create", "delete", "scale"}
      BY <2>4, <3>1 DEF Written
    <3>4. t.active[d] = s.active[d] \/ c.type \in {"create", "delete", "activate"}
      BY <2>4, <3>1 DEF Written
    <3>5. t.assignments[d] = s.assignments[d] \/ c.type \in {"assign", "delete"}
      BY <2>4, <3>1 DEF Written
    <3> HIDE DEF c
    <3> QED BY <2>1, <2>2, <2>4, <3>2, <3>3, <3>4, <3>5 DEF FollowsAt
  <2> QED BY <2>3, <2>4
<1>4. NodesFollow(q, t, b, i, j + 1)
  <2> SUFFICES ASSUME NEW m \in Member
               PROVE  (m \in t.nodes) = (m \in b.nodes) \/ Moved(q, m, i, j + 1)
    BY DEF NodesFollow
  <2>1. (m \in s.nodes) = (m \in b.nodes) \/ Moved(q, m, i, j)
    BY DEF Follows, NodesFollow
  <2>2. Moved(q, m, i, j) => Moved(q, m, i, j + 1)
    BY <1>0, MovedMore
  <2>3. c.type \in {"join", "leave"} /\ c.node = m => Moved(q, m, i, j + 1)
    BY <1>0 DEF Moved
  <2>4. t.nodes = CASE c.type = "join" -> s.nodes \cup {c.node}
                    [] c.type = "leave" -> s.nodes \ {c.node}
                    [] OTHER -> s.nodes
    BY <1>2 DEF Touched
  <2> HIDE DEF c
  <2> QED BY <2>1, <2>2, <2>3, <2>4
<1> QED BY <1>2, <1>3, <1>4 DEF Follows

\* A state may be compared with an earlier one than the one it came from.
LEMMA FollowsBack ==
  ASSUME NEW q, NEW h \in Nat, NEW j \in Nat, NEW i \in 0..j, NEW k \in Nat, h <= k, j <= k,
         NEW s, NEW b, NEW a, Follows(q, s, b, j, h), Follows(q, b, a, i, j)
  PROVE  Follows(q, s, a, i, k)
<1>1. \A d, T : Rewritten(q, d, T, j, h) \/ Rewritten(q, d, T, i, j) => Rewritten(q, d, T, i, k)
  BY RewrittenMore
<1>2. \A m : Moved(q, m, j, h) \/ Moved(q, m, i, j) => Moved(q, m, i, k)
  BY MovedMore
<1>3. ASSUME NEW d \in Name PROVE FollowsAt(q, s, a, d, i, k)
  <2>1. FollowsAt(q, s, b, d, j, h) /\ FollowsAt(q, b, a, d, i, j)
    BY DEF Follows
  <2> QED BY <1>1, <2>1 DEF FollowsAt
<1>4. NodesFollow(q, s, a, i, k)
  BY <1>2 DEF Follows, NodesFollow
<1> QED BY <1>3, <1>4 DEF Follows

\* More commands at the end do not matter.
LEMMA FollowsStill ==
  ASSUME NEW k \in Nat, NEW l \in Nat, k <= l,
         NEW q \in [1..k -> CommandType], NEW r \in [1..l -> CommandType],
         \A x \in 1..k : r[x] = q[x],
         NEW i \in 0..k, NEW h \in 0..k, NEW s, NEW b, Follows(q, s, b, i, h)
  PROVE  Follows(r, s, b, i, h)
<1>1. \A x \in (i + 1)..h : x \in 1..k /\ r[x] = q[x]
  OBVIOUS
<1>2. \A d, T : Rewritten(q, d, T, i, h) => Rewritten(r, d, T, i, h)
  BY <1>1 DEF Rewritten
<1>3. \A m : Moved(q, m, i, h) => Moved(r, m, i, h)
  BY <1>1 DEF Moved
<1>4. \A d : LeftOpen(q, d) => LeftOpen(r, d)
  <2>1. \A x \in 1..k : x \in 1..l
    OBVIOUS
  <2> QED BY <2>1 DEF LeftOpen
<1>5. ASSUME NEW d \in Name PROVE FollowsAt(r, s, b, d, i, h)
  <2>1. FollowsAt(q, s, b, d, i, h)
    BY DEF Follows
  <2> QED BY <1>2, <1>4, <2>1 DEF FollowsAt
<1>6. NodesFollow(r, s, b, i, h)
  BY <1>3 DEF Follows, NodesFollow
<1> QED BY <1>5, <1>6 DEF Follows

\* A state is what it is.
LEMMA FollowsItself ==
  ASSUME NEW q, NEW s, NEW i, NEW h
  PROVE  Follows(q, s, s, i, h)
BY DEF Follows, FollowsAt, NodesFollow

\* Once all has been said again nothing differs.
LEMMA FollowsExactly ==
  ASSUME NEW q, NEW i \in Nat, NEW h \in Nat, h <= i, NEW s, NEW b, Proper(s), Proper(b),
         Follows(q, s, b, i, h)
  PROVE  /\ s.nodes = b.nodes
         /\ \A d \in Name : /\ Size(s, d) = Size(b, d)
                            /\ s.assignments[d] = b.assignments[d]
                            /\ s.active[d] = b.active[d] \/ LeftOpen(q, d)
<1>1. (i + 1)..h = {}
  OBVIOUS
<1>2. (\A d, T : ~ Rewritten(q, d, T, i, h)) /\ \A m : ~ Moved(q, m, i, h)
  BY <1>1 DEF Rewritten, Moved
<1>3. s.nodes = b.nodes
  <2>1. s.nodes \subseteq Member /\ b.nodes \subseteq Member
    BY DEF Proper, StateType
  <2>2. \A m \in Member : (m \in s.nodes) = (m \in b.nodes)
    BY <1>2 DEF Follows, NodesFollow
  <2> QED BY <2>1, <2>2
<1> QED BY <1>2, <1>3 DEF Follows, FollowsAt

\* A set of numbers that is not empty has a smallest one.
LEMMA MinIn ==
  ASSUME NEW S \in SUBSET Nat, S # {}
  PROVE  Cluster!Min(S) \in S
<1>1. PICK x \in S : \A y \in S : ~ (<<y, x>> \in OpToRel(<, Nat))
  BY NatLessThanWellFounded, WFMin, Zenon
<1>2. \A y \in S : x <= y
  <2> SUFFICES ASSUME NEW y \in S PROVE x <= y
    OBVIOUS
  <2>1. x \in Nat /\ y \in Nat
    OBVIOUS
  <2>2. ~ (y < x)
    BY <1>1, <2>1 DEF OpToRel
  <2> QED BY <2>1, <2>2
<1> QED BY <1>2 DEF Cluster!Min

\* The larger of two numbers.
LEMMA MaxOfTwo ==
  ASSUME NEW x \in Nat, NEW y \in Nat
  PROVE  Cluster!Max({x, y}) = IF x >= y THEN x ELSE y
BY DEF Cluster!Max

\* The version that a rollback finds is one of the list.
LEMMA TargetTyped ==
  ASSUME NEW vs \in Seq(VersionType)
  PROVE  Cluster!RollbackTarget(vs) \in Version \cup {Nil}
<1> DEFINE other == {i \in DOMAIN vs : ~ vs[i].active}
<1>1. other \in SUBSET Nat /\ other \subseteq DOMAIN vs
  OBVIOUS
<1>2. CASE other = {}
  BY <1>2 DEF Cluster!RollbackTarget
<1>3. CASE other # {}
  <2>1. Cluster!Min(other) \in DOMAIN vs
    BY <1>1, <1>3, MinIn
  <2>2. vs[Cluster!Min(other)].id \in Version \cup {Nil}
    <3>1. vs[Cluster!Min(other)] \in VersionType
      BY <2>1
    <3> QED BY <3>1 DEF VersionType
  <2> QED BY <1>3, <2>2 DEF Cluster!RollbackTarget
<1> QED BY <1>2, <1>3

-----------------------------------------------------------------------------
(* The cluster state: the inductive invariant *)

EntryType == [cmd : CommandType, acked : BOOLEAN]

\* The commands that are committed.
Committed == [i \in 1..clusterCommit |-> clusterLog[i].cmd]

\* The entry up to which a node has applied.
Position(n) == IF batch[n] = Cluster!Idle THEN clusterApplied[n] ELSE batch[n].done

LogTyped ==
  /\ clusterLog \in Seq(EntryType)
  /\ clusterCommit \in 0..Len(clusterLog)
  /\ leader \in Member
  /\ rollback # Nil => rollback.name \in Name /\ rollback.version \in Version \cup {Nil}

NodesTyped ==
  /\ sound \subseteq Member
  /\ DOMAIN state = Member /\ \A n \in Member : Proper(state[n])
  /\ clusterApplied \in [Member -> 0..clusterCommit]
  /\ ahead \in [Member -> 0..clusterCommit]
  /\ batch \in [Member -> [to : 0..clusterCommit, done : 0..clusterCommit]]
  /\ \A n \in Member : batch[n].done <= batch[n].to
  /\ \A n \in sound : batch[n] # Cluster!Idle => clusterApplied[n] <= batch[n].done

SnapTyped ==
  snap # Nil => /\ snap.from \in Member /\ Proper(snap.data)
                /\ snap.has \in 0..clusterCommit /\ snap.ahead \in 0..clusterCommit

\* The states that the committed entries make one after the other.
Course(f, k, q) ==
  /\ f = [i \in 0..k |-> f[i]]
  /\ \A i \in 0..k : Proper(f[i])
  /\ \A i \in 0..(k - 1) : f[i + 1] = Cluster!Apply(f[i], q[i + 1])
  /\ \A j \in 0..k : \A i \in 0..j : Follows(q, f[j], f[i], i, j)

NodesOnCourse(f) ==
  \A n \in sound : Follows(Committed, state[n], f[Position(n)], Position(n), ahead[n])

SnapOnCourse(f) ==
  snap # Nil /\ snap.from \in sound
    => Follows(Committed, snap.data, f[snap.has], snap.has, snap.ahead)

OnCourse(f) ==
  Course(f, clusterCommit, Committed) /\ NodesOnCourse(f) /\ SnapOnCourse(f)

ClusterInv == LogTyped /\ NodesTyped /\ SnapTyped /\ \E f : OnCourse(f)

\* Of the committed commands.
LEMMA CommittedTyped ==
  ASSUME LogTyped
  PROVE  /\ clusterCommit \in Nat
         /\ Committed \in [1..clusterCommit -> CommandType]
         /\ \A i \in 1..clusterCommit : Committed[i] = clusterLog[i].cmd
<1>1. clusterCommit \in Nat /\ \A i \in 1..clusterCommit : i \in 1..Len(clusterLog)
  BY DEF LogTyped
<1>2. \A i \in 1..Len(clusterLog) : clusterLog[i].cmd \in CommandType
  <2>1. \A i \in 1..Len(clusterLog) : clusterLog[i] \in EntryType
    BY DEF LogTyped
  <2> QED BY <2>1 DEF EntryType
<1> QED BY <1>1, <1>2 DEF Committed

\* What a request or a change of leader leaves as it is.
LogKept ==
  /\ clusterLog' \in Seq(EntryType)
  /\ clusterCommit' = clusterCommit /\ clusterCommit <= Len(clusterLog')
  /\ \A i \in 1..clusterCommit : clusterLog'[i].cmd = clusterLog[i].cmd

\* When only the log beyond the commit index changes, the invariant stays.
LEMMA LogStep ==
  ASSUME ClusterInv, LogKept, leader' \in Member,
         rollback' # Nil => rollback'.name \in Name /\ rollback'.version \in Version \cup {Nil},
         UNCHANGED Cluster!Unapplied
  PROVE  ClusterInv'
<1>1. LogTyped'
  BY DEF ClusterInv, LogTyped, LogKept
<1>2. UNCHANGED <<state, clusterApplied, batch, snap, sound, ahead, clusterCommit>>
  BY DEF Cluster!Unapplied, LogKept
<1>3. Committed' = Committed
  BY <1>2 DEF Committed, LogKept
<1>4. NodesTyped' /\ SnapTyped'
  BY <1>2 DEF ClusterInv, NodesTyped, SnapTyped
<1>5. PICK f : OnCourse(f)
  BY DEF ClusterInv
<1>6. OnCourse(f)'
  <2>1. \A n : Position(n)' = Position(n)
    BY <1>2 DEF Position
  <2>2. Course(f, clusterCommit, Committed)'
    BY <1>2, <1>3, <1>5 DEF OnCourse
  <2>3. NodesOnCourse(f)'
    BY <1>2, <1>3, <1>5, <2>1 DEF OnCourse, NodesOnCourse
  <2>4. SnapOnCourse(f)'
    BY <1>2, <1>3, <1>5 DEF OnCourse, SnapOnCourse
  <2> QED BY <2>2, <2>3, <2>4 DEF OnCourse
<1> QED BY <1>1, <1>4, <1>6 DEF ClusterInv

\* Propose appends to the log of the leader, or to none that counts.
LEMMA ProposeKept ==
  ASSUME LogTyped, NEW n, NEW c \in CommandType, NEW a \in BOOLEAN, Cluster!Propose(n, c, a)
  PROVE  LogKept /\ leader' = leader
<1> DEFINE e == [cmd |-> c, acked |-> a]
<1>1. e \in EntryType
  BY DEF EntryType
<1>2. clusterLog' = (IF n = leader THEN Append(clusterLog, e) ELSE clusterLog)
      /\ UNCHANGED <<clusterCommit, leader>>
  BY DEF Cluster!Propose
<1> HIDE DEF e
<1>3. clusterLog \in Seq(EntryType) /\ clusterCommit \in 0..Len(clusterLog)
  BY DEF LogTyped
<1> QED BY <1>1, <1>2, <1>3 DEF LogKept

\* The handlers of the requests.
LEMMA ClientStep ==
  ASSUME ClusterInv, NEW n \in Member, Cluster!ClientRequest(n)
  PROVE  ClusterInv'
<1>1. LogTyped
  BY DEF ClusterInv
<1>2. leader \in Member
      /\ (rollback # Nil => rollback.name \in Name /\ rollback.version \in Version \cup {Nil})
  BY <1>1 DEF LogTyped
<1>3. ASSUME NEW c \in CommandType, NEW a \in BOOLEAN, Cluster!Propose(n, c, a),
             UNCHANGED <<rollback, Cluster!Unapplied>>
      PROVE  ClusterInv'
  BY <1>1, <1>2, <1>3, ProposeKept, LogStep
<1>4. ASSUME NEW d \in Name, NEW v \in Version \cup {Nil}, NEW r \in Replicas,
             Cluster!handleCreateDeploymentCluster(n, d, v, r)
      PROVE  ClusterInv'
  <2> DEFINE c == [type |-> "create", name |-> d, version |-> v,
                   replicas |-> IF r = 0 THEN 1 ELSE r]
  <2>1. c \in CommandType
    BY DEF CommandType
  <2>2. Cluster!Propose(n, c, FALSE) /\ UNCHANGED <<rollback, Cluster!Unapplied>>
    BY <1>4 DEF Cluster!handleCreateDeploymentCluster, Cluster!CreateDeployment
  <2> HIDE DEF c
  <2> QED BY <1>3, <2>1, <2>2
<1>5. ASSUME NEW d \in Name, Cluster!handleDeleteDeploymentCluster(n, d) PROVE ClusterInv'
  <2>1. [type |-> "delete", name |-> d] \in CommandType
    BY DEF CommandType
  <2> QED BY <1>3, <1>5, <2>1 DEF Cluster!handleDeleteDeploymentCluster,
        Cluster!DeleteDeployment, Cluster!Unserved
<1>6. ASSUME NEW d \in Name, NEW r \in Replicas, Cluster!handleScaleDeploymentCluster(n, d, r)
      PROVE  ClusterInv'
  <2>1. [type |-> "scale", name |-> d, replicas |-> r] \in CommandType
    BY DEF CommandType
  <2> QED BY <1>3, <1>6, <2>1 DEF Cluster!handleScaleDeploymentCluster,
        Cluster!ScaleDeployment, Cluster!Unserved
<1>7. ASSUME NEW d \in Name, NEW ns \in {{}, Member}, Cluster!AssignDeployment(n, d, ns)
      PROVE  ClusterInv'
  <2>1. [type |-> "assign", name |-> d, nodes |-> ns] \in CommandType
    BY DEF CommandType
  <2> QED BY <1>3, <1>7, <2>1 DEF Cluster!AssignDeployment, Cluster!Unserved
<1>8. ASSUME NEW m \in Member,
             Cluster!handleJoinCluster(n, m) \/ Cluster!handleLeaveCluster(n, m)
      PROVE  ClusterInv'
  <2>1. /\ [type |-> "join", node |-> m] \in CommandType
        /\ [type |-> "leave", node |-> m] \in CommandType
    BY DEF CommandType
  <2> QED BY <1>3, <1>8, <2>1 DEF Cluster!handleJoinCluster, Cluster!JoinCluster,
        Cluster!handleLeaveCluster, Cluster!LeaveCluster, Cluster!Unserved
<1>9. ASSUME NEW d \in Name, NEW v \in Version \cup {Nil},
             Cluster!handleRollbackDeployment(n, d, v)
      PROVE  ClusterInv'
  <2>1. /\ UNCHANGED <<clusterLog, clusterCommit, leader, Cluster!Unapplied>>
        /\ state[n].deployments[d] # Nil
        /\ rollback' = [node |-> n, name |-> d,
                        version |-> IF v = Nil
                                    THEN Cluster!RollbackTarget(state[n].deployments[d].versions)
                                    ELSE v]
    BY <1>9 DEF Cluster!handleRollbackDeployment
  <2>2. state[n].deployments[d].versions \in Seq(VersionType)
    <3>1. Proper(state[n])
      BY DEF ClusterInv, NodesTyped
    <3> QED BY <2>1, <3>1, DeploymentFields DEF Proper, Exists
  <2>3. Cluster!RollbackTarget(state[n].deployments[d].versions) \in Version \cup {Nil}
    BY <2>2, TargetTyped
  <2>4. LogKept
    BY <1>1, <2>1 DEF LogTyped, LogKept
  <2> QED BY <1>2, <2>1, <2>3, <2>4, LogStep
<1> QED BY <1>4, <1>5, <1>6, <1>7, <1>8, <1>9 DEF Cluster!ClientRequest

\* The rest of a rollback, the ends of a creation's wait, and a change of leader.
LEMMA LeaderStep ==
  ASSUME ClusterInv,
         \/ Cluster!EndRollback
         \/ \E w \in creating : Cluster!waitForApply(w) \/ Cluster!waitTimeout(w)
         \/ \E n \in Member, k \in clusterCommit..Len(clusterLog) : Cluster!Elect(n, k)
         \/ Cluster!StepDown
  PROVE  ClusterInv'
<1>1. LogTyped
  BY DEF ClusterInv
<1>2. /\ leader \in Member
      /\ rollback # Nil => rollback.name \in Name /\ rollback.version \in Version \cup {Nil}
      /\ clusterLog \in Seq(EntryType) /\ clusterCommit \in 0..Len(clusterLog)
  BY <1>1 DEF LogTyped
<1>3. CASE UNCHANGED <<clusterLog, clusterCommit, leader, Cluster!Unapplied>>
           /\ (rollback' = rollback \/ rollback' = Nil)
  <2>1. LogKept
    BY <1>2, <1>3 DEF LogKept
  <2> QED BY <1>2, <1>3, <2>1, LogStep
<1>4. CASE Cluster!EndRollback
  <2>1. rollback # Nil /\ rollback' = Nil /\ UNCHANGED Cluster!Unapplied
    BY <1>4 DEF Cluster!EndRollback
  <2>2. CASE Cluster!ActivateVersion(rollback.node, rollback.name, rollback.version)
    <3>1. [type |-> "activate", name |-> rollback.name, version |-> rollback.version]
             \in CommandType
      BY <1>2, <2>1 DEF CommandType
    <3>2. LogKept /\ leader' = leader
      BY <1>1, <2>2, <3>1, ProposeKept DEF Cluster!ActivateVersion
    <3> QED BY <1>2, <2>1, <3>2, LogStep
  <2>3. CASE UNCHANGED <<clusterLog, clusterCommit, leader>>
    BY <1>3, <2>1, <2>3
  <2> QED BY <1>4, <2>2, <2>3 DEF Cluster!EndRollback
<1>5. ASSUME NEW w \in creating, Cluster!waitForApply(w) PROVE ClusterInv'
  <2>1. /\ clusterLog' = clusterLog
             \/ clusterLog' = [clusterLog EXCEPT ![w.at].acked = TRUE]
        /\ UNCHANGED <<clusterCommit, leader, rollback, Cluster!Unapplied>>
    BY <1>5 DEF Cluster!waitForApply
  <2>2. CASE clusterLog' = [clusterLog EXCEPT ![w.at].acked = TRUE]
    <3>1. DOMAIN clusterLog = 1..Len(clusterLog) /\ Len(clusterLog) \in Nat
      BY <1>2
    <3>2. \A i \in 1..Len(clusterLog) : clusterLog[i] \in EntryType
      BY <1>2
    <3>3. \A i \in 1..Len(clusterLog) :
            clusterLog'[i] \in EntryType /\ clusterLog'[i].cmd = clusterLog[i].cmd
      BY <2>2, <3>1, <3>2 DEF EntryType
    <3>4. clusterLog' \in [1..Len(clusterLog) -> EntryType]
      BY <2>2, <3>1, <3>3
    <3>5. clusterLog' \in Seq(EntryType) /\ Len(clusterLog') = Len(clusterLog)
      BY <3>1, <3>4
    <3>6. LogKept
      BY <1>2, <2>1, <3>3, <3>5 DEF LogKept
    <3> QED BY <1>2, <2>1, <3>6, LogStep
  <2> QED BY <1>3, <2>1, <2>2
<1>6. ASSUME NEW w \in creating, Cluster!waitTimeout(w) PROVE ClusterInv'
  BY <1>3, <1>6 DEF Cluster!waitTimeout
<1>7. ASSUME NEW n \in Member, NEW k \in clusterCommit..Len(clusterLog), Cluster!Elect(n, k)
      PROVE  ClusterInv'
  <2>1. /\ clusterLog' = SubSeq(clusterLog, 1, k) /\ leader' = n
        /\ UNCHANGED <<clusterCommit, rollback, Cluster!Unapplied>>
    BY <1>7 DEF Cluster!Elect
  <2>2. k \in Nat /\ k <= Len(clusterLog) /\ clusterCommit <= k
    BY <1>2
  <2>3. /\ clusterLog' \in Seq(EntryType) /\ Len(clusterLog') = k
        /\ \A i \in 1..k : clusterLog'[i] = clusterLog[i]
    BY <1>2, <2>1, <2>2
  <2>4. LogKept
    BY <1>2, <2>1, <2>2, <2>3 DEF LogKept
  <2> QED BY <1>2, <2>1, <2>4, LogStep
<1>8. CASE Cluster!StepDown
  BY <1>3, <1>8 DEF Cluster!StepDown, Cluster!Unserved
<1> QED BY <1>4, <1>5, <1>6, <1>7, <1>8

\* The next entry is committed: the course goes on by one state.
LEMMA CommitStep ==
  ASSUME ClusterInv, Cluster!Commit
  PROVE  ClusterInv'
<1>0. PICK k, q, r : k = clusterCommit /\ q = Committed /\ r = Committed'
  OBVIOUS
<1>1. /\ k < Len(clusterLog) /\ clusterCommit' = k + 1
      /\ UNCHANGED <<clusterLog, leader, rollback, state, clusterApplied, batch, snap, sound, ahead>>
  BY <1>0 DEF Cluster!Commit, Cluster!Unserved, Cluster!Unapplied
<1>2. LogTyped /\ NodesTyped /\ SnapTyped
  BY DEF ClusterInv
<1>3. LogTyped'
  BY <1>0, <1>1, <1>2 DEF LogTyped
<1>4. k \in Nat /\ k + 1 \in Nat /\ q \in [1..k -> CommandType]
  BY <1>0, <1>2, CommittedTyped
<1>5. r \in [1..(k + 1) -> CommandType] /\ \A i \in 1..k : r[i] = q[i]
  <2>1. r = [i \in 1..(k + 1) |-> clusterLog[i].cmd]
    BY <1>0, <1>1 DEF Committed
  <2>2. \A i \in 1..(k + 1) : i \in 1..Len(clusterLog)
    BY <1>0, <1>1, <1>2, <1>4 DEF LogTyped
  <2>3. \A i \in 1..Len(clusterLog) : clusterLog[i] \in EntryType
    BY <1>0, <1>2 DEF LogTyped
  <2>4. \A i \in 1..(k + 1) : clusterLog[i].cmd \in CommandType
    BY <1>0, <2>2, <2>3 DEF EntryType
  <2>5. \A i \in 1..k : i \in 1..(k + 1)
    BY <1>4
  <2> QED BY <1>0, <1>4, <2>1, <2>4, <2>5 DEF Committed
<1>6. NodesTyped' /\ SnapTyped'
  <2>1. \A x \in 0..k : x \in 0..(k + 1)
    BY <1>4
  <2>2. NodesTyped'
    BY <1>0, <1>1, <1>2, <2>1 DEF NodesTyped
  <2> QED BY <1>0, <1>1, <1>2, <2>1, <2>2 DEF SnapTyped
<1>7. PICK f : OnCourse(f)
  BY DEF ClusterInv
<1>8. /\ \A i \in 0..k : Proper(f[i])
      /\ \A i \in 0..(k - 1) : f[i + 1] = Cluster!Apply(f[i], q[i + 1])
      /\ \A j \in 0..k : \A i \in 0..j : Follows(q, f[j], f[i], i, j)
  BY <1>0, <1>7 DEF OnCourse, Course
<1> DEFINE g == [i \in 0..(k + 1) |-> IF i <= k THEN f[i] ELSE Cluster!Apply(f[k], r[k + 1])]
<1>9. /\ \A i \in 0..k : g[i] = f[i]
      /\ g[k + 1] = Cluster!Apply(f[k], r[k + 1])
  BY <1>4
<1>10. g = [i \in 0..(k + 1) |-> g[i]]
  OBVIOUS
<1> HIDE DEF g
<1>11. ASSUME NEW i \in 0..k, NEW h \in 0..k, NEW s, NEW b, Follows(q, s, b, i, h)
       PROVE  Follows(r, s, b, i, h)
  BY <1>4, <1>5, <1>11, FollowsStill
<1>12. Proper(f[k]) /\ r[k + 1] \in CommandType
  BY <1>4, <1>5, <1>8
<1>13. Proper(g[k + 1])
  BY <1>9, <1>12, ApplyTouches DEF Touched
<1>14. \A i \in 0..(k + 1) : Proper(g[i])
  BY <1>4, <1>8, <1>9, <1>13
<1>15. \A i \in 0..((k + 1) - 1) : g[i + 1] = Cluster!Apply(g[i], r[i + 1])
  <2> SUFFICES ASSUME NEW i \in 0..((k + 1) - 1)
               PROVE  g[i + 1] = Cluster!Apply(g[i], r[i + 1])
    OBVIOUS
  <2>1. CASE i = k
    BY <1>4, <1>9, <2>1
  <2>2. CASE i # k
    <3>1. i \in 0..(k - 1) /\ i \in 0..k /\ i + 1 \in 0..k /\ i + 1 \in 1..k
      BY <1>4, <2>2
    <3> QED BY <1>5, <1>8, <1>9, <3>1
  <2> QED BY <2>1, <2>2
<1>16. \A j \in 0..(k + 1) : \A i \in 0..j : Follows(r, g[j], g[i], i, j)
  <2> SUFFICES ASSUME NEW j \in 0..(k + 1), NEW i \in 0..j
               PROVE  Follows(r, g[j], g[i], i, j)
    OBVIOUS
  <2>1. CASE j <= k
    <3>1. j \in 0..k /\ i \in 0..k
      BY <1>4, <2>1
    <3> QED BY <1>8, <1>9, <1>11, <3>1
  <2>2. CASE j = k + 1 /\ i = k + 1
    BY <2>2, FollowsItself
  <2>3. CASE j = k + 1 /\ i # k + 1
    <3>1. i \in 0..k /\ k \in 0..k /\ k \in 0..((k + 1) - 1)
      BY <1>4, <2>3
    <3>2. Follows(r, f[k], f[i], i, k)
      BY <1>8, <1>11, <3>1
    <3>3. Follows(r, Cluster!Apply(f[k], r[k + 1]), f[i], i, k + 1)
      BY <1>4, <1>5, <1>12, <3>1, <3>2, FollowsMore
    <3> QED BY <1>9, <2>3, <3>1, <3>3
  <2> QED BY <1>4, <2>1, <2>2, <2>3
<1>17. Course(g, clusterCommit, Committed)'
  BY <1>0, <1>1, <1>10, <1>14, <1>15, <1>16 DEF Course
<1>18. NodesOnCourse(g)'
  <2> SUFFICES ASSUME NEW n \in sound
               PROVE  Follows(r, state[n], g[Position(n)], Position(n), ahead[n])
    BY <1>0, <1>1 DEF NodesOnCourse, Position
  <2>1. Position(n) \in 0..k /\ ahead[n] \in 0..k
    BY <1>0, <1>2, <1>4 DEF NodesTyped, Position
  <2>2. Follows(q, state[n], f[Position(n)], Position(n), ahead[n])
    BY <1>0, <1>7 DEF OnCourse, NodesOnCourse
  <2> QED BY <1>9, <1>11, <2>1, <2>2
<1>19. SnapOnCourse(g)'
  <2> SUFFICES ASSUME snap # Nil, snap.from \in sound
               PROVE  Follows(r, snap.data, g[snap.has], snap.has, snap.ahead)
    BY <1>0, <1>1 DEF SnapOnCourse
  <2>1. snap.has \in 0..k /\ snap.ahead \in 0..k
    BY <1>0, <1>2 DEF SnapTyped
  <2>2. Follows(q, snap.data, f[snap.has], snap.has, snap.ahead)
    BY <1>0, <1>7 DEF OnCourse, SnapOnCourse
  <2> QED BY <1>9, <1>11, <2>1, <2>2
<1> QED BY <1>0, <1>3, <1>6, <1>17, <1>18, <1>19 DEF ClusterInv, OnCourse

\* Applying: the entries are taken, one is applied, the batch is done.
LEMMA ApplyingStep ==
  ASSUME ClusterInv, NEW n \in Member,
         Cluster!applyCommitted(n) \/ Cluster!ApplyEntry(n) \/ Cluster!EndBatch(n)
  PROVE  ClusterInv'
<1>1. LogTyped /\ NodesTyped /\ SnapTyped
  BY DEF ClusterInv
<1>2. UNCHANGED <<clusterLog, clusterCommit, leader, rollback, snap, sound, ahead>>
  BY DEF Cluster!applyCommitted, Cluster!ApplyEntry, Cluster!EndBatch, Cluster!Unserved
<1>3. LogTyped' /\ SnapTyped' /\ Committed' = Committed
  BY <1>1, <1>2 DEF LogTyped, SnapTyped, Committed
<1>4. PICK f : OnCourse(f)
  BY DEF ClusterInv
<1>5. Course(f, clusterCommit, Committed)' /\ SnapOnCourse(f)'
  BY <1>2, <1>3, <1>4 DEF OnCourse, SnapOnCourse
<1>6. /\ clusterCommit \in Nat /\ Committed \in [1..clusterCommit -> CommandType]
      /\ \A i \in 1..clusterCommit : Committed[i] = clusterLog[i].cmd
  BY <1>1, CommittedTyped
<1>7. /\ batch[n].to \in 0..clusterCommit /\ batch[n].done \in 0..clusterCommit
      /\ batch[n].done <= batch[n].to /\ clusterApplied[n] \in 0..clusterCommit
      /\ Proper(state[n]) /\ ahead[n] \in 0..clusterCommit
      /\ batch[n] = [to |-> batch[n].to, done |-> batch[n].done]
  BY <1>1 DEF NodesTyped
<1>8. SUFFICES /\ NodesTyped'
               /\ n \in sound => Follows(Committed, state'[n], f[Position(n)'],
                                          Position(n)', ahead[n])
  <2> SUFFICES ASSUME NEW m \in sound
               PROVE  Follows(Committed, state'[m], f[Position(m)'], Position(m)', ahead[m])
    BY <1>2, <1>3, <1>5, <1>8 DEF ClusterInv, OnCourse, NodesOnCourse
  <2>1. CASE m = n
    BY <1>8, <2>1
  <2>2. CASE m # n
    <3>1. state'[m] = state[m] /\ batch'[m] = batch[m] /\ clusterApplied'[m] = clusterApplied[m]
      BY <1>1, <2>2 DEF NodesTyped, Cluster!applyCommitted, Cluster!ApplyEntry, Cluster!EndBatch
    <3>2. Position(m)' = Position(m)
      BY <3>1 DEF Position
    <3> QED BY <1>4, <3>1, <3>2 DEF OnCourse, NodesOnCourse
  <2> QED BY <2>1, <2>2
<1>9. n \in sound => Follows(Committed, state[n], f[Position(n)], Position(n), ahead[n])
  BY <1>4 DEF OnCourse, NodesOnCourse
<1>10. CASE Cluster!applyCommitted(n)
  <2>1. /\ batch[n] = Cluster!Idle /\ clusterApplied[n] < clusterCommit
        /\ batch' = [batch EXCEPT ![n] = [to |-> clusterCommit, done |-> clusterApplied[n]]]
        /\ UNCHANGED <<state, clusterApplied>>
    BY <1>10 DEF Cluster!applyCommitted
  <2>2. NodesTyped'
    BY <1>1, <1>2, <1>6, <1>7, <2>1 DEF NodesTyped
  <2>3. batch'[n] # Cluster!Idle /\ batch'[n].done = clusterApplied[n]
    BY <1>1, <1>6, <1>7, <2>1 DEF NodesTyped, Cluster!Idle
  <2>4. Position(n)' = Position(n)
    BY <2>1, <2>3 DEF Position
  <2> QED BY <1>9, <2>1, <2>2, <2>4
<1>11. CASE Cluster!ApplyEntry(n)
  <2> DEFINE i == batch[n].done
  <2>1. /\ i < batch[n].to
        /\ state' = [state EXCEPT ![n] = Cluster!Apply(state[n], clusterLog[i + 1].cmd)]
        /\ batch' = [batch EXCEPT ![n].done = i + 1]
        /\ UNCHANGED clusterApplied
    BY <1>11 DEF Cluster!ApplyEntry
  <2>2. /\ i \in 0..(clusterCommit - 1) /\ i \in Nat /\ i + 1 \in 1..clusterCommit
        /\ i + 1 \in 0..clusterCommit /\ i + 1 <= batch[n].to /\ i \in 0..clusterCommit
    BY <1>6, <1>7, <2>1
  <2>3. clusterLog[i + 1].cmd = Committed[i + 1] /\ Committed[i + 1] \in CommandType
    BY <1>6, <2>2
  <2>4. Proper(Cluster!Apply(state[n], Committed[i + 1]))
    BY <1>7, <2>3, ApplyTouches DEF Touched
  <2>5. state'[n] = Cluster!Apply(state[n], Committed[i + 1]) /\ DOMAIN state' = Member
        /\ \A m \in Member : m # n => state'[m] = state[m]
    BY <1>1, <2>1, <2>3 DEF NodesTyped
  <2>6. batch[n] # Cluster!Idle
    BY <1>6, <1>7, <2>1 DEF Cluster!Idle
  <2>7. /\ batch'[n] = [to |-> batch[n].to, done |-> i + 1]
        /\ \A m \in Member : m # n => batch'[m] = batch[m]
        /\ batch' \in [Member -> [to : 0..clusterCommit, done : 0..clusterCommit]]
    BY <1>1, <1>7, <2>1, <2>2 DEF NodesTyped
  <2>8. batch'[n] # Cluster!Idle
    BY <2>2, <2>7 DEF Cluster!Idle
  <2>9. NodesTyped'
    <3>1. \A m \in Member : Proper(state'[m]) /\ batch'[m].done <= batch'[m].to
      BY <1>1, <2>2, <2>4, <2>5, <2>7 DEF NodesTyped
    <3>2. \A m \in sound : batch'[m] # Cluster!Idle => clusterApplied[m] <= batch'[m].done
      BY <1>1, <1>7, <2>2, <2>6, <2>7 DEF NodesTyped
    <3> QED BY <1>1, <1>2, <2>1, <2>5, <2>7, <3>1, <3>2 DEF NodesTyped
  <2>10. Position(n) = i /\ Position(n)' = i + 1
    BY <2>6, <2>7, <2>8 DEF Position
  <2>11. Proper(f[i]) /\ f[i + 1] = Cluster!Apply(f[i], Committed[i + 1])
    BY <1>4, <2>2 DEF OnCourse, Course
  <2>12. n \in sound => Follows(Committed, state'[n], f[i + 1], i + 1, ahead[n])
    BY <1>6, <1>7, <1>9, <2>2, <2>5, <2>10, <2>11, FollowsNext
  <2> QED BY <2>9, <2>10, <2>12
<1>12. CASE Cluster!EndBatch(n)
  <2>1. /\ batch[n] # Cluster!Idle /\ batch[n].done = batch[n].to
        /\ clusterApplied' = [clusterApplied EXCEPT ![n] = batch[n].to]
        /\ batch' = [batch EXCEPT ![n] = Cluster!Idle]
        /\ UNCHANGED state
    BY <1>12 DEF Cluster!EndBatch
  <2>2. batch'[n] = Cluster!Idle /\ clusterApplied'[n] = batch[n].done
    BY <1>1, <2>1 DEF NodesTyped
  <2>3. Cluster!Idle \in [to : 0..clusterCommit, done : 0..clusterCommit]
        /\ Cluster!Idle.done <= Cluster!Idle.to
    BY <1>6 DEF Cluster!Idle
  <2>4. NodesTyped'
    BY <1>1, <1>2, <1>7, <2>1, <2>3 DEF NodesTyped
  <2>5. Position(n)' = Position(n)
    BY <2>1, <2>2 DEF Position
  <2> QED BY <1>9, <2>1, <2>4, <2>5
<1> QED BY <1>10, <1>11, <1>12

\* A snapshot of the leader is as far as the leader is.
LEMMA SnapshotStep ==
  ASSUME ClusterInv, Cluster!Snapshot
  PROVE  ClusterInv'
<1>1. LogTyped /\ NodesTyped /\ SnapTyped
  BY DEF ClusterInv
<1>2. /\ snap' = [from |-> leader, data |-> state[leader],
                  has |-> Cluster!Max({batch[leader].done, clusterApplied[leader]}),
                  ahead |-> ahead[leader]]
      /\ UNCHANGED <<clusterLog, clusterCommit, leader, rollback, state, clusterApplied, batch,
                     sound, ahead>>
  BY DEF Cluster!Snapshot, Cluster!Unserved
<1>3. LogTyped' /\ NodesTyped' /\ Committed' = Committed
  BY <1>1, <1>2 DEF LogTyped, NodesTyped, Committed
<1>4. /\ leader \in Member /\ Proper(state[leader]) /\ ahead[leader] \in 0..clusterCommit
      /\ batch[leader].done \in 0..clusterCommit /\ clusterApplied[leader] \in 0..clusterCommit
  BY <1>1 DEF LogTyped, NodesTyped
<1>5. clusterCommit \in Nat
  BY <1>1, CommittedTyped
<1>6. snap'.has = IF batch[leader].done >= clusterApplied[leader]
                    THEN batch[leader].done ELSE clusterApplied[leader]
  <2>1. batch[leader].done \in Nat /\ clusterApplied[leader] \in Nat
    BY <1>4, <1>5
  <2> QED BY <1>2, <2>1, MaxOfTwo
<1>7. snap'.from = leader /\ snap'.data = state[leader] /\ snap'.ahead = ahead[leader]
  BY <1>2
<1>8. SnapTyped'
  BY <1>2, <1>4, <1>6, <1>7 DEF SnapTyped
<1>9. PICK f : OnCourse(f)
  BY DEF ClusterInv
<1>10. Course(f, clusterCommit, Committed)'
  BY <1>2, <1>3, <1>9 DEF OnCourse
<1>11. NodesOnCourse(f)'
  <2>1. \A n : Position(n)' = Position(n)
    BY <1>2 DEF Position
  <2> QED BY <1>2, <1>3, <1>9, <2>1 DEF OnCourse, NodesOnCourse
<1>12. SnapOnCourse(f)'
  <2> SUFFICES ASSUME leader \in sound
               PROVE  Follows(Committed, state[leader], f[snap'.has], snap'.has, ahead[leader])
    BY <1>2, <1>3, <1>7 DEF SnapOnCourse
  <2>1. snap'.has = Position(leader)
    <3>1. CASE batch[leader] = Cluster!Idle
      <4>1. batch[leader].done = 0
        BY <3>1 DEF Cluster!Idle
      <4> QED BY <1>4, <1>6, <3>1, <4>1 DEF Position
    <3>2. CASE batch[leader] # Cluster!Idle
      <4>1. clusterApplied[leader] <= batch[leader].done
        BY <1>1, <3>2 DEF NodesTyped
      <4> QED BY <1>4, <1>6, <3>2, <4>1 DEF Position
    <3> QED BY <3>1, <3>2
  <2> QED BY <1>9, <2>1 DEF OnCourse, NodesOnCourse
<1> QED BY <1>3, <1>8, <1>10, <1>11, <1>12 DEF ClusterInv, OnCourse

\* The follower goes back to lastApplied with a state that may be beyond it.
LEMMA InstallStep ==
  ASSUME ClusterInv, NEW n \in Member, Cluster!InstallSnapshot(n)
  PROVE  ClusterInv'
<1> DEFINE a == clusterApplied[snap.from]
           top == Cluster!Max({snap.has, snap.ahead})
<1>1. LogTyped /\ NodesTyped /\ SnapTyped
  BY DEF ClusterInv
<1>2. /\ snap # Nil /\ n # snap.from /\ snap' = Nil
      /\ state' = [state EXCEPT ![n] = snap.data]
      /\ clusterApplied' = [clusterApplied EXCEPT ![n] = a]
      /\ ahead' = [ahead EXCEPT ![n] = top]
      /\ sound' \subseteq sound \cup {n}
      /\ n \in sound' => snap.has >= a /\ batch[n] = Cluster!Idle /\ snap.from \in sound
      /\ UNCHANGED <<clusterLog, clusterCommit, leader, rollback, batch>>
  BY DEF Cluster!InstallSnapshot, Cluster!Restore, Cluster!Unserved
<1>3. LogTyped' /\ SnapTyped' /\ Committed' = Committed
  BY <1>1, <1>2 DEF LogTyped, SnapTyped, Committed
<1>4. /\ snap.from \in Member /\ Proper(snap.data)
      /\ snap.has \in 0..clusterCommit /\ snap.ahead \in 0..clusterCommit
      /\ a \in 0..clusterCommit /\ clusterCommit \in Nat
  BY <1>1, <1>2, CommittedTyped DEF SnapTyped, NodesTyped
<1>5. top \in 0..clusterCommit /\ snap.has <= top /\ snap.ahead <= top
  BY <1>4, MaxOfTwo
<1> HIDE DEF top
<1>6. /\ state'[n] = snap.data /\ clusterApplied'[n] = a /\ ahead'[n] = top
      /\ DOMAIN state' = Member
      /\ \A m \in Member : m # n => /\ state'[m] = state[m] /\ ahead'[m] = ahead[m]
                                    /\ clusterApplied'[m] = clusterApplied[m]
  BY <1>1, <1>2 DEF NodesTyped
<1>7. NodesTyped'
  <2>1. \A m \in Member : Proper(state'[m])
    BY <1>1, <1>4, <1>6 DEF NodesTyped
  <2>2. sound' \subseteq Member
    BY <1>1, <1>2 DEF NodesTyped
  <2>3. /\ clusterApplied' \in [Member -> 0..clusterCommit]
        /\ ahead' \in [Member -> 0..clusterCommit]
    BY <1>1, <1>2, <1>4, <1>5 DEF NodesTyped
  <2>4. \A m \in sound' : batch[m] # Cluster!Idle => clusterApplied'[m] <= batch[m].done
    BY <1>1, <1>2, <1>6, <2>2 DEF NodesTyped
  <2> QED BY <1>1, <1>2, <1>6, <2>1, <2>2, <2>3, <2>4 DEF NodesTyped
<1>8. PICK f : OnCourse(f)
  BY DEF ClusterInv
<1>9. Course(f, clusterCommit, Committed)' /\ SnapOnCourse(f)'
  BY <1>2, <1>3, <1>8 DEF OnCourse, SnapOnCourse
<1>10. NodesOnCourse(f)'
  <2> SUFFICES ASSUME NEW m \in sound'
               PROVE  Follows(Committed, state'[m], f[Position(m)'], Position(m)', ahead'[m])
    BY <1>3 DEF NodesOnCourse
  <2>1. CASE m = n
    <3>1. snap.has >= a /\ batch[n] = Cluster!Idle /\ snap.from \in sound
      BY <1>2, <2>1
    <3>2. Position(n)' = a
      BY <1>2, <1>6, <3>1 DEF Position
    <3>3. Follows(Committed, snap.data, f[snap.has], snap.has, snap.ahead)
      BY <1>2, <1>8, <3>1 DEF OnCourse, SnapOnCourse
    <3>4. a \in 0..snap.has
      BY <1>4, <3>1
    <3>5. Follows(Committed, f[snap.has], f[a], a, snap.has)
      BY <1>4, <1>8, <3>4 DEF OnCourse, Course
    <3>6. snap.has \in Nat /\ snap.ahead \in Nat /\ top \in Nat
      BY <1>4, <1>5
    <3> HIDE DEF a
    <3>7. Follows(Committed, snap.data, f[a], a, top)
      BY <1>5, <3>3, <3>4, <3>5, <3>6, FollowsBack
    <3> QED BY <1>6, <2>1, <3>2, <3>7
  <2>2. CASE m # n
    <3>1. m \in sound /\ m \in Member
      BY <1>1, <1>2, <2>2 DEF NodesTyped
    <3>2. Position(m)' = Position(m)
      BY <1>2, <1>6, <2>2, <3>1 DEF Position
    <3> QED BY <1>6, <1>8, <2>2, <3>1, <3>2 DEF OnCourse, NodesOnCourse
  <2> QED BY <2>1, <2>2
<1> QED BY <1>3, <1>7, <1>9, <1>10 DEF ClusterInv, OnCourse

\* The empty state.
LEMMA ClusterStart == Cluster!Init => ClusterInv
<1> SUFFICES ASSUME Cluster!Init PROVE ClusterInv
  OBVIOUS
<1>1. Proper(Cluster!NewClusterState)
  BY DEF Proper, FlagsTrue, StateType, Cluster!NewClusterState
<1>2. /\ clusterLog = <<>> /\ clusterCommit = 0 /\ leader \in Member /\ rollback = Nil
      /\ snap = Nil /\ sound = Member
      /\ state = [n \in Member |-> Cluster!NewClusterState]
      /\ clusterApplied = [n \in Member |-> 0] /\ ahead = [n \in Member |-> 0]
      /\ batch = [n \in Member |-> Cluster!Idle]
  BY ClusterAssumption DEF Cluster!Init
<1>3. LogTyped /\ SnapTyped
  BY <1>2 DEF LogTyped, SnapTyped
<1>4. NodesTyped
  BY <1>1, <1>2 DEF NodesTyped, Cluster!Idle
<1> DEFINE f == [i \in 0..0 |-> Cluster!NewClusterState]
<1>5. Course(f, 0, Committed)
  <2>1. \A i \in 0..0 : i = 0 /\ f[i] = Cluster!NewClusterState
    OBVIOUS
  <2>2. 0..(0 - 1) = {}
    OBVIOUS
  <2>3. f = [i \in 0..0 |-> f[i]]
    OBVIOUS
  <2> HIDE DEF f
  <2> QED BY <1>1, <2>1, <2>2, <2>3, FollowsItself DEF Course
<1>6. NodesOnCourse(f)
  <2> SUFFICES ASSUME NEW n \in Member
               PROVE  Follows(Committed, state[n], f[Position(n)], Position(n), ahead[n])
    BY <1>2 DEF NodesOnCourse
  <2>1. state[n] = f[Position(n)]
    BY <1>2 DEF Position
  <2> QED BY <2>1, FollowsItself
<1>7. OnCourse(f)
  BY <1>2, <1>5, <1>6 DEF OnCourse, SnapOnCourse
<1> QED BY <1>3, <1>4, <1>7 DEF ClusterInv

\* Every step of the cluster.
LEMMA ClusterStep == ClusterInv /\ [Cluster!Next]_(Cluster!clusterVars) => ClusterInv'
<1> SUFFICES ASSUME ClusterInv, [Cluster!Next]_(Cluster!clusterVars) PROVE ClusterInv'
  OBVIOUS
<1>1. CASE UNCHANGED Cluster!clusterVars
  <2>1. /\ UNCHANGED <<clusterLog, clusterCommit, leader, rollback, Cluster!Unapplied>>
    BY <1>1 DEF Cluster!clusterVars, Cluster!Unapplied
  <2>2. LogKept
    BY <2>1 DEF LogKept, ClusterInv, LogTyped
  <2> QED BY <2>1, <2>2, LogStep DEF ClusterInv, LogTyped
<1>2. CASE Cluster!Next
  BY <1>2, ClientStep, LeaderStep, CommitStep, ApplyingStep, SnapshotStep, InstallStep
     DEF Cluster!Next
<1> QED BY <1>1, <1>2

\* The invariant says that nodes that have caught up agree.
LEMMA InvAgrees == ClusterInv => StatesAgree
<1> SUFFICES ASSUME ClusterInv PROVE StatesAgree
  OBVIOUS
<1>1. LogTyped /\ NodesTyped
  BY DEF ClusterInv
<1>2. clusterCommit \in Nat /\ DOMAIN Committed = 1..clusterCommit
      /\ \A i \in 1..clusterCommit : Committed[i] = clusterLog[i].cmd
  BY <1>1, CommittedTyped DEF Committed
<1>3. PICK f : OnCourse(f)
  BY DEF ClusterInv
<1>4. \A d \in Name : LeftOpen(Committed, d) => Cluster!Unnamed(d)
  BY <1>2 DEF LeftOpen, Cluster!Unnamed
<1>5. ASSUME NEW n \in sound, Cluster!CaughtUp(n)
      PROVE  LET b == f[clusterApplied[n]] IN
             /\ state[n].nodes = b.nodes
             /\ \A d \in Name : /\ Size(state[n], d) = Size(b, d)
                                /\ state[n].assignments[d] = b.assignments[d]
                                /\ state[n].active[d] = b.active[d] \/ Cluster!Unnamed(d)
  <2>1. Position(n) = clusterApplied[n] /\ ahead[n] <= clusterApplied[n]
    BY <1>5 DEF Cluster!CaughtUp, Position
  <2>2. /\ clusterApplied[n] \in 0..clusterCommit /\ ahead[n] \in 0..clusterCommit
        /\ Proper(state[n])
    BY <1>1 DEF NodesTyped
  <2>3. Follows(Committed, state[n], f[clusterApplied[n]], clusterApplied[n], ahead[n])
    BY <1>3, <2>1 DEF OnCourse, NodesOnCourse
  <2>4. Proper(f[clusterApplied[n]])
    BY <1>3, <2>2 DEF OnCourse, Course
  <2>5. clusterApplied[n] \in Nat /\ ahead[n] \in Nat
    BY <1>2, <2>2
  <2>6. PICK b : b = f[clusterApplied[n]]
    OBVIOUS
  <2>7. /\ state[n].nodes = b.nodes
        /\ \A d \in Name : /\ Size(state[n], d) = Size(b, d)
                           /\ state[n].assignments[d] = b.assignments[d]
                           /\ state[n].active[d] = b.active[d] \/ LeftOpen(Committed, d)
    BY <2>1, <2>2, <2>3, <2>4, <2>5, <2>6, FollowsExactly
  <2> QED BY <1>4, <2>6, <2>7
<1>6. Cluster!ReplayAgrees
  <2> SUFFICES ASSUME NEW n \in sound, NEW m \in sound, Cluster!CaughtUp(n), Cluster!CaughtUp(m),
                      clusterApplied[n] = clusterApplied[m]
               PROVE  /\ state[n].nodes = state[m].nodes
                      /\ \A d \in Name : Cluster!Meaning(state[n], d) = Cluster!Meaning(state[m], d)
    BY DEF Cluster!ReplayAgrees
  <2>1. state[n].nodes = state[m].nodes
    BY <1>5
  <2>2. ASSUME NEW d \in Name PROVE Cluster!Meaning(state[n], d) = Cluster!Meaning(state[m], d)
    <3>1. /\ Size(state[n], d) = Size(state[m], d)
          /\ state[n].assignments[d] = state[m].assignments[d]
          /\ state[n].active[d] = state[m].active[d] \/ Cluster!Unnamed(d)
      BY <1>5
    <3> QED BY <3>1 DEF Cluster!Meaning, Size
  <2> QED BY <2>1, <2>2
<1>7. Cluster!OneActive
  BY <1>1 DEF NodesTyped, Proper, FlagsTrue, Cluster!OneActive
<1> QED BY <1>6, <1>7 DEF StatesAgree

\* For every number of nodes, deployments and versions, and every course of
\* elections, batches and snapshots: nodes that have applied the same entries and
\* have caught up agree, and on every node the flags agree with ActiveVersions
\* (fsm.go:86 and :227, node.go:893 and :1162).
THEOREM StatesAlwaysAgree == Cluster!Spec => []StatesAgree
BY ClusterStart, ClusterStep, InvAgrees, PTL DEF Cluster!Spec

=============================================================================
